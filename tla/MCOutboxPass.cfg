CONSTANTS
  A = A
  B = B
  k = k
  Channel = {A}
  Keyless = {}
  Key = {k}
  NoKey = NoKey
  Lives = {1}
  Forever = Forever
  MaxQueued = 2
  Budgets = {1, 9}
  Base = 1
  Ceiling = 2
  MaxAttempts = 1
  ClockRuns = FALSE
  MaxBodies = 3
  MaxCrashes = 1
SPECIFICATION Spec
INVARIANTS QueueBounded OneStatePerKey NothingVanishes
PROPERTIES NoStaleSend DueUrgentFirst DeadBacklogLeaves
