CONSTANTS
  A = A
  B = B
  k = k
  Channel = {A, B}
  Keyless = {A}
  Key = {}
  NoKey = NoKey
  Lives = {1}
  Forever = Forever
  MaxQueued = 2
  Budgets = {9}
  Base = 1
  Ceiling = 2
  MaxAttempts = 1
  ClockRuns = FALSE
  MaxBodies = 2
  MaxCrashes = 0
SPECIFICATION FairSpec
PROPERTY DurableLands
