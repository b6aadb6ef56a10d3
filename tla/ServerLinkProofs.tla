-------------------------- MODULE ServerLinkProofs --------------------------
(***************************************************************************)
(* What a device goes on doing with the address it was given, for any      *)
(* addresses a family may have been given.                                 *)
(*                                                                         *)
(* The address in use and the one a restart comes back to are the given    *)
(* one (AddressInv); from that, a chain of somebody else's never verifies, *)
(* because the keys the address trusts, closed under signing, do not reach *)
(* the portal's authority (PortalRefused); and from that, what the app is  *)
(* told and what becomes of a message follow case by case (VerdictInv).    *)
(***************************************************************************)
EXTENDS ServerLink, SequenceTheorems, TLAPS

Schemes == {"sund", "sund+webpki"}
Hosts == {"name", "ip"}
Ports == {None, 443, 5870}
Fragments == {None, "lowercase hex", "uppercase hex"}

-----------------------------------------------------------------------------
(* Reading and writing addresses.                                          *)
LEMMA TextsAre ==
  Texts = [scheme : Schemes, host : Hosts, port : Ports, fragment : Fragments, more : BOOLEAN]
  BY DEF Texts, Schemes, Hosts, Ports, Fragments

\* What is left of an address once it was read, in either form.
Pinned(h, p) == [mode |-> "pinned", pin |-> Pin, host |-> h, port |-> p]
Named(h, p) == [mode |-> "webpki", pin |-> None, host |-> h, port |-> p]
DefaultPort(p) == IF p = None THEN 443 ELSE p

\* What is written of it.
PinnedText(h, p) ==
  [scheme |-> "sund", host |-> h, port |-> p, fragment |-> "lowercase hex", more |-> FALSE]
NamedText(h, p) ==
  [scheme |-> "sund+webpki", host |-> h, port |-> p, fragment |-> None, more |-> FALSE]

LEMMA AddressFields ==
  ASSUME NEW h, NEW p
  PROVE  /\ Pinned(h, p).mode = "pinned" /\ Pinned(h, p).pin = Pin
         /\ Pinned(h, p).host = h /\ Pinned(h, p).port = p
         /\ Named(h, p).mode = "webpki" /\ Named(h, p).pin = None
         /\ Named(h, p).host = h /\ Named(h, p).port = p
  BY DEF Pinned, Named

LEMMA PinnedTextIs ==
  ASSUME NEW h \in Hosts, NEW p \in Ports
  PROVE  /\ PinnedText(h, p) \in Texts
         /\ PinnedText(h, p).host = h /\ PinnedText(h, p).port = p
         /\ p # None => IsPinned(PinnedText(h, p))
  <1>1. "sund" \in Schemes /\ "lowercase hex" \in Fragments
    BY DEF Schemes, Fragments
  <1>2. PinnedText(h, p) \in Texts
    BY <1>1, TextsAre DEF PinnedText
  <1>3. PinnedText(h, p).host = h /\ PinnedText(h, p).port = p
    BY DEF PinnedText
  <1>4. PinnedText(h, p).scheme = "sund" /\ PinnedText(h, p).fragment = "lowercase hex"
    BY DEF PinnedText
  <1>5. ~PinnedText(h, p).more
    BY DEF PinnedText
  <1> QED
    BY <1>2, <1>3, <1>4, <1>5 DEF IsPinned

LEMMA NamedTextIs ==
  ASSUME NEW h \in Hosts, NEW p \in Ports
  PROVE  /\ NamedText(h, p) \in Texts
         /\ NamedText(h, p).host = h /\ NamedText(h, p).port = p
         /\ ~IsPinned(NamedText(h, p))
         /\ h # "ip" => IsWebPki(NamedText(h, p))
  <1>1. "sund+webpki" \in Schemes /\ None \in Fragments
    BY DEF Schemes, Fragments
  <1>2. NamedText(h, p) \in Texts
    BY <1>1, TextsAre DEF NamedText
  <1>3. NamedText(h, p).host = h /\ NamedText(h, p).port = p
    BY DEF NamedText
  <1>4. NamedText(h, p).scheme = "sund+webpki" /\ NamedText(h, p).fragment = None
    BY DEF NamedText
  <1>5. ~NamedText(h, p).more
    BY DEF NamedText
  <1>6. ~IsPinned(NamedText(h, p))
    BY <1>4 DEF IsPinned
  <1> QED
    BY <1>2, <1>3, <1>4, <1>5, <1>6 DEF IsWebPki

LEMMA ParsePinned ==
  ASSUME NEW t, IsPinned(t) PROVE Parse(t) = Pinned(t.host, t.port) /\ t.port # None
  BY DEF Parse, Pinned, IsPinned

LEMMA ParseNamed ==
  ASSUME NEW t, ~IsPinned(t), IsWebPki(t)
  PROVE  Parse(t) = Named(t.host, DefaultPort(t.port)) /\ t.host # "ip"
  BY DEF Parse, Named, DefaultPort, IsWebPki

LEMMA ParseRefuses == ASSUME NEW t, ~IsPinned(t), ~IsWebPki(t) PROVE Parse(t) = None
  BY DEF Parse

LEMMA DisplayIs ==
  ASSUME NEW h, NEW p
  PROVE  /\ Display(Pinned(h, p)) = PinnedText(h, p)
         /\ Display(Named(h, p)) = NamedText(h, IF p = 443 THEN None ELSE p)
  <1>1. \A a : a.mode = "pinned" => Display(a) = PinnedText(a.host, a.port)
    BY DEF Display, PinnedText
  <1>2. \A a : a.mode = "webpki" =>
          Display(a) = NamedText(a.host, IF a.port = 443 THEN None ELSE a.port)
    BY DEF Display, NamedText
  <1> QED
    BY <1>1, <1>2, AddressFields

\* An address reads back as it was written, whichever form it has
\* (address.rs, ServerAddress::parse and fmt).
LEMMA RoundTrip ==
  ASSUME NEW t \in Texts, Parse(t) # None
  PROVE  Display(Parse(t)) \in Texts /\ Parse(Display(Parse(t))) = Parse(t)
  <1>1. t.host \in Hosts /\ t.port \in Ports
    BY TextsAre
  <1>2. CASE IsPinned(t)
    BY <1>1, <1>2, ParsePinned, DisplayIs, PinnedTextIs
  <1>3. CASE ~IsPinned(t)
    <2> DEFINE p == DefaultPort(t.port)
               e == IF p = 443 THEN None ELSE p
    <2>1. IsWebPki(t)
      BY <1>3, ParseRefuses
    <2>2. Parse(t) = Named(t.host, p) /\ t.host # "ip"
      BY <1>3, <2>1, ParseNamed
    <2>3. e \in Ports /\ DefaultPort(e) = p
      BY <1>1 DEF DefaultPort, Ports
    <2>4. Display(Parse(t)) = NamedText(t.host, e)
      BY <2>2, DisplayIs
    <2> HIDE DEF p, e
    <2> QED
      BY <1>1, <2>2, <2>3, <2>4, NamedTextIs, ParseNamed
  <1> QED
    BY <1>2, <1>3

\* a is the given address, but for the port where the form has a default for it.
AsGiven(a) ==
  /\ a.mode = Parse(given).mode
  /\ a.pin = Parse(given).pin
  /\ a.host = Parse(given).host
  /\ a.port = Parse(given).port \/ (a.mode = "webpki" /\ given.port \notin {None, 443})

LEMMA GivenIsText == ASSUME given \in Given PROVE given \in Texts /\ Parse(given) # None
  BY ServerLinkAssumption

\* Whatever becomes of an address on its way, what is left is refused or is the same
\* address: never one of the other mode.
LEMMA EditedAddress ==
  ASSUME given \in Given, NEW t \in Edits(given), Parse(t) # None
  PROVE  t \in Texts /\ AsGiven(Parse(t))
  <1>1. PICK g \in Texts : g = given /\ Parse(g) # None
    BY GivenIsText
  <1>2. None # "lowercase hex" /\ None # "uppercase hex"
    BY ServerLinkAssumption
  <1>3. None \in Ports /\ None \in Fragments
    BY DEF Ports, Fragments
  <1>4. CASE t = g
    BY <1>1, <1>4 DEF AsGiven
  <1>5. ASSUME t \in Texts, ~IsPinned(t), t.scheme = g.scheme, t.host = g.host,
               t.port \in {g.port, None}, IsPinned(g) => t.scheme = "sund"
        PROVE  AsGiven(Parse(t))
    <2>1. IsWebPki(t)
      BY <1>5, ParseRefuses
    <2>2. t.scheme = "sund+webpki"
      BY <2>1 DEF IsWebPki
    <2>3. ~IsPinned(g) /\ IsWebPki(g)
      BY <1>1, <1>5, <2>2, ParseRefuses
    <2>4. Parse(t) = Named(g.host, DefaultPort(t.port)) /\ Parse(g) = Named(g.host, DefaultPort(g.port))
      BY <1>5, <2>1, <2>3, ParseNamed
    <2>5. g.port \in {None, 443} => DefaultPort(t.port) = DefaultPort(g.port)
      BY <1>5 DEF DefaultPort
    <2>6. t.port = g.port => DefaultPort(t.port) = DefaultPort(g.port)
      OBVIOUS
    <2>7. given.port = g.port /\ Parse(given) = Named(g.host, DefaultPort(g.port))
      BY <1>1, <2>4
    <2> QED
      BY <1>5, <2>4, <2>5, <2>6, <2>7, AddressFields DEF AsGiven
  <1>6. IsPinned(g) => g.scheme = "sund"
    BY DEF IsPinned
  <1>7. CASE t = [g EXCEPT !.fragment = None]
    <2>1. t \in Texts
      BY <1>3, <1>7, TextsAre
    <2>2. t.fragment = None /\ t.scheme = g.scheme /\ t.host = g.host /\ t.port = g.port
      BY <1>7, TextsAre
    <2>3. ~IsPinned(t)
      BY <1>2, <2>2 DEF IsPinned
    <2> QED
      BY <1>5, <1>6, <2>1, <2>2, <2>3
  <1>8. CASE t = [g EXCEPT !.port = None]
    <2>1. t \in Texts
      BY <1>3, <1>8, TextsAre
    <2>2. t.scheme = g.scheme /\ t.host = g.host /\ t.port = None
      BY <1>8, TextsAre
    <2>3. ~IsPinned(t)
      BY <2>2 DEF IsPinned
    <2> QED
      BY <1>5, <1>6, <2>1, <2>2, <2>3
  <1>9. CASE t = [g EXCEPT !.more = TRUE]
    <2>1. t.more
      BY <1>9, TextsAre
    <2>2. ~IsPinned(t) /\ ~IsWebPki(t)
      BY <2>1 DEF IsPinned, IsWebPki
    <2> QED
      BY <2>2, ParseRefuses
  <1>10. CASE g.fragment # None /\ t = [g EXCEPT !.fragment = "uppercase hex"]
    <2>1. t.fragment = "uppercase hex"
      BY <1>10, TextsAre
    <2>2. ~IsPinned(t)
      BY <2>1 DEF IsPinned
    <2>3. ~IsWebPki(t)
      BY <1>2, <2>1 DEF IsWebPki
    <2> QED
      BY <2>2, <2>3, ParseRefuses
  <1> QED
    BY <1>1, <1>4, <1>7, <1>8, <1>9, <1>10 DEF Edits

-----------------------------------------------------------------------------
(* The address in use.                                                     *)
Reads(a) == AsGiven(a) /\ \E t \in Texts : a = Parse(t) /\ Parse(t) # None

AddressInv ==
  /\ given \in Given
  /\ site \in Hosted
  /\ address # None => Reads(address)
  /\ text # None => text \in Texts /\ Parse(text) # None /\ AsGiven(Parse(text))
  /\ call # None => address # None

LEMMA AddressInitHolds == Init => AddressInv
  BY DEF Init, AddressInv

LEMMA AddressNextHolds == AddressInv /\ [Next]_vars => AddressInv'
  <1> SUFFICES ASSUME AddressInv, [Next]_vars PROVE AddressInv'
    OBVIOUS
  <1>2. ASSUME UNCHANGED <<given, address, text>>, site' \in Hosted', call' # None => call # None \/ address # None
        PROVE  AddressInv'
    BY <1>2 DEF AddressInv, Reads, AsGiven
  <1>3. ASSUME NEW t \in Edits(given), Pair(t) PROVE AddressInv'
    <2>1. UNCHANGED <<given, site, text, call>> /\ address' = Parse(t) /\ address = None
      BY <1>3 DEF Pair, world
    <2>2. Parse(t) # None => t \in Texts /\ AsGiven(Parse(t))
      BY EditedAddress DEF AddressInv
    <2>3. address' # None => Reads(address)'
      BY <2>1, <2>2 DEF Reads, AsGiven
    <2>4. Hosted' = Hosted
      BY <2>1 DEF Hosted
    <2> QED
      BY <2>1, <2>3, <2>4 DEF AddressInv, AsGiven
  <1>4. CASE Snapshot
    <2>1. UNCHANGED <<given, site, address, call>> /\ text' = Display(address) /\ address # None
      BY <1>4 DEF Snapshot, world
    <2>2. PICK t \in Texts : address = Parse(t) /\ Parse(t) # None
      BY <2>1 DEF AddressInv, Reads
    <2>3. text' \in Texts /\ Parse(text') = address
      BY <2>1, <2>2, RoundTrip
    <2>4. Hosted' = Hosted
      BY <2>1 DEF Hosted
    <2> QED
      BY <2>1, <2>2, <2>3, <2>4 DEF AddressInv, AsGiven, Reads
  <1>5. CASE Restart
    <2>1. UNCHANGED <<given, site, text>> /\ call' = None
          /\ address' = IF text = None THEN None ELSE Parse(text)
      BY <1>5 DEF Restart, world
    <2>2. Hosted' = Hosted
      BY <2>1 DEF Hosted
    <2>3. address' # None => Reads(address)'
      BY <2>1 DEF AddressInv, Reads, AsGiven
    <2> QED
      BY <2>1, <2>2, <2>3 DEF AddressInv, AsGiven
  <1>6. ASSUME UNCHANGED <<world, address, text>>, call # None \/ call' = None \/ address # None
        PROVE  AddressInv'
    <2>1. UNCHANGED <<given, site>> /\ Hosted' = Hosted
      BY <1>6 DEF world, Hosted
    <2> QED
      BY <1>2, <1>6, <2>1 DEF AddressInv
  <1>7. CASE AskServer \/ Drain \/ Serve \/ NoRoad \/ MeetPortal \/ NotTheServer \/ Answered \/ AnswerLost
    BY <1>6, <1>7 DEF AskServer, Drain, Serve, NoRoad, MeetPortal, NotTheServer, Answered, AnswerLost,
                      Fails, Ends
  <1>8. CASE Renewed
    <2>1. Hosted' = Hosted /\ UNCHANGED <<given, address, text, call>> /\ site' \in Hosted
      BY <1>8 DEF Renewed, Hosted
    <2> QED
      BY <1>2, <2>1
  <1>9. CASE Moves \/ ClockSet \/ Revoked \/ Post \/ UNCHANGED vars
    <2>1. Hosted' = Hosted /\ UNCHANGED <<given, site, address, text, call>>
      BY <1>9 DEF Moves, ClockSet, Revoked, Post, Hosted, vars, world
    <2> QED
      BY <1>2, <2>1 DEF AddressInv
  <1> QED
    BY <1>3, <1>4, <1>5, <1>7, <1>8, <1>9 DEF Next

\* However the address came to the app, and over any number of restarts, the one in use
\* and the one a restart would come back to are the given one, in its mode.  Of the form
\* that has a default port only where the given address is on that port: elsewhere an
\* address that lost its port reads as another server's (address.rs, parse and fmt).
THEOREM AddressIsAsGivenAlways ==
  ASSUME \A t \in Given : t.scheme = "sund+webpki" => t.port \in {None, 443}
  PROVE  Spec => []AddressIsAsGiven
  <1>1. ASSUME AddressInv, NEW t \in Texts, Parse(t) # None, AsGiven(Parse(t))
        PROVE  Parse(t) = Parse(given)
    <2>1. PICK g \in Texts : g = given /\ Parse(g) # None /\ (g.scheme = "sund+webpki" => g.port \in {None, 443})
      BY <1>1, GivenIsText DEF AddressInv
    <2>2. CASE IsPinned(g)
      <3>1. Parse(g) = Pinned(g.host, g.port) /\ Parse(g).mode = "pinned"
        BY <2>2, ParsePinned, AddressFields
      <3>2. Parse(t).mode = "pinned" /\ Parse(t).host = g.host /\ Parse(t).port = g.port
        BY <1>1, <2>1, <3>1, AddressFields DEF AsGiven
      <3>3. IsPinned(t)
        BY <1>1, <3>2, ParseRefuses, ParseNamed, AddressFields
      <3> QED
        BY <2>1, <3>1, <3>2, <3>3, ParsePinned, AddressFields
    <2>3. CASE ~IsPinned(g)
      <3>1. IsWebPki(g) /\ g.scheme = "sund+webpki"
        BY <2>1, <2>3, ParseRefuses DEF IsWebPki
      <3>2. Parse(g) = Named(g.host, DefaultPort(g.port)) /\ Parse(g).mode = "webpki"
        BY <2>3, <3>1, ParseNamed, AddressFields
      <3>3. Parse(t).mode = "webpki" /\ Parse(t).host = g.host /\ Parse(t).port = DefaultPort(g.port)
        BY <1>1, <2>1, <3>1, <3>2, AddressFields DEF AsGiven
      <3>4. ~IsPinned(t) /\ IsWebPki(t)
        BY <1>1, <3>3, ParseRefuses, ParsePinned, AddressFields
      <3> QED
        BY <2>1, <3>2, <3>3, <3>4, ParseNamed, AddressFields
    <2> QED
      BY <2>2, <2>3
  <1>2. AddressInv => AddressIsAsGiven
    BY <1>1 DEF AddressInv, Reads, AddressIsAsGiven
  <1> QED
    BY <1>2, AddressInitHolds, AddressNextHolds, PTL DEF Spec

-----------------------------------------------------------------------------
(* Whom the device takes for the server.                                   *)

\* A key that is no authority's, and that only its own certificate speaks for, is not
\* reached: neither is what it signed.
LEMMA NotReached ==
  ASSUME NEW chain, NEW authorities, NEW key, key \notin authorities,
         \A i \in 2..Len(chain) : chain[i].of = key => chain[i].by = key,
         ChainsTo(chain, authorities)
  PROVE  chain[1].by # key
  <1> DEFINE others == {chain[i] : i \in 2..Len(chain)}
             all == authorities \cup {o.of : o \in others}
             keys == all \ {key}
  <1>1. keys \in SUBSET all /\ authorities \subseteq keys
    OBVIOUS
  <1>2. \A o \in others : o.good /\ o.by \in keys => o.of \in keys
    OBVIOUS
  <1>3. \A k \in SUBSET all :
          authorities \subseteq k /\ (\A o \in others : o.good /\ o.by \in k => o.of \in k) =>
            chain[1].by \in k
    BY DEF ChainsTo
  <1>4. chain[1].by \in keys
    BY <1>1, <1>2, <1>3
  <1> QED
    BY <1>4

\* The three kinds of chains somebody else presents, by what tells them apart.
LEMMA PortalPresents ==
  ASSUME AddressInv, NEW chain \in PortalChains, HandshakeSigned("portal", chain)
  PROVE  \/ /\ chain[1].by = "portal authority"
            /\ \A i \in 2..Len(chain) :
                 chain[i].of = "portal authority" => chain[i].by = "portal authority"
         \/ /\ chain[1].by = "public authority" /\ chain[1].name = "portal"
            /\ \A i \in 2..Len(chain) :
                 chain[i].of = "public authority" => chain[i].by = "public authority"
  <1> DEFINE first == Cert("portal", "portal authority", given.host, TRUE)
             root == Root("portal authority")
             own == <<first, root>>
             server == Chain(site)
  <1>1. first.by = "portal authority" /\ root.by = "portal authority" /\ root.of = "portal authority"
    BY DEF Cert, Root
  <1>2. site.authority \in {"authority 1", "authority 2", "public authority"}
    BY DEF AddressInv, Hosted, Sites
  <1>3. /\ \E S : server \in Seq(S)
        /\ Len(server) \in {2, 3} /\ server[1].of = "server"
        /\ \A i \in 1..Len(server) : server[i].of # "portal authority"
    <2>1. CASE site.deep
      <3> DEFINE a == Cert("server", "intermediate", given.host, site.good)
                 b == Cert("intermediate", site.authority, None, TRUE)
                 c == Root(site.authority)
      <3>1. server = <<a, b, c>>
        BY <2>1 DEF Chain
      <3>2. a.of = "server" /\ b.of = "intermediate" /\ c.of = site.authority
        BY DEF Cert, Root
      <3> HIDE DEF a, b, c, server
      <3>3. Len(server) = 3 /\ server[1] = a /\ server[2] = b /\ server[3] = c
            /\ server \in Seq({a, b, c})
        BY <3>1
      <3>4. \A i \in 1..Len(server) : i \in {1, 2, 3}
        BY <3>3
      <3> QED
        BY <1>2, <3>2, <3>3, <3>4
    <2>2. CASE ~site.deep
      <3> DEFINE a == Cert("server", site.authority, given.host, site.good)
                 c == Root(site.authority)
      <3>1. server = <<a, c>>
        BY <2>2 DEF Chain
      <3>2. a.of = "server" /\ c.of = site.authority
        BY DEF Cert, Root
      <3> HIDE DEF a, c, server
      <3>3. Len(server) = 2 /\ server[1] = a /\ server[2] = c /\ server \in Seq({a, c})
        BY <3>1
      <3>4. \A i \in 1..Len(server) : i \in {1, 2}
        BY <3>3
      <3> QED
        BY <1>2, <3>2, <3>3, <3>4
    <2> QED
      BY <2>1, <2>2
  <1>4. CASE chain = own
    <2> HIDE DEF first, root
    <2>1. Len(chain) = 2 /\ chain[1] = first /\ chain[2] = root
      BY <1>4
    <2>2. \A i \in 2..Len(chain) : i = 2
      BY <2>1
    <2> QED
      BY <1>1, <2>1, <2>2
  <1>5. CASE chain = own \o server
    <2> HIDE DEF first, root, server
    <2>1. PICK S : server \in Seq(S)
      BY <1>3
    <2> DEFINE T == S \cup {first, root}
    <2>2. own \in Seq(T) /\ Len(own) = 2 /\ own[1] = first /\ own[2] = root
      OBVIOUS
    <2>3. server \in Seq(T)
      BY <2>1
    <2> HIDE DEF own, T
    <2>4. Len(chain) = 2 + Len(server)
          /\ \A i \in 1..Len(chain) : chain[i] = IF i <= 2 THEN own[i] ELSE server[i - 2]
      <3>1. /\ Len(own \o server) = Len(own) + Len(server)
            /\ \A i \in 1..Len(own) + Len(server) :
                 (own \o server)[i] = IF i <= Len(own) THEN own[i] ELSE server[i - Len(own)]
        BY <2>2, <2>3, ConcatProperties
      <3>2. chain = own \o server
        BY <1>5
      <3> QED
        BY <2>2, <3>1, <3>2
    <2>5. PICK n \in Nat : n = Len(server) /\ Len(chain) = 2 + n
      BY <1>3, <2>4
    <2>6. chain[1] = first /\ chain[2] = root
      <3>1. 1 \in 1..Len(chain) /\ 2 \in 1..Len(chain)
        BY <2>5
      <3> QED
        BY <2>2, <2>4, <3>1
    <2>7. ASSUME NEW i \in 2..Len(chain), chain[i].of = "portal authority"
          PROVE  chain[i].by = "portal authority"
      <3>1. i \in Int /\ 2 <= i /\ i <= 2 + n /\ i \in 1..Len(chain)
        BY <2>5
      <3>2. CASE i = 2
        BY <1>1, <2>6, <3>2
      <3>3. CASE i # 2
        <4>1. i - 2 \in 1..n /\ ~(i <= 2)
          BY <3>1, <3>3
        <4>2. chain[i] = server[i - 2]
          BY <2>4, <3>1, <4>1
        <4> QED
          BY <1>3, <2>5, <2>7, <4>1, <4>2
      <3> QED
        BY <3>2, <3>3
    <2> QED
      BY <1>1, <2>6, <2>7
  <1>6. CASE chain = server
    BY <1>3, <1>6 DEF HandshakeSigned
  <1>7. CASE chain = <<Cert("portal", "public authority", "portal", TRUE), Root("public authority")>>
    <2> DEFINE a == Cert("portal", "public authority", "portal", TRUE)
               c == Root("public authority")
    <2>1. a.by = "public authority" /\ a.name = "portal" /\ c.by = "public authority"
      BY DEF Cert, Root
    <2> HIDE DEF a, c
    <2>2. Len(chain) = 2 /\ chain[1] = a /\ chain[2] = c
      BY <1>7 DEF a, c
    <2>3. \A i \in 2..Len(chain) : i = 2
      BY <2>2
    <2> QED
      BY <2>1, <2>2, <2>3
  <1> QED
    BY <1>4, <1>5, <1>6, <1>7 DEF PortalChains

PortalTrusted == given.fragment = None /\ "portal authority" \in trusted

\* Matching the pin and chaining to it, or the platform's verification with the name:
\* somebody else passes neither, whatever it presents (agent.rs, verify_server_cert).
LEMMA PortalRefused ==
  ASSUME AddressInv, address # None, NEW chain \in PortalChains, Accepts("portal", chain)
  PROVE  PortalTrusted
  <1>1. PICK g \in Texts : g = given /\ Parse(g) # None
    BY GivenIsText DEF AddressInv
  <1>2. HandshakeSigned("portal", chain)
    BY DEF Accepts
  <1>3. CASE IsPinned(g)
    <2>1. Parse(given).mode = "pinned" /\ Parse(given).pin = Pin
      BY <1>1, <1>3, ParsePinned, AddressFields
    <2>2. address.mode = "pinned" /\ address.pin = Pin
      BY <2>1 DEF AddressInv, Reads, AsGiven
    <2>3. ChainsTo(chain, {Pin})
      BY <2>2 DEF Accepts, VerifyServerCert
    <2>4. "portal authority" \notin {Pin} /\ "public authority" \notin {Pin}
      BY DEF Pin
    <2>5. chain[1].by \in {"portal authority", "public authority"}
      BY <1>2, PortalPresents
    <2> QED
      BY <1>2, <2>3, <2>4, <2>5, PortalPresents, NotReached
  <1>4. CASE ~IsPinned(g)
    <2>1. IsWebPki(g)
      BY <1>1, <1>4, ParseRefuses
    <2>2. Parse(given).mode = "webpki" /\ Parse(given).host = g.host
      BY <1>1, <1>4, <2>1, ParseNamed, AddressFields
    <2>3. address.mode = "webpki" /\ address.host = g.host
      BY <2>2 DEF AddressInv, Reads, AsGiven
    <2>4. given.fragment = None
      BY <1>1, <2>1 DEF IsWebPki
    <2>5. g.host # "portal"
      BY TextsAre DEF Hosts
    <2>6. chain[1].name = g.host /\ ChainsTo(chain, trusted)
      BY <2>3 DEF Accepts, WebPki
    <2>7. "portal authority" \in trusted
      BY <1>2, <2>5, <2>6, PortalPresents, NotReached
    <2> QED
      BY <2>4, <2>7 DEF PortalTrusted
  <1> QED
    BY <1>3, <1>4

-----------------------------------------------------------------------------
(* What is made of an outcome.                                             *)
Outcomes == {"ok", "unauthorized", "not found", "quota", "status", "tls", "network",
             "protocol", "malformed"}

ToldFits ==
  /\ told.plane = "management" =>
       (told.says = "not the server you paired with") = (told.why = "certificate")
  /\ told.why = "answered" /\ told.by = "portal" => PortalTrusted

MessageFits ==
  /\ honestly \in BOOLEAN
  /\ message = "dropped" /\ ~honestly => PortalTrusted
  /\ message = "sent" => honestly

VerdictInv == (told # None => ToldFits) /\ MessageFits

LEMMA VerdictInitHolds == Init => VerdictInv
  BY DEF Init, VerdictInv, MessageFits

\* A refused certificate, and nothing else, is classified as one.
LEMMA Classified ==
  /\ \A e \in Surfaces("certificate") : Classify(e) = "tls"
  /\ \A e \in Surfaces("road") : Classify(e) = "network"
  /\ \A e \in Surfaces("redirect") : Classify(e) = "protocol"
  <1>1. \A e : e.kind = "io" /\ e.inside = "rustls" => Classify(e) = "tls"
    BY DEF Classify, IsTlsFailure
  <1>2. \A e : e.kind \in {"io", "timeout", "host not found"} /\ e.inside # "rustls" => Classify(e) = "network"
    BY DEF Classify, IsTlsFailure
  <1>3. \A e : e.kind = "too many redirects" => Classify(e) = "protocol"
    BY DEF Classify, IsTlsFailure
  <1>4. None # "rustls"
    BY ServerLinkAssumption
  <1>5. \A e \in Surfaces("certificate") : e.kind = "io" /\ e.inside = "rustls"
    BY DEF Surfaces
  <1>6. ASSUME NEW e \in Surfaces("road")
        PROVE  e.kind \in {"io", "timeout", "host not found"} /\ e.inside = None
    <2>1. PICK k \in {"io", "timeout", "host not found"} : e = [kind |-> k, inside |-> None]
      BY DEF Surfaces
    <2> QED
      BY <2>1
  <1>7. ASSUME NEW e \in Surfaces("redirect") PROVE e.kind = "too many redirects"
    <2>1. e = [kind |-> "too many redirects", inside |-> None]
      BY DEF Surfaces
    <2> QED
      BY <2>1
  <1> QED
    BY <1>1, <1>2, <1>3, <1>4, <1>5, <1>6, <1>7

LEMMA Checked ==
  ASSUME NEW status \in Statuses
  PROVE  /\ CheckStatus(status) \in {"ok", "unauthorized", "not found", "quota", "status"}
         /\ ReadPage(status) \in {"malformed", "unauthorized", "not found", "quota", "status"}
  BY DEF Statuses, CheckStatus, ReadPage

LEMMA Tells ==
  ASSUME NEW e \in Outcomes
  PROVE  /\ (ClientError(e) = "not the server you paired with") = (e = "tls")
         /\ (ChannelError(e) = "retired") = (e = "not found")
  BY DEF Outcomes, ClientError, ChannelError

\* A call that ends with e.
LEMMA Ending ==
  ASSUME VerdictInv, NEW e \in Outcomes, NEW by, NEW why, Ends(e, by, why),
         (why = "certificate") = (e = "tls"),
         why = "answered" /\ by = "portal" => PortalTrusted,
         e = "ok" => by = "server",
         e = "not found" /\ by # "server" => PortalTrusted
  PROVE  VerdictInv'
  <1>1. UNCHANGED <<given, trusted>>
    BY DEF Ends, world
  <1>2. PortalTrusted' = PortalTrusted
    BY <1>1 DEF PortalTrusted
  <1>3. told'.plane = call.plane /\ told'.by = by /\ told'.why = why /\ told'.says = Outcome(e)
    BY DEF Ends
  <1>4. call.plane = "management" =>
          (Outcome(e) = "not the server you paired with") = (e = "tls")
    BY Tells DEF Outcome
  <1>5. ToldFits'
    BY <1>2, <1>3, <1>4 DEF ToldFits
  <1>6. MessageFits'
    <2>1. CASE UNCHANGED outbox
      BY <1>2, <2>1 DEF VerdictInv, MessageFits, outbox
    <2>2. CASE e = "ok" /\ message' = "sent" /\ honestly' = (by = "server")
      BY <2>2 DEF MessageFits
    <2>3. CASE ChannelError(e) = "retired" /\ message' = "dropped" /\ honestly' = (by = "server")
      BY <1>2, <2>3, Tells DEF MessageFits
    <2> QED
      BY <2>1, <2>2, <2>3 DEF Ends, Settled
  <1> QED
    BY <1>5, <1>6 DEF VerdictInv

LEMMA VerdictNextHolds == AddressInv /\ VerdictInv /\ [Next]_vars => VerdictInv'
  <1> SUFFICES ASSUME AddressInv, VerdictInv, [Next]_vars PROVE VerdictInv'
    OBVIOUS
  <1>1. {"tls", "network", "protocol", "ok", "unauthorized", "not found", "quota", "status", "malformed"}
          \subseteq Outcomes
    BY DEF Outcomes
  <1>2. ASSUME NoRoad \/ AnswerLost PROVE VerdictInv'
    <2>1. Ends("network", "nobody", "road")
      BY <1>2, Classified DEF NoRoad, AnswerLost, Fails
    <2> QED
      BY <1>1, <2>1, Ending
  <1>3. ASSUME NotTheServer PROVE VerdictInv'
    <2>1. Ends("tls", "server", "certificate")
      BY <1>3, Classified DEF NotTheServer, Fails
    <2> QED
      BY <1>1, <2>1, Ending
  <1>4. ASSUME MeetPortal PROVE VerdictInv'
    <2>1. PICK chain \in PortalChains :
            IF Accepts("portal", chain)
            THEN \/ \E status \in Statuses : Ends(ReadPage(status), "portal", "answered")
                 \/ Fails("redirect", "portal", "answered")
            ELSE Fails("certificate", "portal", "certificate")
      BY <1>4 DEF MeetPortal
    <2>2. address # None
      BY <1>4 DEF MeetPortal, AddressInv
    <2>3. CASE ~Accepts("portal", chain)
      <3>1. Ends("tls", "portal", "certificate")
        BY <2>1, <2>3, Classified DEF Fails
      <3> QED
        BY <1>1, <3>1, Ending
    <2>4. CASE Accepts("portal", chain)
      <3>1. PortalTrusted
        BY <2>2, <2>4, PortalRefused
      <3>2. ASSUME NEW status \in Statuses, Ends(ReadPage(status), "portal", "answered")
            PROVE  VerdictInv'
        BY <1>1, <3>1, <3>2, Checked, Ending
      <3>3. ASSUME Fails("redirect", "portal", "answered") PROVE VerdictInv'
        <4>1. Ends("protocol", "portal", "answered")
          BY <3>3, Classified DEF Fails
        <4> QED
          BY <1>1, <3>1, <4>1, Ending
      <3> QED
        BY <2>1, <2>4, <3>2, <3>3
    <2> QED
      BY <2>3, <2>4
  <1>5. ASSUME Answered PROVE VerdictInv'
    <2>1. PICK why \in {"not accepted", "answered"} : Ends(CheckStatus(call.carried), "server", why)
      BY <1>5 DEF Answered
    <2>2. CASE CheckStatus(call.carried) \in Outcomes \ {"tls"}
      BY <2>1, <2>2, Ending
    <2> QED
      BY <2>2 DEF CheckStatus, Outcomes
  <1>6. ASSUME UNCHANGED <<given, trusted, told, message, honestly>> PROVE VerdictInv'
    BY <1>6 DEF VerdictInv, ToldFits, MessageFits, PortalTrusted
  <1>7. ASSUME NEW t \in Edits(given), Pair(t) PROVE VerdictInv'
    BY <1>6, <1>7 DEF Pair, world, outbox
  <1>8. CASE Snapshot \/ AskServer \/ Drain \/ Serve \/ Renewed \/ Moves \/ ClockSet \/ Revoked \/ UNCHANGED vars
    BY <1>6, <1>8 DEF Snapshot, AskServer, Drain, Serve, Renewed, Moves, ClockSet, Revoked, vars,
                      world, outbox
  <1>9. CASE Restart \/ Post
    <2>1. UNCHANGED <<given, trusted, told>>
          /\ \/ UNCHANGED <<message, honestly>>
             \/ message' = "none" /\ honestly' = TRUE
             \/ message' = "waits" /\ UNCHANGED honestly
      BY <1>9 DEF Restart, Post, world, outbox
    <2> QED
      BY <2>1 DEF VerdictInv, ToldFits, MessageFits, PortalTrusted
  <1> QED
    BY <1>2, <1>3, <1>4, <1>5, <1>7, <1>8, <1>9 DEF Next

\* A person is told that this is not the server exactly when a certificate was refused,
\* whatever layers the failure went through (agent.rs, classify; error.rs).
THEOREM IdentityIsToldApartAlways == Spec => []IdentityIsToldApart
  <1>1. VerdictInv => IdentityIsToldApart
    BY DEF VerdictInv, ToldFits, IdentityIsToldApart
  <1> QED
    BY <1>1, AddressInitHolds, AddressNextHolds, VerdictInitHolds, VerdictNextHolds, PTL DEF Spec

\* Nobody else is taken for the server, whatever it presents along with its own, unless
\* the platform trusts it for that very name (agent.rs, verify_server_cert).
THEOREM OnlyTheServerAnswersAlways == Spec => []OnlyTheServerAnswers
  <1>1. VerdictInv => OnlyTheServerAnswers
    BY DEF VerdictInv, ToldFits, OnlyTheServerAnswers, PortalTrusted
  <1> QED
    BY <1>1, AddressInitHolds, AddressNextHolds, VerdictInitHolds, VerdictNextHolds, PTL DEF Spec

\* A message leaves the outbox on the server's word alone (sund_transport.rs,
\* channel_error; outbox.rs, drain).
THEOREM NotLostOnTheRoadAlways == Spec => []NotLostOnTheRoad
  <1>1. VerdictInv => NotLostOnTheRoad
    BY DEF VerdictInv, MessageFits, NotLostOnTheRoad, PortalTrusted
  <1> QED
    BY <1>1, AddressInitHolds, AddressNextHolds, VerdictInitHolds, VerdictNextHolds, PTL DEF Spec

=============================================================================
