----------------------------- MODULE ServerLink -----------------------------
(***************************************************************************)
(* One device and the server whose address it was given: how the address   *)
(* is read and kept (address.rs, state.rs), whom the device is willing to  *)
(* talk to (agent.rs), how a request is stamped (http.rs, sigauth.rs), and *)
(* what becomes of a failure on its way up through the layers (client.rs,  *)
(* sund_transport.rs, error.rs, the binding's error.rs).                   *)
(*                                                                         *)
(* The world changes between the steps of a call: the network goes, or     *)
(* somebody else answers (a captive portal, a proxy), the server's         *)
(* certificates are renewed or run out, the device's clock is wrong, its   *)
(* registration is revoked, answers are lost.                              *)
(*                                                                         *)
(* A certificate is whose key it is, by whose key it is signed, the name   *)
(* on it, and whether its dates and its purpose are in order.              *)
(*                                                                         *)
(* A definition named Op_Variant, just before Op, is Op with a plausible   *)
(* mistake in it; no action uses it.                                       *)
(***************************************************************************)
EXTENDS Naturals, Sequences, Functions

CONSTANTS
  None,      \* stands for nothing
  Given,     \* the addresses a family may have been given, as text
  Managed    \* whether the platform's trust store may hold the portal's authority

VARIABLES
  given,     \* the address this family was given
  address,   \* the address in use, None before there is one
  text,      \* the address in the snapshot on disk, None if there is none
  site,      \* the server's certificates: whose authority, through how many hands
             \* (deep), and whether they are in order (good)
  network,   \* "open", "none", or "portal": somebody else answers
  trusted,   \* the authorities of the platform's trust store
  clock,     \* whether the device's clock is within the server's skew window
  revoked,   \* whether the server has revoked the device
  call,      \* the request under way, None if there is none
  told,      \* what the app was last told of a request, and of what kind it was
  message,   \* a message in the outbox: "none", "waits", "sent" or "dropped"
  honestly   \* history: whether the server itself settled what became of it

world == <<given, site, network, trusted, clock, revoked>>
outbox == <<message, honestly>>
vars == <<world, address, text, call, told, outbox>>

-----------------------------------------------------------------------------
(* Addresses.                                                              *)
Pin == "authority 1"

\* Either form, and nothing else: a pinned address without its fingerprint is no
\* address, and neither is one with anything after the authority.
IsPinned(t) == t.scheme = "sund" /\ t.fragment = "lowercase hex" /\ t.port # None /\ ~t.more
IsWebPki(t) == t.scheme = "sund+webpki" /\ t.fragment = None /\ t.host # "ip" /\ ~t.more

Parse_PinOptional(t) ==
  IF IsPinned(t) THEN [mode |-> "pinned", pin |-> Pin, host |-> t.host, port |-> t.port]
  ELSE IF t.fragment = None /\ ~t.more
       THEN [mode |-> "webpki", pin |-> None, host |-> t.host, port |-> IF t.port = None THEN 443 ELSE t.port]
       ELSE None
Parse(t) ==
  IF IsPinned(t) THEN [mode |-> "pinned", pin |-> Pin, host |-> t.host, port |-> t.port]
  ELSE IF IsWebPki(t)
       THEN [mode |-> "webpki", pin |-> None, host |-> t.host, port |-> IF t.port = None THEN 443 ELSE t.port]
       ELSE None

Texts == [scheme : {"sund", "sund+webpki"}, host : {"name", "ip"}, port : {None, 443, 5870},
          fragment : {None, "lowercase hex", "uppercase hex"}, more : BOOLEAN]

ASSUME ServerLinkAssumption ==
  /\ None \notin {"lowercase hex", "uppercase hex", "rustls"}
  /\ \A t \in Given : t \in Texts /\ Parse(t) # None
  /\ Managed \in BOOLEAN

\* The canonical form, which leaves the default port of the second form out.
Display(a) ==
  [scheme   |-> IF a.mode = "pinned" THEN "sund" ELSE "sund+webpki",
   host     |-> a.host,
   port     |-> IF a.mode = "webpki" /\ a.port = 443 THEN None ELSE a.port,
   fragment |-> IF a.mode = "pinned" THEN "lowercase hex" ELSE None,
   more     |-> FALSE]

\* What becomes of an address that is read out, typed or sent on.
Edits(t) == {t, [t EXCEPT !.fragment = None], [t EXCEPT !.port = None], [t EXCEPT !.more = TRUE]}
            \cup {u \in {[t EXCEPT !.fragment = "uppercase hex"]} : t.fragment # None}

\* The app takes an address for the first time, or again after a refusal.
Pair(t) ==
  /\ address = None
  /\ address' = Parse(t)
  /\ UNCHANGED <<world, text, call, told, outbox>>

Snapshot ==
  /\ address # None
  /\ text' = Display(address)
  /\ UNCHANGED <<world, address, call, told, outbox>>

\* Without a snapshot there is nothing to come back to.
Restart ==
  /\ address' = IF text = None THEN None ELSE Parse(text)
  /\ call' = None
  /\ IF text = None THEN message' = "none" /\ honestly' = TRUE ELSE UNCHANGED outbox
  /\ UNCHANGED <<world, text, told>>

-----------------------------------------------------------------------------
(* Certificates.                                                           *)
Cert(of, by, name, good) == [of |-> of, by |-> by, name |-> name, good |-> good]
Root(k) == Cert(k, k, None, TRUE)

\* The server's: its authority's certificate comes last.
Chain(s) ==
  IF s.deep
  THEN <<Cert("server", "intermediate", given.host, s.good),
         Cert("intermediate", s.authority, None, TRUE), Root(s.authority)>>
  ELSE <<Cert("server", s.authority, given.host, s.good), Root(s.authority)>>

\* Somebody else's: under an authority of its own, with the server's certificates
\* behind or as they are, or under a public authority for another name.
PortalChains ==
  LET own == <<Cert("portal", "portal authority", given.host, TRUE), Root("portal authority")>> IN
  {own, own \o Chain(site), Chain(site),
   <<Cert("portal", "public authority", "portal", TRUE), Root("public authority")>>}

\* Whether the first certificate goes back to one of the authorities through good
\* ones of the others: its signer is in every set of keys that has the authorities'
\* and, with a key, those of the good certificates it signed.
ChainsTo(chain, authorities) ==
  LET others == {chain[i] : i \in 2..Len(chain)}
      Closed(keys) == \A o \in others : o.good /\ o.by \in keys => o.of \in keys IN
  /\ chain[1].good
  /\ \A keys \in SUBSET (authorities \cup {o.of : o \in others}) :
       authorities \subseteq keys /\ Closed(keys) => chain[1].by \in keys

\* The pinned key is that of any certificate presented, and then the only root.
Presents(chain, key) == \E c \in Range(chain) : c.of = key
VerifyServerCert_PinOnly(chain) == Presents(chain, address.pin)
VerifyServerCert_LeafPinned(chain) == chain[1].of = address.pin
VerifyServerCert(chain) ==
  /\ Presents(chain, address.pin)
  /\ ChainsTo(chain, {address.pin})

\* The platform's ordinary verification.
WebPki(chain) == chain[1].name = address.host /\ ChainsTo(chain, trusted)

\* The handshake is signed with the key of the first certificate.
HandshakeSigned(who, chain) == chain[1].of = who

Accepts(who, chain) ==
  /\ IF address.mode = "pinned" THEN VerifyServerCert(chain) ELSE WebPki(chain)
  /\ HandshakeSigned(who, chain)

-----------------------------------------------------------------------------
(* Failures, and what each layer makes of them.                            *)

\* How the HTTP library reports what happened: a certificate that was refused is
\* inside an I/O error.
Surfaces(what) ==
  CASE what = "certificate" -> {[kind |-> "io", inside |-> "rustls"]}
    [] what = "road" -> {[kind |-> k, inside |-> None] : k \in {"io", "timeout", "host not found"}}
    [] what = "redirect" -> {[kind |-> "too many redirects", inside |-> None]}

IsTlsFailure_BySource(e) == FALSE
IsTlsFailure(e) == e.inside = "rustls"

Classify(e) ==
  CASE e.kind = "io" /\ IsTlsFailure(e) -> "tls"
    [] e.kind \in {"io", "timeout", "host not found"} /\ ~IsTlsFailure(e) -> "network"
    [] OTHER -> "protocol"

\* An answer with a status, of which the app cares for these.
Statuses == {200, 401, 404, 503, 507}
CheckStatus(status) ==
  CASE status = 200 -> "ok"
    [] status = 401 -> "unauthorized"
    [] status = 404 -> "not found"
    [] status = 507 -> "quota"
    [] OTHER -> "status"

\* Management: what the app can tell the person.
ClientError(e) ==
  CASE e = "tls" -> "not the server you paired with"
    [] e = "network" -> "could not be reached"
    [] e \in {"protocol", "malformed"} -> "unexpected response"
    [] e = "quota" -> "refused"
    [] e = "status" -> "refused"
    [] OTHER -> e

\* Messages: what the outbox goes by.
ChannelError_AnyRefusal(e) == IF e \in {"not found", "unauthorized", "tls"} THEN "retired" ELSE "backend"
ChannelError(e) == IF e = "not found" THEN "retired" ELSE "backend"

-----------------------------------------------------------------------------
(* A call.  Each is stamped with the time and a nonce of its own.          *)
Stamped(plane) == [plane |-> plane, inTime |-> clock, carried |-> None]

AskServer ==
  /\ address # None /\ call = None
  /\ call' = Stamped("management")
  /\ UNCHANGED <<world, address, text, told, outbox>>

Drain ==
  /\ address # None /\ call = None
  /\ message = "waits"
  /\ call' = Stamped("message")
  /\ UNCHANGED <<world, address, text, told, outbox>>

\* The call ends with e, for a reason that history remembers.
Settled(e, by) ==
  IF call.plane = "management" THEN UNCHANGED outbox
  ELSE IF e = "ok" THEN message' = "sent" /\ honestly' = (by = "server")
  ELSE IF ChannelError(e) = "retired" THEN message' = "dropped" /\ honestly' = (by = "server")
  ELSE UNCHANGED outbox

Outcome(e) ==
  IF e = "ok" THEN "ok"
  ELSE IF call.plane = "management" THEN ClientError(e) ELSE ChannelError(e)

Ends(e, by, why) ==
  /\ told' = [plane |-> call.plane, by |-> by, why |-> why, says |-> Outcome(e)]
  /\ call' = None
  /\ Settled(e, by)
  /\ UNCHANGED <<world, address, text>>

Fails(what, by, why) == \E e \in Surfaces(what) : Ends(Classify(e), by, why)

\* Nobody answers.
NoRoad ==
  /\ call # None /\ call.carried = None
  /\ network = "none"
  /\ Fails("road", "nobody", "road")

\* Somebody else does, and sends pages of its own if it is taken for the server: none
\* of them is the reply that a call which went well has.
ReadPage(status) == IF status = 200 THEN "malformed" ELSE CheckStatus(status)

MeetPortal ==
  /\ call # None /\ call.carried = None
  /\ network = "portal"
  /\ \E chain \in PortalChains :
       IF Accepts("portal", chain)
       THEN \/ \E status \in Statuses : Ends(ReadPage(status), "portal", "answered")
            \/ Fails("redirect", "portal", "answered")
       ELSE Fails("certificate", "portal", "certificate")

\* The server does, and carries the request out if it is in time and, as messages do not
\* say whose they are, of a device that is not revoked; it is no replay, as every nonce
\* is new.  What there is to say of the request itself is up to the server.
Entitled == call.inTime /\ (call.plane = "message" \/ ~revoked)

Serve ==
  /\ call # None /\ call.carried = None
  /\ network = "open"
  /\ Accepts("server", Chain(site))
  /\ \E status \in IF Entitled THEN Statuses \ {401} ELSE {401} :
       call' = [call EXCEPT !.carried = status]
  /\ UNCHANGED <<world, address, text, told, outbox>>

NotTheServer ==
  /\ call # None /\ call.carried = None
  /\ network = "open"
  /\ ~Accepts("server", Chain(site))
  /\ Fails("certificate", "server", "certificate")

\* Its answer arrives, or does not.
Answered ==
  /\ call # None /\ call.carried # None
  /\ network = "open"
  /\ Ends(CheckStatus(call.carried), "server",
          IF revoked \/ ~call.inTime THEN "not accepted" ELSE "answered")

AnswerLost ==
  /\ call # None /\ call.carried # None
  /\ Fails("road", "nobody", "road")

-----------------------------------------------------------------------------
(* The world.                                                              *)
Sites == [authority : {"authority 1", "authority 2", "public authority"},
          deep : BOOLEAN, good : BOOLEAN]
Hosted == {s \in Sites : (s.authority = "public authority") = (given.fragment = None)}

Renewed ==
  /\ site' \in Hosted \ {site}
  /\ UNCHANGED <<given, network, trusted, clock, revoked, address, text, call, told, outbox>>

Moves ==
  /\ network' \in {"open", "none", "portal"} \ {network}
  /\ UNCHANGED <<given, site, trusted, clock, revoked, address, text, call, told, outbox>>

ClockSet ==
  /\ clock' = ~clock
  /\ UNCHANGED <<given, site, network, trusted, revoked, address, text, call, told, outbox>>

Revoked ==
  /\ ~revoked /\ revoked' = TRUE
  /\ UNCHANGED <<given, site, network, trusted, clock, address, text, call, told, outbox>>

Post ==
  /\ message = "none" /\ message' = "waits"
  /\ UNCHANGED <<world, address, text, call, told, honestly>>

Init ==
  /\ given \in Given
  /\ site \in Hosted
  /\ network = "open"
  /\ trusted \in {{"public authority"} \cup extra :
                   extra \in SUBSET (IF Managed THEN {"portal authority"} ELSE {})}
  /\ clock = TRUE /\ revoked = FALSE
  /\ address = None /\ text = None /\ call = None /\ told = None
  /\ message = "none" /\ honestly = TRUE

Next ==
  \/ \E t \in Edits(given) : Pair(t)
  \/ Snapshot \/ Restart
  \/ AskServer \/ Drain
  \/ NoRoad \/ MeetPortal \/ Serve \/ NotTheServer \/ Answered \/ AnswerLost
  \/ Renewed \/ Moves \/ ClockSet \/ Revoked \/ Post

\* The person pairs with the address as it was given and goes on asking; a call that
\* has begun ends; and not every answer is lost.
Spec ==
  /\ Init /\ [][Next]_vars
  /\ WF_vars(Pair(given))
  /\ SF_vars(AskServer)
  /\ SF_vars(NoRoad \/ MeetPortal \/ Serve \/ NotTheServer)
  /\ SF_vars(Answered)

-----------------------------------------------------------------------------
Says == {"not the server you paired with", "could not be reached", "unexpected response",
         "refused", "ok", "unauthorized", "not found", "retired", "backend"}

TypeOK ==
  /\ given \in Given
  /\ address # None => Parse(Display(address)) = address
  /\ text # None => text \in Texts /\ Parse(text) # None
  /\ site \in Hosted
  /\ call # None => call.plane \in {"management", "message"} /\ call.carried \in Statuses \cup {None}
  /\ told # None => told.says \in Says
  /\ message \in {"none", "waits", "sent", "dropped"}

\* "The mode must be stated, never inferred" (address.rs): whatever became of the
\* address on its way to the app or over restarts, the one in use is the one that was
\* given, and in its mode, and so is the one a restart would come back to.
AddressIsAsGiven ==
  /\ address # None => address = Parse(given)
  /\ text # None => Parse(text) = Parse(given)

\* "An intercepting network must be distinguishable from an absent one" (http.rs): a
\* person is told that this is not the server exactly when a certificate was refused,
\* whatever else had failed or was answered.
IdentityIsToldApart ==
  told # None /\ told.plane = "management" =>
    (told.says = "not the server you paired with") = (told.why = "certificate")

\* "No match is the MITM case" and "the leaf must chain to the pinned certificate as
\* the sole trust root" (agent.rs): nobody else is taken for the server, whatever it
\* presents along with its own, unless the platform trusts it for that very name.
OnlyTheServerAnswers ==
  told # None /\ told.why = "answered" /\ told.by = "portal" =>
    given.fragment = None /\ "portal authority" \in trusted

\* A message leaves the outbox on the server's word alone: whoever else answers, and
\* whatever the server has against the device or its clock, it waits.
NotLostOnTheRoad ==
  /\ message = "dropped" /\ ~honestly => given.fragment = None /\ "portal authority" \in trusted
  /\ message = "sent" => honestly

\* "Pinning the CA lets the server rotate its leaf without re-pairing every device"
\* (agent.rs): a server whose certificates are in order, and under the authority of the
\* address, is what the device goes on talking to, however they were renewed.
Fits(s) == s.good /\ (given.fragment = None \/ s.authority = Pin)

\* A device that goes on asking gets through in the end, if nothing stands in its way
\* for good, although answers are lost and it is restarted again and again.
Reconnects ==
  <>[](network = "open" /\ clock /\ ~revoked /\ Fits(site)) =>
    []<>(told # None /\ told.why = "answered")
=============================================================================
