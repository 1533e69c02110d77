----------------------------- MODULE Handshake -----------------------------
(***************************************************************************)
(* enclaveiroh's attestation handshake between a dialer and a server, over *)
(* one stream: hellos, claims and results, each phase dialer first; and    *)
(* the trust-on-first-use store of the server, which accepts a claim.      *)
(*                                                                         *)
(* Abstractions.  A claim carries what the checks tell apart: the role,    *)
(* the session (endpoints, ALPN and both nonces), the endpoint, the        *)
(* attestation key and the build (code identity, flags and version).  It   *)
(* is signed by the key it carries.  Both sides speak one version.  A      *)
(* connection is lost when one of its processes ends; a deadline that      *)
(* passes looks the same to the side it fails.                             *)
(***************************************************************************)
EXTENDS Integers, Sequences, FiniteSets, Functions

CONSTANTS
  Sessions,         \* connections
  AllowUnattested,  \* the sides that accept a peer without attestation
  Acceptable,       \* Acceptable[x]: the builds that the policy of side x allows
  Nobody            \* in place of what is not there

ASSUME NobodyAssumption == Nobody \notin {"mutual", "prove", "verify"}

VARIABLES
  side,   \* side[s][x]: where the side x of session s is
  wire,   \* wire[s][x]: frames that x has sent and its peer has not read
  lost,   \* sessions whose connection is gone
  pins,   \* the store of the server's process
  file,   \* the store's file
  pinned  \* history: endpoints and keys of claims the store let pass

handshakeVars == <<side, wire, lost, pins, file, pinned>>

Attests(m) == m \in {"mutual", "prove"}
Verifies(m) == m \in {"mutual", "verify"}

Sides == {"dial", "serve"}
Other(x) == IF x = "dial" THEN "serve" ELSE "dial"

\* exchange: in each phase the dialer sends, then receives, and the server
\* the other way round.
Phases == <<"hello", "claim", "result">>
Sends(x, n) == (n % 2 = 1) = (x = "dial")
Phase(n) == Phases[(n + 1) \div 2]
Done == 7

Begin(m) == [step |-> 1, mode |-> m, peer |-> Nobody, verdict |-> "none", claim |-> Nobody]
Closed == [Begin(Nobody) EXCEPT !.step = Done]

HandshakeInit ==
  /\ side = [s \in Sessions |-> [x \in Sides |-> Closed]]
  /\ wire = [s \in Sessions |-> [x \in Sides |-> <<>>]]
  /\ lost = {}
  /\ pins = [e \in {} |-> Nobody]
  /\ file = [e \in {} |-> Nobody]
  /\ pinned = {}

Returned(s, x) == side[s][x].step = Done
Over(s) == Returned(s, "dial") /\ Returned(s, "serve")

\* Variation: a side that rejects its peer returns without another frame.
AdvancesOrRejects(s, x, r) == side' = [side EXCEPT ![s][x] =
  [r EXCEPT !.step = IF r.verdict = "rejected" THEN Done ELSE @ + 1]]

\* What x knows after a step, and that it returns an error.
Advances(s, x, r) == side' = [side EXCEPT ![s][x] = [r EXCEPT !.step = @ + 1]]
Errs(s, x) == side' = [side EXCEPT ![s][x] = [@ EXCEPT !.step = Done, !.verdict = "error"]]

\* A connection is accepted, and both sides begin.
Connect(s, dialing, serving) ==
  /\ Over(s)
  /\ side' = [side EXCEPT ![s] = [x \in Sides |-> Begin(IF x = "dial" THEN dialing ELSE serving)]]
  /\ wire' = [wire EXCEPT ![s] = [x \in Sides |-> <<>>]]
  /\ lost' = lost \ {s}
  /\ UNCHANGED <<pins, file, pinned>>

Frames(s, x, claim) ==
  LET me == side[s][x]
  IN CASE Phase(me.step) = "hello"  -> <<[kind |-> "hello", mode |-> me.mode]>>
       [] Phase(me.step) = "claim"  -> IF Attests(me.mode) THEN <<[kind |-> "claim", claim |-> claim]>>
                                       ELSE <<>>
       [] Phase(me.step) = "result" -> <<[kind |-> "result", ok |-> me.verdict # "rejected"]>>

\* A lost connection ends the handshake, except while results are exchanged.
Send(s, x, claim) ==
  LET me == side[s][x]
  IN /\ ~Returned(s, x)
     /\ Sends(x, me.step)
     /\ \/ /\ s \notin lost
           /\ Advances(s, x, me)
           /\ wire' = [wire EXCEPT ![s][x] = @ \o Frames(s, x, claim)]
        \/ /\ s \in lost
           /\ IF Phase(me.step) = "result" THEN Advances(s, x, me) ELSE Errs(s, x)
           /\ UNCHANGED wire
     /\ UNCHANGED <<lost, pins, file, pinned>>

(* What a side makes of the peer's claim *)

\* Variation: a side that verifies waits for a claim, whatever the peer said.
ExpectsWhenVerifying(me) == Verifies(me.mode)

ExpectsClaim(me) == Verifies(me.mode) /\ Attests(me.peer)

\* verifyPeerClaim before the store is asked: signature and binding, policy.
Passes(s, x, f) ==
  /\ f.kind = "claim"
  /\ f.claim.session = s
  /\ f.claim.role = Other(x)
  /\ f.claim.build \in Acceptable[x]

Known(c) == c.endpoint \in DOMAIN pins
With(store, c) == [e \in DOMAIN store \cup {c.endpoint} |->
                     IF e = c.endpoint THEN c.key ELSE store[e]]

\* Variation: a key that changed replaces the one that is pinned.
PinLatest(c) ==
  /\ pins' = With(pins, c)
  /\ file' = With(pins, c)

\* Pin lets c pass: it is known with this key, or is recorded and saved.
Pin(c) ==
  \/ Known(c) /\ pins[c.endpoint] = c.key /\ UNCHANGED <<pins, file>>
  \/ ~Known(c) /\ pins' = With(pins, c) /\ file' = With(pins, c)

\* Pin refuses c: the key has changed, or the file could not be written, and
\* then the pin stays in memory.
Refuse(c) ==
  \/ Known(c) /\ pins[c.endpoint] # c.key /\ UNCHANGED <<pins, file>>
  \/ ~Known(c) /\ pins' = With(pins, c) /\ UNCHANGED file

Judge(s, x, f) ==
  LET me == side[s][x]
      accepts == Advances(s, x, [me EXCEPT !.verdict = "attested", !.claim = f.claim])
      rejects(why) == Advances(s, x, [me EXCEPT !.verdict = "rejected", !.claim = why])
  IN \/ ~Passes(s, x, f) /\ rejects(Nobody) /\ UNCHANGED <<pins, file, pinned>>
     \/ Passes(s, x, f) /\ x = "dial" /\ accepts /\ UNCHANGED <<pins, file, pinned>>
     \/ /\ Passes(s, x, f) /\ x = "serve"
        /\ \/ Pin(f.claim) /\ accepts
              /\ pinned' = pinned \cup {[endpoint |-> f.claim.endpoint, key |-> f.claim.key]}
           \/ Refuse(f.claim) /\ rejects(IF Known(f.claim) THEN f.claim ELSE Nobody)
              /\ UNCHANGED pinned

\* A verifier that expects no claim decides without reading; a prover does
\* not read either.
Pass(s, x) ==
  LET me == side[s][x]
  IN Advances(s, x, IF ~Verifies(me.mode) THEN me
                    ELSE [me EXCEPT !.verdict = IF x \in AllowUnattested THEN "unattested" ELSE "rejected"])

\* A frame is read for what the phase expects: a claim where a result is
\* expected passes for one.
Read(s, x, f) ==
  LET me == side[s][x]
  IN CASE Phase(me.step) = "hello" ->
            /\ IF f.kind = "hello" THEN Advances(s, x, [me EXCEPT !.peer = f.mode]) ELSE Errs(s, x)
            /\ UNCHANGED <<pins, file, pinned>>
       [] Phase(me.step) = "claim" -> Judge(s, x, f)
       [] Phase(me.step) = "result" -> Advances(s, x, me) /\ UNCHANGED <<pins, file, pinned>>

Receive(s, x) ==
  LET me == side[s][x]
      skips == Phase(me.step) = "claim" /\ ~ExpectsClaim(me)
      from == wire[s][Other(x)]
  IN /\ ~Returned(s, x)
     /\ ~Sends(x, me.step)
     /\ \/ skips /\ Pass(s, x) /\ UNCHANGED <<wire, pins, file, pinned>>
        \/ /\ ~skips /\ from # <<>>
           /\ Read(s, x, Head(from))
           /\ wire' = [wire EXCEPT ![s][Other(x)] = Tail(@)]
        \/ /\ ~skips /\ from = <<>>
           /\ s \in lost \/ Returned(s, Other(x))
           /\ IF Phase(me.step) = "result" THEN Advances(s, x, me) ELSE Errs(s, x)
           /\ UNCHANGED <<wire, pins, file, pinned>>
     /\ UNCHANGED lost

\* Variation: the restarted process starts with an empty store.
ServerRestartEmpty ==
  /\ side' = [s \in Sessions |-> [side[s] EXCEPT !["serve"] = Closed]]
  /\ wire' = [s \in Sessions |-> [x \in Sides |-> <<>>]]
  /\ lost' = lost \cup {s \in Sessions : ~Over(s)}
  /\ pins' = [e \in {} |-> Nobody]
  /\ UNCHANGED <<file, pinned>>

\* The server's process ends and starts again: it reads the store's file.
ServerRestart ==
  /\ side' = [s \in Sessions |-> [side[s] EXCEPT !["serve"] = Closed]]
  /\ wire' = [s \in Sessions |-> [x \in Sides |-> <<>>]]
  /\ lost' = lost \cup {s \in Sessions : ~Over(s)}
  /\ pins' = file
  /\ UNCHANGED <<file, pinned>>

=============================================================================
