------------------------------ MODULE Enclave ------------------------------
(***************************************************************************)
(* The enclave-iroh command: dialers whose endpoint and attestation keys   *)
(* come from one Mac's keychain attest themselves to a server that pins    *)
(* the first key of each endpoint.  Custody gives a process its keys,      *)
(* Handshake what it does with them; a process makes one connection.       *)
(***************************************************************************)
EXTENDS Custody, Handshake

CONSTANTS
  ServerModes,    \* the handshake modes the server may be run with
  Build,          \* Build[p]: the build of p's program
  ServerBuild,
  MaxRestarts     \* bound: how often the server is restarted

ASSUME SessionAssumption == Sessions = Processes

VARIABLES
  serverMode,  \* the server's handshake mode
  restarts     \* how often it was restarted

serverVars == <<serverMode, restarts>>
vars == <<custodyVars, handshakeVars, serverVars>>

\* buildClaim: the session stands for its endpoints, ALPN and nonces.
ClaimOf(s, x) ==
  IF x = "dial"
  THEN [session |-> s, role |-> x, endpoint |-> proc[s].seed, key |-> proc[s].attest, build |-> Build[s]]
  ELSE [session |-> s, role |-> x, endpoint |-> Nobody, key |-> Nobody, build |-> ServerBuild]

Init == CustodyInit /\ HandshakeInit /\ restarts = 0 /\ serverMode \in ServerModes

Prepare(p) == (CustodyStep(p) \/ \E m \in Modes[p] : Start(p, m)) /\ UNCHANGED <<handshakeVars, serverVars>>

Dial(p) ==
  /\ At(p, "up")
  /\ Connect(p, proc[p].mode, serverMode)
  /\ Goes(p, [proc[p] EXCEPT !.at = "dialing"])
  /\ UNCHANGED <<wrapping, signing, item, made, starts, identities, forgotten, serverVars>>

Shake(s, x) ==
  /\ Send(s, x, ClaimOf(s, x)) \/ Receive(s, x)
  /\ UNCHANGED <<custodyVars, serverVars>>

\* A process that ends takes its side of the handshake and the connection.
End(p) ==
  /\ Stop(p)
  /\ IF Over(p) THEN UNCHANGED handshakeVars
     ELSE /\ side' = [side EXCEPT ![p]["dial"] = Closed]
          /\ wire' = [wire EXCEPT ![p] = [x \in Sides |-> <<>>]]
          /\ lost' = lost \cup {p}
          /\ UNCHANGED <<pins, file, pinned>>
  /\ UNCHANGED serverVars

Forget == ForgetAttestationKey /\ UNCHANGED <<handshakeVars, serverVars>>

Restart ==
  /\ restarts < MaxRestarts
  /\ restarts' = restarts + 1
  /\ ServerRestart
  /\ UNCHANGED <<custodyVars, serverMode>>

Next ==
  \/ \E p \in Processes : Prepare(p) \/ Dial(p) \/ End(p)
  \/ \E p \in Processes, x \in Sides : Shake(p, x)
  \/ Forget
  \/ Restart

\* What a side can do, it does before its deadline.
Fairness == \A p \in Processes, x \in Sides : WF_vars(Shake(p, x))

Spec == Init /\ [][Next]_vars /\ Fairness

-----------------------------------------------------------------------------
(* Properties *)

\* Keys and seeds are never shared, and a side is where its phases are.
TypeOK ==
  /\ \A p \in Processes : At(p, "up") \/ At(p, "dialing") => proc[p].seed # None
  /\ \A p \in Processes : proc[p].attest # None => Signs(p)
  /\ \A s \in Sessions, x \in Sides :
       /\ side[s][x].step \in 1 .. Done
       /\ side[s][x].verdict \in {"none", "attested", "unattested", "rejected", "error"}
  /\ \A e \in DOMAIN file : e \in DOMAIN pins /\ pins[e] = file[e]

\* The two sides never wait for each other, whatever their modes: every
\* handshake ends, before its deadline ("reading would deadlock").
HandshakesEnd == \A s \in Sessions, x \in Sides : []<>Returned(s, x)

\* No pair of modes makes a handshake fail; only a connection that is lost
\* does (exchange, and what each side reads and skips).
OnlyLossFails == \A s \in Sessions, x \in Sides : side[s][x].verdict = "error" => s \in lost

\* A side that is told the peer's mode judges the peer by it: it takes the
\* peer for attested only on a claim made in this session by that process,
\* and has decided on the peer before it tells the result (runHandshake).
VerdictsFit == \A s \in Sessions, x \in Sides :
  LET me == side[s][x]
  IN /\ me.verdict = "attested" => Verifies(me.mode) /\ Attests(me.peer) /\ me.claim.role = Other(x)
     /\ me.verdict = "attested" /\ x = "serve" /\ ~Returned(s, "dial") =>
          me.claim.key = proc[s].attest /\ me.claim.endpoint = proc[s].seed
     /\ me.step \in 5 .. Done /\ Verifies(me.mode) /\ me.verdict = "none" => s \in lost

\* Each pair of modes comes to the verdicts it asks for, or the connection is lost.
ModesFit == OnlyLossFails /\ VerdictsFit

\* What the file holds is kept: from then on the endpoint passes with that
\* key only, over restarts of the server (KnownPeers: "every later claim from
\* the same endpoint must present the same key").
SavedKeyIsKept == [][
  /\ \A e \in DOMAIN file : e \in DOMAIN file' /\ file'[e] = file[e]
  /\ \A a \in pinned' \ pinned : a.endpoint \in DOMAIN file => file[a.endpoint] = a.key]_vars

\* A persistent endpoint is refused for a changed key only after its key was
\* deleted: neither crashes of the dialers, in the middle of making their
\* keys, nor processes that run side by side are taken for another peer.
HonestPeersAreKnown == \A s \in Sessions :
  side[s]["serve"].verdict = "rejected" /\ side[s]["serve"].claim # Nobody => forgotten

=============================================================================
