------------------------------ MODULE Custody ------------------------------
(***************************************************************************)
(* enclaveiroh's key custody on one Mac: processes that share a tag find   *)
(* or make the Enclave key that wraps the endpoint's seed, open or store   *)
(* the wrapped seed, and find or make the key that signs their claims.     *)
(* The keychain is all that a process leaves behind; each of its           *)
(* operations is a step, and a process may end between any two.            *)
(*                                                                         *)
(* Abstractions.  Keys and seeds are numbers, never made twice; what one   *)
(* key sealed, that key alone opens.  The Enclave does what it is asked;   *)
(* where it would not, the process ends.                                   *)
(***************************************************************************)
EXTENDS Integers, FiniteSets

CONSTANTS
  Processes,  \* programs on the Mac
  Ephemeral,  \* those that keep nothing in the keychain
  Modes,      \* Modes[p]: the handshake modes that p may be started with
  MaxStarts,  \* bound: how often processes are started
  None

ASSUME CustodyAssumption == Ephemeral \subseteq Processes

ASSUME NoneAssumption == None \notin Nat /\ None \notin [key : Nat, seed : Nat]

VARIABLES
  wrapping,   \* keychain: the wrapping keys under the tag
  signing,    \* keychain: the attestation keys under the tag
  item,       \* keychain: the wrapped seed and the key that sealed it, or None
  proc,       \* the processes' memory
  made,       \* how many keys and seeds were made
  starts,     \* how often a process was started
  identities, \* history: endpoint and attestation key of persistent processes
  forgotten   \* history: whether an attestation key was deleted

custodyVars == <<wrapping, signing, item, proc, made, starts, identities, forgotten>>

Off == [at |-> "off", mode |-> None, wrap |-> None, seed |-> None, attest |-> None]

CustodyInit ==
  /\ wrapping = {}
  /\ signing = {}
  /\ item = None
  /\ proc = [p \in Processes |-> Off]
  /\ made = 0
  /\ starts = 0
  /\ identities = {}
  /\ forgotten = FALSE

At(p, where) == proc[p].at = where
Goes(p, changes) == proc' = [proc EXCEPT ![p] = changes]
Signs(p) == proc[p].mode # "verify"

\* "Provision it once before fanning out": processes run side by side only
\* once one of them has come so far.
Provisioned == item # None /\ signing # {}
MayStart(p) ==
  \/ p \in Ephemeral
  \/ Provisioned
  \/ \A q \in Processes \ Ephemeral : At(q, "off")

Start(p, m) ==
  /\ At(p, "off")
  /\ MayStart(p)
  /\ starts < MaxStarts
  /\ starts' = starts + 1
  /\ Goes(p, [Off EXCEPT !.at = IF p \in Ephemeral THEN "fresh" ELSE "find", !.mode = m])
  /\ UNCHANGED <<wrapping, signing, item, made, identities, forgotten>>

\* An ephemeral process makes both keys and its seed, and stores none.
MakeFresh(p) ==
  /\ At(p, "fresh")
  /\ Goes(p, [proc[p] EXCEPT !.at = "up", !.wrap = made, !.seed = made + 1,
                             !.attest = IF Signs(p) THEN made + 2 ELSE None])
  /\ made' = made + 3
  /\ UNCHANGED <<wrapping, signing, item, starts, identities, forgotten>>

\* Variation: every start makes a wrapping key.
FindNoWrappingKey(p) ==
  /\ At(p, "find")
  /\ Goes(p, [proc[p] EXCEPT !.at = "generate"])
  /\ UNCHANGED <<wrapping, signing, item, made, starts, identities, forgotten>>

\* Any of the keys under the tag may be the one that is found.
FindWrappingKey(p) ==
  /\ At(p, "find")
  /\ \/ \E k \in wrapping : Goes(p, [proc[p] EXCEPT !.at = "load", !.wrap = k])
     \/ wrapping = {} /\ Goes(p, [proc[p] EXCEPT !.at = "generate"])
  /\ UNCHANGED <<wrapping, signing, item, made, starts, identities, forgotten>>

GenerateWrappingKey(p) ==
  /\ At(p, "generate")
  /\ wrapping' = wrapping \cup {made}
  /\ made' = made + 1
  /\ Goes(p, [proc[p] EXCEPT !.at = "load", !.wrap = made])
  /\ UNCHANGED <<signing, item, starts, identities, forgotten>>

\* The stored seed is opened, or the process fails; where none is stored a
\* fresh one is sealed.
LoadSeed(p) ==
  /\ At(p, "load")
  /\ \/ /\ item = None
        /\ Goes(p, [proc[p] EXCEPT !.at = "delete", !.seed = made])
        /\ made' = made + 1
     \/ /\ item # None
        /\ Goes(p, IF item.key = proc[p].wrap
                   THEN [proc[p] EXCEPT !.at = "sign", !.seed = item.seed]
                   ELSE [Off EXCEPT !.at = "failed"])
        /\ UNCHANGED made
  /\ UNCHANGED <<wrapping, signing, item, starts, identities, forgotten>>

\* storeSecret deletes what it finds, then adds, and fails on a duplicate.
DeleteSeed(p) ==
  /\ At(p, "delete")
  /\ item' = None
  /\ Goes(p, [proc[p] EXCEPT !.at = "add"])
  /\ UNCHANGED <<wrapping, signing, made, starts, identities, forgotten>>

AddSeed(p) ==
  /\ At(p, "add")
  /\ \/ /\ item = None
        /\ item' = [key |-> proc[p].wrap, seed |-> proc[p].seed]
        /\ Goes(p, [proc[p] EXCEPT !.at = "sign"])
     \/ /\ item # None
        /\ Goes(p, [Off EXCEPT !.at = "failed"])
        /\ UNCHANGED item
  /\ UNCHANGED <<wrapping, signing, made, starts, identities, forgotten>>

IsUp(p, k) ==
  /\ Goes(p, [proc[p] EXCEPT !.at = "up", !.attest = k])
  /\ identities' = identities \cup {[seed |-> proc[p].seed, attest |-> k]}

\* Variation: every run signs with a key of its own.
FindNoAttestationKey(p) ==
  /\ At(p, "sign")
  /\ IF Signs(p) THEN Goes(p, [proc[p] EXCEPT !.at = "certify"]) /\ UNCHANGED identities
                 ELSE IsUp(p, None)
  /\ UNCHANGED <<wrapping, signing, item, made, starts, forgotten>>

\* A process that only verifies needs no key to sign with.
FindAttestationKey(p) ==
  /\ At(p, "sign")
  /\ \/ ~Signs(p) /\ IsUp(p, None)
     \/ Signs(p) /\ \E k \in signing : IsUp(p, k)
     \/ /\ Signs(p) /\ signing = {}
        /\ Goes(p, [proc[p] EXCEPT !.at = "certify"])
        /\ UNCHANGED identities
  /\ UNCHANGED <<wrapping, signing, item, made, starts, forgotten>>

GenerateAttestationKey(p) ==
  /\ At(p, "certify")
  /\ signing' = signing \cup {made}
  /\ made' = made + 1
  /\ IsUp(p, made)
  /\ UNCHANGED <<wrapping, item, starts, forgotten>>

\* The process ends, at any point.
Stop(p) ==
  /\ ~At(p, "off")
  /\ Goes(p, Off)
  /\ UNCHANGED <<wrapping, signing, item, made, starts, identities, forgotten>>

\* The user deletes the attestation key while nothing runs.
ForgetAttestationKey ==
  /\ signing # {}
  /\ ~forgotten
  /\ \A p \in Processes : At(p, "off")
  /\ signing' = {}
  /\ forgotten' = TRUE
  /\ UNCHANGED <<wrapping, item, proc, made, starts, identities>>

CustodyStep(p) ==
  \/ MakeFresh(p) \/ FindWrappingKey(p) \/ GenerateWrappingKey(p) \/ LoadSeed(p)
  \/ DeleteSeed(p) \/ AddSeed(p) \/ FindAttestationKey(p) \/ GenerateAttestationKey(p)

-----------------------------------------------------------------------------
(* Properties *)

\* Every start under one tag ends up with the same endpoint, wherever earlier
\* ones were ended (SecretKey: "unwrapping the stored one thereafter").
OneIdentity == \A i, j \in identities : i.seed = j.seed

\* The key that a start finds under the tag opens the stored seed
\* (obtainSeed: the round trip is verified before the seed is stored).
NotLockedOut == item # None => wrapping = {item.key}

\* Until a key is deleted, a persistent endpoint signs with one key, which is
\* what a verifier pins (NewSigner: "a stable attestation identity").
OneAttestationKey == ~forgotten => \A i, j \in identities :
  i.attest # None /\ j.attest # None => i.attest = j.attest

\* Whatever starts were ended, side by side or in the middle of making a key,
\* a tag stands for one seed that opens and one attestation key.
KeysAreKept == OneIdentity /\ NotLockedOut /\ OneAttestationKey

=============================================================================
