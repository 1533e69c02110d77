---------------------------- MODULE EnclaveProofs ----------------------------
(***************************************************************************)
(* Proofs about Enclave: one seed and one attestation key under a tag,     *)
(* the verdicts of the handshake, that its sides never wait for each       *)
(* other, what the server's store keeps, and that it knows the honest      *)
(* again.                                                                  *)
(***************************************************************************)
EXTENDS Enclave, TLAPS

(* Custody: what holds between any two keychain operations                 *)

Places == {"off", "fresh", "find", "generate", "load", "delete", "add", "sign",
           "certify", "up", "dialing", "failed"}
InMode == (UNION {Modes[p] : p \in Processes}) \cup {None}
Numbers == Nat \cup {None}

Typed ==
  /\ made \in Nat
  /\ wrapping \subseteq Nat
  /\ signing \subseteq Nat
  /\ item \in [key : Nat, seed : Nat] \cup {None}
  /\ proc \in [Processes -> [at : Places, mode : InMode, wrap : Numbers, seed : Numbers, attest : Numbers]]

\* Keys and seeds that were made have smaller numbers than those to come.
Made ==
  /\ item # None => item.seed < made
  /\ \A k \in signing : k < made

\* The persistent processes run side by side only with all in the keychain.
Persistent == Processes \ Ephemeral
SideBySide == \A p, q \in Persistent : p # q /\ ~At(p, "off") /\ ~At(q, "off") => Provisioned

OneKeyEach ==
  /\ \A k, l \in wrapping : k = l
  /\ \A k, l \in signing : k = l
  /\ item # None => item.key \in wrapping

\* What a process has found out and still relies on.
Relies(p) ==
  /\ proc[p].at \in {"off", "fresh", "up", "dialing"} \/ p \in Persistent
  /\ At(p, "fresh") => p \in Ephemeral
  /\ At(p, "generate") => wrapping = {}
  /\ proc[p].at \in {"load", "delete", "add"} => proc[p].wrap \in wrapping
  /\ proc[p].at \in {"delete", "add"} => item = None /\ proc[p].seed \in Nat /\ proc[p].seed < made
  /\ proc[p].at \in {"sign", "certify"} => item # None /\ proc[p].seed = item.seed
  /\ At(p, "certify") => signing = {} /\ Signs(p)
  /\ proc[p].at \in {"up", "dialing"} => proc[p].seed \in Nat
  /\ proc[p].at \notin {"up", "dialing"} => proc[p].attest = None
  /\ proc[p].attest # None => Signs(p)

Identified == \A i \in identities :
  /\ item # None /\ i.seed = item.seed
  /\ ~forgotten /\ i.attest # None => i.attest \in signing

KInv == Typed /\ Made /\ SideBySide /\ OneKeyEach /\ (\A p \in Processes : Relies(p)) /\ Identified

-----------------------------------------------------------------------------
Memory == [at : Places, mode : InMode, wrap : Numbers, seed : Numbers, attest : Numbers]

LEMMA OffIsMemory == Off \in Memory /\ Off.at = "off" /\ Off.attest = None
BY DEF Off, Memory, Places, InMode, Numbers

LEMMA CustodyInitHolds == CustodyInit => KInv
<1> SUFFICES ASSUME CustodyInit PROVE KInv
  OBVIOUS
<1>1. Typed
  BY OffIsMemory DEF CustodyInit, Typed, Memory
<1>2. \A p \in Processes : Relies(p)
  BY OffIsMemory DEF CustodyInit, Relies, At
<1>3. Made /\ SideBySide /\ OneKeyEach /\ Identified
  BY OffIsMemory DEF CustodyInit, Made, SideBySide, OneKeyEach, Identified, At, Persistent
<1> QED
  BY <1>1, <1>2, <1>3 DEF KInv

\* What a running process does leaves the others what they rely on: either
\* the keychain stays as it is, or no other process uses it.
LEMMA OthersRely ==
  ASSUME KInv, NEW p \in Processes, NEW r \in Memory, Goes(p, r), ~At(p, "off"),
         made' \in Nat, made' >= made,
         \/ UNCHANGED <<wrapping, signing, item>>
         \/ p \in Persistent /\ ~Provisioned
  PROVE  /\ proc' \in [Processes -> Memory] /\ proc'[p] = r
         /\ \A q \in Processes \ {p} : proc'[q] = proc[q]
         /\ \A q \in Processes \ {p} : Relies(q)'
         /\ SideBySide'
<1> USE DEF KInv
<1>1. proc' \in [Processes -> Memory] /\ proc'[p] = r /\ \A q \in Processes \ {p} : proc'[q] = proc[q]
  BY DEF Goes, Typed, Memory
<1>2. ASSUME NEW q \in Processes \ {p} PROVE Relies(q)'
  <2>1. made \in Nat /\ proc'[q] = proc[q] /\ Relies(q)
    BY <1>1 DEF Typed
  <2>2. CASE UNCHANGED <<wrapping, signing, item>>
    <3>1. wrapping' = wrapping /\ signing' = signing /\ item' = item
      BY <2>2
    <3>2. proc[q].seed \in Nat /\ proc[q].seed < made => proc[q].seed < made'
      BY <2>1
    <3> QED
      BY <2>1, <3>1, <3>2 DEF Relies, At, Signs
  <2>3. CASE p \in Persistent /\ ~Provisioned
    <3>1. proc[q].at \in {"off", "fresh", "up", "dialing"}
      BY <2>1, <2>3 DEF SideBySide, Relies, At
    <3> QED
      BY <2>1, <3>1 DEF Relies, At, Signs
  <2> QED
    BY <2>2, <2>3
<1>3. SideBySide'
  <2> SUFFICES ASSUME NEW a \in Persistent, NEW b \in Persistent, a # b, ~At(a, "off")', ~At(b, "off")'
               PROVE  Provisioned'
    BY DEF SideBySide
  <2>1. Provisioned
    BY <1>1 DEF SideBySide, At, Persistent
  <2> QED
    BY <2>1 DEF Provisioned, Persistent
<1> QED
  BY <1>1, <1>2, <1>3

LEMMA StartHolds ==
  ASSUME KInv, NEW p \in Processes, NEW m \in Modes[p], Start(p, m)
  PROVE  KInv'
<1> USE DEF KInv
<1> DEFINE r == [Off EXCEPT !.at = IF p \in Ephemeral THEN "fresh" ELSE "find", !.mode = m]
<1>1. /\ proc' = [proc EXCEPT ![p] = r]
      /\ UNCHANGED <<wrapping, signing, item, made, identities, forgotten>>
  BY DEF Start, Goes
<1>2. r \in [at : Places, mode : InMode, wrap : Numbers, seed : Numbers, attest : Numbers]
      /\ r.attest = None /\ r.at = (IF p \in Ephemeral THEN "fresh" ELSE "find")
  BY DEF Off, Places, InMode, Numbers
<1> HIDE DEF r
<1>3. Typed' /\ Made' /\ OneKeyEach' /\ Identified'
  BY <1>1, <1>2 DEF Typed, Made, OneKeyEach, Identified
<1>4. proc'[p] = r /\ \A q \in Processes \ {p} : proc'[q] = proc[q]
  BY <1>1, <1>2 DEF Typed
<1>5. \A q \in Processes : Relies(q)'
  <2>1. \A q \in Processes \ {p} : Relies(q)'
    BY <1>1, <1>4 DEF Relies, At, Signs
  <2>2. Relies(p)'
    BY <1>1, <1>2, <1>4 DEF Relies, At, Signs, Persistent
  <2> QED
    BY <2>1, <2>2
<1>6. SideBySide'
  BY <1>1, <1>2, <1>4 DEF SideBySide, Start, MayStart, Provisioned, At, Persistent
<1> QED
  BY <1>3, <1>5, <1>6

\* A process that goes on without touching the keychain or the history.
LEMMA GoingOnHolds ==
  ASSUME KInv, NEW p \in Processes, NEW r \in Memory, Goes(p, r), ~At(p, "off"),
         UNCHANGED <<wrapping, signing, item, identities, forgotten>>,
         made' \in Nat, made' >= made, proc'[p] = r => Relies(p)'
  PROVE  KInv'
<1> USE DEF KInv
<1>1. /\ proc' \in [Processes -> Memory] /\ proc'[p] = r
      /\ \A q \in Processes \ {p} : Relies(q)'
      /\ SideBySide'
  BY OthersRely
<1>2. Typed' /\ OneKeyEach' /\ Identified'
  BY <1>1 DEF Typed, OneKeyEach, Identified, Memory
<1>3. Made'
  BY DEF Made, Typed
<1>4. \A q \in Processes : Relies(q)'
  BY <1>1
<1> QED
  BY <1>1, <1>2, <1>3, <1>4

LEMMA MakeFreshHolds ==
  ASSUME KInv, NEW p \in Processes, MakeFresh(p)
  PROVE  KInv'
<1> DEFINE r == [proc[p] EXCEPT !.at = "up", !.wrap = made, !.seed = made + 1,
                                !.attest = IF Signs(p) THEN made + 2 ELSE None]
<1>1. made \in Nat /\ proc[p] \in Memory /\ At(p, "fresh") /\ Relies(p)
  BY DEF KInv, Typed, Memory, MakeFresh
<1>2. r \in Memory /\ r.at = "up" /\ r.seed \in Nat /\ r.mode = proc[p].mode
      /\ (r.attest # None => Signs(p))
  <2>1. made + 1 \in Nat /\ made + 2 \in Nat
    BY <1>1
  <2> QED
    BY <1>1, <2>1 DEF Memory, Places, Numbers
<1>3. Goes(p, r) /\ made' = made + 3
  BY DEF MakeFresh
<1> HIDE DEF r
<1>4. proc'[p] = r => Relies(p)'
  BY <1>1, <1>2 DEF Relies, At, Signs
<1> QED
  BY <1>1, <1>2, <1>3, <1>4, GoingOnHolds DEF MakeFresh, At

LEMMA FindWrappingKeyHolds ==
  ASSUME KInv, NEW p \in Processes, FindWrappingKey(p)
  PROVE  KInv'
<1>1. made \in Nat /\ proc[p] \in Memory /\ At(p, "find") /\ Relies(p) /\ wrapping \subseteq Nat
  BY DEF KInv, Typed, Memory, FindWrappingKey
<1>2. /\ ~At(p, "off") /\ made' \in Nat /\ made' >= made
      /\ UNCHANGED <<wrapping, signing, item, identities, forgotten>>
  <2>1. UNCHANGED <<wrapping, signing, item, made, identities, forgotten>>
    BY DEF FindWrappingKey
  <2>2. ~At(p, "off")
    BY <1>1 DEF At
  <2> QED
    BY <1>1, <2>1, <2>2
<1>3. ASSUME NEW k \in wrapping, Goes(p, [proc[p] EXCEPT !.at = "load", !.wrap = k]) PROVE KInv'
  <2> DEFINE r == [proc[p] EXCEPT !.at = "load", !.wrap = k]
  <2>1. r \in Memory /\ r.at = "load" /\ r.wrap = k /\ r.mode = proc[p].mode /\ r.attest = proc[p].attest
    BY <1>1 DEF Memory, Places, Numbers
  <2>2. Goes(p, r)
    BY <1>3
  <2> HIDE DEF r
  <2>3. proc'[p] = r => Relies(p)'
    BY <1>1, <1>3, <2>1 DEF Relies, At, Signs, FindWrappingKey
  <2> QED
    BY <1>2, <2>1, <2>2, <2>3, GoingOnHolds
<1>4. ASSUME wrapping = {}, Goes(p, [proc[p] EXCEPT !.at = "generate"]) PROVE KInv'
  <2> DEFINE r == [proc[p] EXCEPT !.at = "generate"]
  <2>1. r \in Memory /\ r.at = "generate" /\ r.mode = proc[p].mode /\ r.attest = proc[p].attest
    BY <1>1 DEF Memory, Places, Numbers
  <2>2. Goes(p, r)
    BY <1>4
  <2> HIDE DEF r
  <2>3. proc'[p] = r => Relies(p)'
    BY <1>1, <1>4, <2>1 DEF Relies, At, Signs, FindWrappingKey
  <2> QED
    BY <1>2, <2>1, <2>2, <2>3, GoingOnHolds
<1> QED
  BY <1>3, <1>4 DEF FindWrappingKey

\* A wrapping key is made only where there is none, by the one process that
\* runs, since nothing is sealed yet.
LEMMA GenerateWrappingKeyHolds ==
  ASSUME KInv, NEW p \in Processes, GenerateWrappingKey(p)
  PROVE  KInv'
<1> DEFINE r == [proc[p] EXCEPT !.at = "load", !.wrap = made]
<1>1. made \in Nat /\ proc[p] \in Memory /\ At(p, "generate") /\ Relies(p)
  BY DEF KInv, Typed, Memory, GenerateWrappingKey
<1>2. /\ wrapping = {} /\ p \in Persistent /\ ~At(p, "off")
      /\ proc[p].attest = None
  BY <1>1 DEF Relies, At
<1>3. item = None /\ ~Provisioned
  BY <1>2 DEF KInv, OneKeyEach, Provisioned
<1>4. r \in Memory /\ r.at = "load" /\ r.wrap = made /\ r.attest = None
  BY <1>1, <1>2 DEF Memory, Places, Numbers
<1>5. /\ Goes(p, r) /\ wrapping' = {made} /\ made' = made + 1
      /\ UNCHANGED <<signing, item, identities, forgotten>>
  BY <1>2 DEF GenerateWrappingKey
<1> HIDE DEF r
<1>6. made' \in Nat /\ made' >= made
  BY <1>1, <1>5
<1>7. /\ proc' \in [Processes -> Memory] /\ proc'[p] = r
      /\ \A q \in Processes \ {p} : Relies(q)'
      /\ SideBySide'
  BY <1>2, <1>3, <1>4, <1>5, <1>6, OthersRely
<1>8. Relies(p)'
  BY <1>2, <1>4, <1>5, <1>7 DEF Relies, At
<1>9. Typed'
  BY <1>1, <1>5, <1>6, <1>7 DEF KInv, Typed, Memory
<1>10. Made'
  <2>1. \A k \in signing : k \in Nat /\ k < made
    BY DEF KInv, Typed, Made
  <2>2. \A k \in signing : k < made + 1
    BY <1>1, <2>1
  <2> QED
    BY <1>3, <1>5, <2>2 DEF Made
<1>11. OneKeyEach' /\ Identified'
  BY <1>3, <1>5 DEF KInv, OneKeyEach, Identified
<1> QED
  BY <1>7, <1>8, <1>9, <1>10, <1>11 DEF KInv

\* The key that a start finds is the one that sealed the seed.
LEMMA LoadSeedHolds ==
  ASSUME KInv, NEW p \in Processes, LoadSeed(p)
  PROVE  KInv'
<1>1. /\ made \in Nat /\ proc[p] \in Memory /\ At(p, "load") /\ Relies(p)
      /\ item \in [key : Nat, seed : Nat] \cup {None} /\ (item # None => item.seed < made)
  BY DEF KInv, Typed, Made, Memory, LoadSeed
<1>2. ~At(p, "off") /\ p \in Persistent /\ proc[p].wrap \in wrapping /\ proc[p].attest = None
  BY <1>1 DEF Relies, At
<1>3. UNCHANGED <<wrapping, signing, item, identities, forgotten>>
  BY DEF LoadSeed
<1>4. ASSUME item = None, Goes(p, [proc[p] EXCEPT !.at = "delete", !.seed = made]), made' = made + 1
      PROVE  KInv'
  <2> DEFINE r == [proc[p] EXCEPT !.at = "delete", !.seed = made]
  <2>1. r \in Memory /\ r.at = "delete" /\ r.seed = made /\ r.wrap = proc[p].wrap /\ r.attest = None
    BY <1>1, <1>2 DEF Memory, Places, Numbers
  <2>2. Goes(p, r)
    BY <1>4
  <2> HIDE DEF r
  <2>3. made' \in Nat /\ made' >= made /\ made < made'
    BY <1>1, <1>4
  <2>4. proc'[p] = r => Relies(p)'
    BY <1>1, <1>2, <1>3, <1>4, <2>1, <2>3 DEF Relies, At
  <2> QED
    BY <1>2, <1>3, <2>1, <2>2, <2>3, <2>4, GoingOnHolds
<1>5. ASSUME item # None, made' = made,
             Goes(p, IF item.key = proc[p].wrap
                     THEN [proc[p] EXCEPT !.at = "sign", !.seed = item.seed]
                     ELSE [Off EXCEPT !.at = "failed"])
      PROVE  KInv'
  <2> DEFINE r == [proc[p] EXCEPT !.at = "sign", !.seed = item.seed]
  <2>1. item.key = proc[p].wrap
    BY <1>2, <1>5 DEF KInv, OneKeyEach
  <2>2. r \in Memory /\ r.at = "sign" /\ r.seed = item.seed /\ r.attest = None
    BY <1>1, <1>2, <1>5 DEF Memory, Places, Numbers
  <2>3. Goes(p, r)
    BY <1>5, <2>1
  <2> HIDE DEF r
  <2>4. made' \in Nat /\ made' >= made
    BY <1>1, <1>5
  <2>5. proc'[p] = r => Relies(p)'
    BY <1>2, <1>3, <1>5, <2>2 DEF Relies, At
  <2> QED
    BY <1>2, <1>3, <2>2, <2>3, <2>4, <2>5, GoingOnHolds
<1> QED
  BY <1>4, <1>5 DEF LoadSeed

LEMMA DeleteSeedHolds ==
  ASSUME KInv, NEW p \in Processes, DeleteSeed(p)
  PROVE  KInv'
<1> DEFINE r == [proc[p] EXCEPT !.at = "add"]
<1>1. made \in Nat /\ proc[p] \in Memory /\ At(p, "delete") /\ Relies(p)
  BY DEF KInv, Typed, Memory, DeleteSeed
<1>2. r \in Memory /\ r.at = "add" /\ r.seed = proc[p].seed /\ r.wrap = proc[p].wrap
      /\ r.attest = proc[p].attest /\ r.mode = proc[p].mode
  BY <1>1 DEF Memory, Places, Numbers
<1>3. Goes(p, r) /\ item' = None /\ UNCHANGED <<wrapping, signing, made, identities, forgotten>>
  BY DEF DeleteSeed
<1> HIDE DEF r
<1>4. item = None /\ ~At(p, "off")
  BY <1>1 DEF Relies, At
<1>5. made' \in Nat /\ made' >= made
  BY <1>1, <1>3
<1>6. proc'[p] = r => Relies(p)'
  BY <1>1, <1>2, <1>3 DEF Relies, At, Signs
<1> QED
  BY <1>2, <1>3, <1>4, <1>5, <1>6, GoingOnHolds

\* A seed is stored where none is, by the one process that runs.
LEMMA AddSeedHolds ==
  ASSUME KInv, NEW p \in Processes, AddSeed(p)
  PROVE  KInv'
<1> DEFINE r == [proc[p] EXCEPT !.at = "sign"]
<1>1. made \in Nat /\ proc[p] \in Memory /\ At(p, "add") /\ Relies(p) /\ wrapping \subseteq Nat
  BY DEF KInv, Typed, Memory, AddSeed
<1>2. /\ item = None /\ ~Provisioned /\ p \in Persistent /\ ~At(p, "off")
      /\ proc[p].wrap \in wrapping /\ proc[p].seed \in Nat /\ proc[p].seed < made
      /\ proc[p].attest = None
  BY <1>1 DEF Relies, At, Provisioned
<1>3. r \in Memory /\ r.at = "sign" /\ r.seed = proc[p].seed /\ r.attest = None
  BY <1>1, <1>2 DEF Memory, Places, Numbers
<1>4. /\ Goes(p, r) /\ item' = [key |-> proc[p].wrap, seed |-> proc[p].seed]
      /\ UNCHANGED <<wrapping, signing, made, identities, forgotten>>
  BY <1>2 DEF AddSeed
<1> HIDE DEF r
<1>5. made' \in Nat /\ made' >= made
  BY <1>1, <1>4
<1>6. /\ proc' \in [Processes -> Memory] /\ proc'[p] = r
      /\ \A q \in Processes \ {p} : Relies(q)'
      /\ SideBySide'
  BY <1>2, <1>3, <1>4, <1>5, OthersRely
<1>7. item' \in [key : Nat, seed : Nat] /\ item'.key \in wrapping /\ item'.seed = proc[p].seed
  BY <1>1, <1>2, <1>4
<1>8. item' # None
  BY <1>7, NoneAssumption
<1>9. Relies(p)'
  BY <1>2, <1>3, <1>6, <1>7, <1>8 DEF Relies, At
<1>10. Typed'
  BY <1>4, <1>6, <1>7 DEF KInv, Typed, Memory
<1>11. Made' /\ OneKeyEach' /\ Identified'
  BY <1>2, <1>4, <1>7, <1>8 DEF KInv, Made, OneKeyEach, Identified
<1> QED
  BY <1>6, <1>9, <1>10, <1>11 DEF KInv

\* A process that is up has the seed under the tag and a key under the tag.
LEMMA IsUpHolds ==
  ASSUME KInv, NEW p \in Persistent, NEW k \in Numbers, IsUp(p, k),
         proc[p].at \in {"sign", "certify"}, k # None => Signs(p),
         made' \in Nat, made' >= made, signing \subseteq signing', k # None => k \in signing',
         UNCHANGED <<wrapping, item, forgotten>>,
         \/ UNCHANGED signing
         \/ ~Provisioned /\ signing' \subseteq Nat
             /\ (\A j, l \in signing' : j = l) /\ \A j \in signing' : j < made'
  PROVE  KInv'
<1> DEFINE r == [proc[p] EXCEPT !.at = "up", !.attest = k]
<1>1. p \in Processes /\ proc[p] \in Memory /\ ~At(p, "off") /\ Relies(p)
  BY DEF KInv, Typed, Memory, Persistent, At
<1>2. item # None /\ proc[p].seed = item.seed /\ item.seed \in Nat
  BY <1>1 DEF Relies, KInv, Typed
<1>3. r \in Memory /\ r.at = "up" /\ r.seed = item.seed /\ r.attest = k /\ r.mode = proc[p].mode
  BY <1>1, <1>2 DEF Memory, Places, Numbers
<1>4. Goes(p, r) /\ identities' = identities \cup {[seed |-> item.seed, attest |-> k]}
  BY <1>2 DEF IsUp
<1> HIDE DEF r
<1>5. /\ proc' \in [Processes -> Memory] /\ proc'[p] = r
      /\ \A q \in Processes \ {p} : Relies(q)'
      /\ SideBySide'
  BY <1>1, <1>3, <1>4, OthersRely
<1>6. Relies(p)'
  BY <1>2, <1>3, <1>5 DEF Relies, At, Signs
<1>7. Typed'
  BY <1>5 DEF KInv, Typed, Memory
<1>8. Made'
  <2>1. made \in Nat /\ made' \in Nat /\ item.seed < made
    BY <1>2 DEF KInv, Typed, Made
  <2>2. \A j \in signing : j \in Nat /\ j < made'
    BY <2>1 DEF KInv, Typed, Made
  <2> QED
    BY <1>2, <2>1, <2>2 DEF Made
<1>9. OneKeyEach'
  BY DEF KInv, OneKeyEach
<1>10. Identified'
  BY <1>2, <1>4 DEF KInv, Identified
<1> QED
  BY <1>5, <1>6, <1>7, <1>8, <1>9, <1>10 DEF KInv

LEMMA FindAttestationKeyHolds ==
  ASSUME KInv, NEW p \in Processes, FindAttestationKey(p)
  PROVE  KInv'
<1>1. /\ made \in Nat /\ proc[p] \in Memory /\ At(p, "sign") /\ Relies(p)
      /\ signing \subseteq Nat
  BY DEF KInv, Typed, Memory, FindAttestationKey
<1>2. /\ p \in Persistent /\ ~At(p, "off") /\ item # None /\ proc[p].seed = item.seed
      /\ proc[p].at \in {"sign", "certify"} /\ proc[p].attest = None
  BY <1>1 DEF Relies, At
<1>3. UNCHANGED <<wrapping, signing, item, made, forgotten>>
  BY DEF FindAttestationKey
<1>4. made' \in Nat /\ made' >= made
  BY <1>1, <1>3
<1>5. ASSUME NEW k \in Numbers, IsUp(p, k), k # None => Signs(p) /\ k \in signing PROVE KInv'
  <2>1. signing \subseteq signing' /\ (k # None => k \in signing')
    BY <1>3, <1>5
  <2> QED
    BY <1>2, <1>3, <1>4, <1>5, <2>1, IsUpHolds
<1>6. ASSUME Signs(p), signing = {}, Goes(p, [proc[p] EXCEPT !.at = "certify"]), UNCHANGED identities
      PROVE  KInv'
  <2> DEFINE r == [proc[p] EXCEPT !.at = "certify"]
  <2>1. r \in Memory /\ r.at = "certify" /\ r.seed = proc[p].seed /\ r.attest = None
        /\ r.mode = proc[p].mode
    BY <1>1, <1>2 DEF Memory, Places, Numbers
  <2>2. Goes(p, r)
    BY <1>6
  <2> HIDE DEF r
  <2>3. proc'[p] = r => Relies(p)'
    BY <1>2, <1>3, <1>6, <2>1 DEF Relies, At, Signs
  <2> QED
    BY <1>2, <1>3, <1>4, <1>6, <2>1, <2>2, <2>3, GoingOnHolds
<1>7. None \in Numbers /\ signing \subseteq Numbers
  BY <1>1 DEF Numbers
<1>8. \/ IsUp(p, None)
      \/ Signs(p) /\ \E k \in signing : IsUp(p, k)
      \/ /\ Signs(p) /\ signing = {}
         /\ Goes(p, [proc[p] EXCEPT !.at = "certify"])
         /\ UNCHANGED identities
  BY DEF FindAttestationKey
<1> QED
  BY <1>5, <1>6, <1>7, <1>8

\* A key to sign with is made by the one process that runs, before it is
\* provisioned.
LEMMA GenerateAttestationKeyHolds ==
  ASSUME KInv, NEW p \in Processes, GenerateAttestationKey(p)
  PROVE  KInv'
<1>1. made \in Nat /\ At(p, "certify") /\ Relies(p)
  BY DEF KInv, Typed, GenerateAttestationKey
<1>2. signing = {} /\ Signs(p) /\ p \in Persistent /\ ~Provisioned
  BY <1>1 DEF Relies, At, Provisioned
<1>3. signing' = {made} /\ made' = made + 1 /\ UNCHANGED <<wrapping, item, forgotten>>
  BY <1>2 DEF GenerateAttestationKey
<1>4. IsUp(p, made)
  BY DEF GenerateAttestationKey
<1>5. /\ made \in Numbers /\ proc[p].at \in {"sign", "certify"}
      /\ made' \in Nat /\ made' >= made /\ made < made'
  BY <1>1, <1>3 DEF Numbers, At
<1>6. /\ signing \subseteq signing' /\ made \in signing' /\ signing' \subseteq Nat
      /\ (\A j, l \in signing' : j = l) /\ \A j \in signing' : j < made'
  BY <1>1, <1>2, <1>3, <1>5
<1> QED
  BY <1>2, <1>3, <1>4, <1>5, <1>6, IsUpHolds

LEMMA StopHolds ==
  ASSUME KInv, NEW p \in Processes, Stop(p)
  PROVE  KInv'
<1>1. /\ Goes(p, Off) /\ ~At(p, "off")
      /\ UNCHANGED <<wrapping, signing, item, made, identities, forgotten>>
  BY DEF Stop
<1>2. made' \in Nat /\ made' >= made
  BY <1>1 DEF KInv, Typed
<1>3. proc'[p] = Off => Relies(p)'
  BY OffIsMemory DEF Relies, At
<1> QED
  BY <1>1, <1>2, <1>3, OffIsMemory, GoingOnHolds

LEMMA DialHolds ==
  ASSUME KInv, NEW p \in Processes, At(p, "up"), Goes(p, [proc[p] EXCEPT !.at = "dialing"]),
         UNCHANGED <<wrapping, signing, item, made, identities, forgotten>>
  PROVE  KInv'
<1> DEFINE r == [proc[p] EXCEPT !.at = "dialing"]
<1>1. made \in Nat /\ proc[p] \in Memory /\ Relies(p) /\ ~At(p, "off")
  BY DEF KInv, Typed, Memory, At
<1>2. /\ r \in Memory /\ r.at = "dialing" /\ r.seed = proc[p].seed
      /\ r.attest = proc[p].attest /\ r.mode = proc[p].mode
  BY <1>1 DEF Memory, Places, Numbers
<1>3. Goes(p, r)
  OBVIOUS
<1> HIDE DEF r
<1>4. made' \in Nat /\ made' >= made
  BY <1>1
<1>5. proc'[p] = r => Relies(p)'
  BY <1>1, <1>2 DEF Relies, At, Signs
<1> QED
  BY <1>1, <1>2, <1>3, <1>4, <1>5, GoingOnHolds

\* While nothing runs nobody relies on the key that is deleted.
LEMMA ForgetHolds == KInv /\ ForgetAttestationKey => KInv'
<1> SUFFICES ASSUME KInv, ForgetAttestationKey PROVE KInv'
  OBVIOUS
<1>1. /\ \A p \in Processes : At(p, "off")
      /\ signing' = {} /\ forgotten' /\ UNCHANGED <<wrapping, item, proc, made, identities>>
  BY DEF ForgetAttestationKey
<1>2. \A p \in Processes : Relies(p)'
  BY <1>1 DEF KInv, Relies, At, Signs
<1>3. Typed' /\ Made' /\ OneKeyEach' /\ Identified'
  BY <1>1 DEF KInv, Typed, Made, OneKeyEach, Identified
<1>4. SideBySide'
  BY <1>1 DEF SideBySide, Persistent, At
<1> QED
  BY <1>2, <1>3, <1>4 DEF KInv

LEMMA KeychainStutter ==
  KInv /\ UNCHANGED <<wrapping, signing, item, proc, made, identities, forgotten>> => KInv'
BY DEF KInv, Typed, Made, SideBySide, OneKeyEach, Relies, Identified, At, Signs, Provisioned

LEMMA CustodyStepHolds ==
  ASSUME KInv, NEW p \in Processes, CustodyStep(p)
  PROVE  KInv'
BY MakeFreshHolds, FindWrappingKeyHolds, GenerateWrappingKeyHolds, LoadSeedHolds, DeleteSeedHolds,
   AddSeedHolds, FindAttestationKeyHolds, GenerateAttestationKeyHolds DEF CustodyStep

LEMMA KeysNext == KInv /\ [Next]_vars => KInv'
<1> SUFFICES ASSUME KInv, [Next]_vars PROVE KInv'
  OBVIOUS
<1>1. ASSUME NEW p \in Processes, Prepare(p) PROVE KInv'
  BY <1>1, CustodyStepHolds, StartHolds DEF Prepare
<1>2. ASSUME NEW p \in Processes, Dial(p) PROVE KInv'
  BY <1>2, DialHolds DEF Dial
<1>3. ASSUME NEW p \in Processes, End(p) PROVE KInv'
  BY <1>3, StopHolds DEF End
<1>4. CASE Forget
  BY <1>4, ForgetHolds DEF Forget
<1>5. CASE UNCHANGED custodyVars
  BY <1>5, KeychainStutter DEF custodyVars
<1> QED
  BY <1>1, <1>2, <1>3, <1>4, <1>5 DEF Next, Shake, Restart, vars

(* A tag has one item under one wrapping key, and one attestation key, and *)
(* a process relies on nothing that another may undo (SecretKey,           *)
(* NewSigner).                                                             *)
THEOREM KeychainInductive == Spec => []KInv
<1>1. Init => KInv
  BY CustodyInitHolds DEF Init
<1> QED
  BY <1>1, KeysNext, PTL DEF Spec

\* For any number of processes, wherever their starts are ended, side by side
\* or between two keychain operations, a tag stands for one seed that opens
\* and, until a key is deleted, one attestation key (obtainSeed, NewSigner).
THEOREM KeysKept == Spec => []KeysAreKept
<1>1. KInv => KeysAreKept
  BY DEF KInv, Typed, OneKeyEach, Identified, KeysAreKept, OneIdentity, NotLockedOut, OneAttestationKey
<1> QED
  BY <1>1, KeychainInductive, PTL

-----------------------------------------------------------------------------
(* The handshake: who sends what at which step                             *)

LEMMA Schedule ==
  /\ \A n \in 1 .. 6 :
       Phase(n) = IF n \in {1, 2} THEN "hello" ELSE IF n \in {3, 4} THEN "claim" ELSE "result"
  /\ \A n \in 1 .. 6 : Sends("dial", n) <=> n \in {1, 3, 5}
  /\ \A n \in 1 .. 6 : Sends("serve", n) <=> n \in {2, 4, 6}
<1>1. \A n \in 1 .. 6 : n \in {1, 2, 3, 4, 5, 6}
  OBVIOUS
<1>2. /\ Phase(1) = "hello" /\ Phase(2) = "hello" /\ Phase(3) = "claim" /\ Phase(4) = "claim"
      /\ Phase(5) = "result" /\ Phase(6) = "result"
  BY DEF Phase, Phases
<1>3. /\ 1 % 2 = 1 /\ 2 % 2 = 0 /\ 3 % 2 = 1 /\ 4 % 2 = 0 /\ 5 % 2 = 1 /\ 6 % 2 = 0
  OBVIOUS
<1> QED
  BY <1>1, <1>2, <1>3 DEF Sends

(* What holds of a session between any two steps.  A side x sends its      *)
(* hello at its step First(x), and its peer reads it at its own step       *)
(* First(x); a claim follows two steps later.                              *)

HModes == InMode \cup ServerModes \cup {Nobody}
Builds == {Build[p] : p \in Processes} \cup {ServerBuild}
Claims == [session : Sessions, role : Sides, endpoint : Numbers \cup {Nobody},
           key : Numbers \cup {Nobody}, build : Builds]
Verdicts == {"none", "attested", "unattested", "rejected", "error"}
Knowledge == [step : 1 .. Done, mode : HModes, peer : HModes, verdict : Verdicts, claim : Claims \cup {Nobody}]
FrameSet ==
  [kind : {"hello"}, mode : HModes] \cup [kind : {"claim"}, claim : Claims]
    \cup [kind : {"result"}, ok : BOOLEAN]

HTyped ==
  /\ serverMode \in ServerModes
  /\ side \in [Sessions -> [Sides -> Knowledge]]
  /\ wire \in [Sessions -> [Sides -> Seq(FrameSet)]]

First(x) == IF x = "dial" THEN 1 ELSE 2

\* What x makes of its peer, from what it has read.
Judgment(s, x) ==
  LET me == side[s][x]
      read == First(Other(x)) + 2
  IN /\ me.step <= read => me.verdict = "none" /\ me.claim = Nobody
     /\ me.step > read /\ Verifies(me.mode) => me.verdict # "none"
     /\ me.verdict = "attested" => Verifies(me.mode) /\ Attests(me.peer) /\ me.claim.role = Other(x)
     /\ me.verdict = "error" => s \in lost

\* The process stays as it is while its side of the handshake goes on.
Live(s) == s \notin lost /\ ~Over(s)
Dials(s) == Live(s) \/ ~Returned(s, "dial") => At(s, "dialing") /\ side[s]["dial"].mode = proc[s].mode
Told(s) == side[s]["serve"].verdict = "attested" /\ ~Returned(s, "dial") =>
  side[s]["serve"].claim.key = proc[s].attest /\ side[s]["serve"].claim.endpoint = proc[s].seed

\* What x has sent and its peer is still to read, and in which order.
HelloPending(s, x) == side[s][x].step > First(x) /\ side[s][Other(x)].step <= First(x)
ClaimPending(s, x) ==
  Attests(side[s][x].mode) /\ side[s][x].step > First(x) + 2 /\ side[s][Other(x)].step <= First(x) + 2
Hellos(s, x) == IF HelloPending(s, x) THEN 1 ELSE 0

InOrder(s, x) ==
  LET w == wire[s][x]
  IN /\ side[s][x].step <= First(x) => side[s][Other(x)].step <= First(x)
     /\ side[s][Other(x)].step > First(x) => side[s][Other(x)].peer = side[s][x].mode
     /\ HelloPending(s, x) => Len(w) >= 1 /\ w[1].kind = "hello" /\ w[1].mode = side[s][x].mode
     /\ ClaimPending(s, x) =>
          /\ Len(w) >= Hellos(s, x) + 1
          /\ w[Hellos(s, x) + 1].kind = "claim" /\ w[Hellos(s, x) + 1].claim = ClaimOf(s, x)
     /\ side[s][x].step <= First(x) + 2 => Len(w) = Hellos(s, x)

SessionOK(s) ==
  /\ \A x \in Sides : Judgment(s, x)
  /\ Dials(s)
  /\ Told(s)
  /\ s \in lost => \A x \in Sides : wire[s][x] = <<>>
  /\ Live(s) => \A x \in Sides : InOrder(s, x)

HInv == HTyped /\ \A s \in Sessions : SessionOK(s)

-----------------------------------------------------------------------------
LEMMA Sent ==
  ASSUME NEW S, NEW w \in Seq(S), NEW f \in S
  PROVE  /\ w \o <<f>> \in Seq(S) /\ Len(w \o <<f>>) = Len(w) + 1
         /\ \A i \in 1 .. Len(w) : (w \o <<f>>)[i] = w[i]
         /\ (w \o <<f>>)[Len(w) + 1] = f
OBVIOUS

LEMMA SentNothing ==
  ASSUME NEW S, NEW w \in Seq(S)
  PROVE  w \o <<>> = w
OBVIOUS

LEMMA Taken ==
  ASSUME NEW S, NEW w \in Seq(S), w # <<>>
  PROVE  /\ Tail(w) \in Seq(S) /\ Len(Tail(w)) = Len(w) - 1 /\ Len(w) >= 1
         /\ \A i \in 1 .. Len(w) - 1 : Tail(w)[i] = w[i + 1]
         /\ Head(w) = w[1] /\ Head(w) \in S
OBVIOUS

LEMMA Peers ==
  /\ Sides = {"dial", "serve"} /\ Other("dial") = "serve" /\ Other("serve") = "dial"
  /\ First("dial") = 1 /\ First("serve") = 2
BY DEF Sides, Other, First

LEMMA ClosedIsKnowledge ==
  /\ Closed \in Knowledge /\ Closed.step = Done /\ Closed.mode = Nobody
  /\ Closed.verdict = "none" /\ Closed.claim = Nobody
  /\ ~Verifies(Nobody)
BY NobodyAssumption DEF Closed, Begin, Knowledge, HModes, Verdicts, Done, Verifies

LEMMA BeginIsKnowledge ==
  ASSUME NEW m \in HModes
  PROVE  /\ Begin(m) \in Knowledge /\ Begin(m).step = 1 /\ Begin(m).mode = m
         /\ Begin(m).verdict = "none" /\ Begin(m).claim = Nobody
BY DEF Begin, Knowledge, HModes, Verdicts, Done

LEMMA HandshakeInitHolds == Init => HInv
<1> SUFFICES ASSUME Init PROVE HInv
  OBVIOUS
<1>1. HTyped
  BY ClosedIsKnowledge DEF Init, HandshakeInit, HTyped
<1>2. ASSUME NEW s \in Sessions PROVE SessionOK(s)
  <2>1. \A x \in Sides : side[s][x] = Closed /\ wire[s][x] = <<>> /\ s \notin lost
    BY DEF Init, HandshakeInit
  <2>2. Over(s) /\ Returned(s, "dial")
    BY <2>1, ClosedIsKnowledge, Peers DEF Over, Returned
  <2>3. \A x \in Sides : Judgment(s, x)
    BY <2>1, ClosedIsKnowledge, Peers DEF Judgment, Done
  <2> QED
    BY <2>1, <2>2, <2>3 DEF SessionOK, Dials, Told, Live
<1> QED
  BY <1>1, <1>2 DEF HInv

(* Steps of custody and of the processes *)

\* A session is as it was where nothing of it changed.
LEMMA SessionKept ==
  ASSUME HInv, NEW s \in Sessions, side'[s] = side[s], wire'[s] = wire[s], s \in lost' <=> s \in lost,
         proc'[s] = proc[s] \/ (~At(s, "dialing") /\ ~Live(s))
  PROVE  SessionOK(s)'
<1>1. SessionOK(s)
  BY DEF HInv
<1>2. /\ \A x \in Sides : Returned(s, x)' <=> Returned(s, x)
      /\ Over(s)' <=> Over(s)
      /\ Live(s)' <=> Live(s)
  BY Peers DEF Returned, Over, Live
<1>3. \A x \in Sides : Judgment(s, x)'
  BY <1>1 DEF SessionOK, Judgment
<1>4. s \in lost' => \A x \in Sides : wire'[s][x] = <<>>
  BY <1>1 DEF SessionOK
<1>5. CASE proc'[s] = proc[s]
  <2>1. Dials(s)' /\ Told(s)'
    BY <1>1, <1>2, <1>5, Peers DEF SessionOK, Dials, Told, At
  <2>2. ASSUME Live(s), NEW x \in Sides PROVE InOrder(s, x)'
    <3>1. InOrder(s, x)
      BY <1>1, <2>2 DEF SessionOK
    <3>2. ClaimOf(s, x)' = ClaimOf(s, x)
      BY <1>5 DEF ClaimOf
    <3> QED
      BY <3>1, <3>2 DEF InOrder, HelloPending, ClaimPending, Hellos
  <2> QED
    BY <1>2, <1>3, <1>4, <2>1, <2>2 DEF SessionOK
<1>6. CASE ~At(s, "dialing") /\ ~Live(s)
  <2>1. Returned(s, "dial")
    BY <1>1, <1>6 DEF SessionOK, Dials
  <2> QED
    BY <1>2, <1>3, <1>4, <1>6, <2>1, Peers DEF SessionOK, Dials, Told
<1> QED
  BY <1>5, <1>6

LEMMA PrepareKeepsSessions ==
  ASSUME KInv, HInv, NEW p \in Processes, Prepare(p)
  PROVE  HInv'
<1>1. UNCHANGED <<side, wire, lost, serverMode>>
  BY DEF Prepare, handshakeVars, serverVars
<1>2. ~At(p, "dialing") /\ \E r : Goes(p, r)
  <2>1. CASE CustodyStep(p)
    BY <2>1 DEF CustodyStep, MakeFresh, FindWrappingKey, GenerateWrappingKey, LoadSeed, DeleteSeed,
       AddSeed, FindAttestationKey, GenerateAttestationKey, IsUp, At
  <2>2. CASE \E m \in Modes[p] : Start(p, m)
    BY <2>2 DEF Start, At
  <2> QED
    BY <2>1, <2>2 DEF Prepare
<1>3. \A q \in Processes \ {p} : proc'[q] = proc[q]
  BY <1>2 DEF Goes, KInv, Typed
<1>4. HTyped'
  BY <1>1 DEF HInv, HTyped
<1>5. ASSUME NEW s \in Sessions PROVE SessionOK(s)'
  <2>1. s = p => ~Live(s)
    BY <1>2 DEF HInv, SessionOK, Dials
  <2> QED
    BY <1>1, <1>2, <1>3, <2>1, SessionAssumption, SessionKept
<1> QED
  BY <1>4, <1>5 DEF HInv

LEMMA DialKeepsSessions ==
  ASSUME KInv, HInv, NEW p \in Processes, Dial(p)
  PROVE  HInv'
<1> DEFINE b == [x \in Sides |-> Begin(IF x = "dial" THEN proc[p].mode ELSE serverMode)]
           r == [proc[p] EXCEPT !.at = "dialing"]
<1>1. /\ p \in Sessions /\ proc[p] \in Memory /\ At(p, "up") /\ serverMode \in ServerModes
      /\ side \in [Sessions -> [Sides -> Knowledge]]
      /\ wire \in [Sessions -> [Sides -> Seq(FrameSet)]]
  BY SessionAssumption DEF Dial, KInv, HInv, HTyped, Typed, Memory
<1>2. /\ side' = [side EXCEPT ![p] = b]
      /\ wire' = [wire EXCEPT ![p] = [x \in Sides |-> <<>>]]
      /\ lost' = lost \ {p} /\ proc' = [proc EXCEPT ![p] = r] /\ UNCHANGED serverMode
  BY DEF Dial, Connect, Goes, serverVars
<1>3. proc[p].mode \in HModes /\ serverMode \in HModes
  BY <1>1 DEF Memory, HModes
<1>4. /\ b \in [Sides -> Knowledge]
      /\ \A x \in Sides : b[x].step = 1 /\ b[x].verdict = "none" /\ b[x].claim = Nobody
      /\ b["dial"].mode = proc[p].mode
  BY <1>3, BeginIsKnowledge, Peers
<1>5. r.at = "dialing" /\ r.mode = proc[p].mode
  BY <1>1 DEF Memory
<1> HIDE DEF b, r
<1>6. /\ side'[p] = b /\ \A x \in Sides : wire'[p][x] = <<>>
      /\ proc'[p] = r /\ p \notin lost'
  BY <1>1, <1>2 DEF KInv, Typed
<1>7. HTyped'
  <2>1. [x \in Sides |-> <<>>] \in [Sides -> Seq(FrameSet)]
    OBVIOUS
  <2> QED
    BY <1>1, <1>2, <1>4, <2>1 DEF HTyped
<1>8. SessionOK(p)'
  <2>1. \A x \in Sides : Judgment(p, x)'
    BY <1>4, <1>6, Peers DEF Judgment
  <2>2. Dials(p)' /\ Told(p)'
    BY <1>4, <1>5, <1>6, Peers DEF Dials, Told, At
  <2>3. \A x \in Sides : InOrder(p, x)'
    BY <1>4, <1>6, Peers DEF InOrder, HelloPending, ClaimPending, Hellos
  <2> QED
    BY <1>6, <2>1, <2>2, <2>3 DEF SessionOK
<1>9. ASSUME NEW s \in Sessions \ {p} PROVE SessionOK(s)'
  <2>1. side'[s] = side[s] /\ wire'[s] = wire[s] /\ (s \in lost' <=> s \in lost) /\ proc'[s] = proc[s]
    BY <1>1, <1>2, SessionAssumption DEF KInv, Typed
  <2> QED
    BY <2>1, SessionKept
<1> QED
  BY <1>7, <1>8, <1>9 DEF HInv

LEMMA EndKeepsSessions ==
  ASSUME KInv, HInv, NEW p \in Processes, End(p)
  PROVE  HInv'
<1>1. /\ p \in Sessions /\ side \in [Sessions -> [Sides -> Knowledge]]
      /\ wire \in [Sessions -> [Sides -> Seq(FrameSet)]]
  BY SessionAssumption DEF HInv, HTyped
<1>2. proc' = [proc EXCEPT ![p] = Off] /\ UNCHANGED serverMode
  BY DEF End, Stop, Goes, serverVars
<1>3. proc'[p] = Off /\ \A s \in Sessions \ {p} : proc'[s] = proc[s]
  BY <1>2, SessionAssumption DEF KInv, Typed
<1>4. CASE Over(p)
  <2>1. UNCHANGED <<side, wire, lost>>
    BY <1>4 DEF End, handshakeVars
  <2>2. HTyped'
    BY <1>2, <2>1 DEF HInv, HTyped
  <2>3. SessionOK(p)'
    <3>1. Over(p)' /\ Returned(p, "dial")' /\ SessionOK(p)
      BY <1>1, <1>4, <2>1 DEF Over, Returned, HInv
    <3>2. \A x \in Sides : Judgment(p, x)'
      BY <2>1, <3>1 DEF SessionOK, Judgment
    <3> QED
      BY <2>1, <3>1, <3>2 DEF SessionOK, Dials, Told, Live
  <2>4. \A s \in Sessions \ {p} : SessionOK(s)'
    BY <1>3, <2>1, SessionKept
  <2> QED
    BY <2>2, <2>3, <2>4 DEF HInv
<1>5. CASE ~Over(p)
  <2>1. /\ side' = [side EXCEPT ![p]["dial"] = Closed]
        /\ wire' = [wire EXCEPT ![p] = [x \in Sides |-> <<>>]]
        /\ lost' = lost \cup {p}
    BY <1>5 DEF End
  <2>2. HTyped'
    <3>1. [x \in Sides |-> <<>>] \in [Sides -> Seq(FrameSet)]
      OBVIOUS
    <3> QED
      BY <1>1, <1>2, <2>1, <3>1, ClosedIsKnowledge, Peers DEF HInv, HTyped
  <2>3. /\ side'[p]["dial"] = Closed /\ side'[p]["serve"] = side[p]["serve"]
        /\ \A x \in Sides : wire'[p][x] = <<>>
    BY <1>1, <2>1, Peers
  <2>4. SessionOK(p)'
    <3>1. Returned(p, "dial")' /\ p \in lost'
      BY <2>1, <2>3, ClosedIsKnowledge DEF Returned
    <3>2. Judgment(p, "dial")'
      BY <2>3, ClosedIsKnowledge, Peers DEF Judgment, Done
    <3>3. Judgment(p, "serve")'
      <4>1. Judgment(p, "serve")
        BY <1>1, Peers DEF HInv, SessionOK
      <4> QED
        BY <2>1, <2>3, <4>1 DEF Judgment
    <3> QED
      BY <2>3, <3>1, <3>2, <3>3, Peers DEF SessionOK, Dials, Told, Live
  <2>5. ASSUME NEW s \in Sessions \ {p} PROVE SessionOK(s)'
    <3>1. side'[s] = side[s] /\ wire'[s] = wire[s] /\ (s \in lost' <=> s \in lost)
      BY <1>1, <2>1
    <3> QED
      BY <1>3, <3>1, SessionKept
  <2> QED
    BY <2>2, <2>4, <2>5 DEF HInv
<1> QED
  BY <1>4, <1>5

LEMMA ForgetKeepsSessions == HInv /\ Forget => HInv'
<1> SUFFICES ASSUME HInv, Forget PROVE HInv'
  OBVIOUS
<1>1. UNCHANGED <<side, wire, lost, serverMode, proc>>
  BY DEF Forget, ForgetAttestationKey, handshakeVars, serverVars
<1> QED
  BY <1>1, SessionKept DEF HInv, HTyped

\* The restarted server has lost what was not over.
LEMMA RestartKeepsSessions == HInv /\ Restart => HInv'
<1> SUFFICES ASSUME HInv, Restart PROVE HInv'
  OBVIOUS
<1>1. /\ side' = [s \in Sessions |-> [side[s] EXCEPT !["serve"] = Closed]]
      /\ wire' = [s \in Sessions |-> [x \in Sides |-> <<>>]]
      /\ lost' = lost \cup {s \in Sessions : ~Over(s)}
      /\ UNCHANGED <<proc, serverMode>>
  BY DEF Restart, ServerRestart, custodyVars
<1>2. side \in [Sessions -> [Sides -> Knowledge]] /\ serverMode \in ServerModes
  BY DEF HInv, HTyped
<1>3. HTyped'
  BY <1>1, <1>2, ClosedIsKnowledge, Peers DEF HTyped
<1>4. ASSUME NEW s \in Sessions PROVE SessionOK(s)'
  <2>1. /\ side'[s]["serve"] = Closed /\ side'[s]["dial"] = side[s]["dial"]
        /\ \A x \in Sides : wire'[s][x] = <<>>
    BY <1>1, <1>2, Peers
  <2>2. SessionOK(s)
    BY DEF HInv
  <2>3. Judgment(s, "serve")'
    BY <2>1, ClosedIsKnowledge, Peers DEF Judgment, Done
  <2>4. Judgment(s, "dial")'
    <3>1. Judgment(s, "dial")
      BY <2>2, Peers DEF SessionOK
    <3> QED
      BY <1>1, <2>1, <3>1 DEF Judgment
  <2>5. ~Live(s)'
    <3>1. Over(s) => Over(s)'
      BY <2>1, ClosedIsKnowledge DEF Over, Returned
    <3> QED
      BY <1>1, <3>1 DEF Live
  <2>6. Told(s)'
    BY <2>1, ClosedIsKnowledge DEF Told
  <2>7. Dials(s)'
    BY <1>1, <2>1, <2>2, <2>5 DEF SessionOK, Dials, Returned, At
  <2> QED
    BY <2>1, <2>3, <2>4, <2>5, <2>6, <2>7, Peers DEF SessionOK
<1> QED
  BY <1>3, <1>4 DEF HInv

(* Steps of a handshake *)

LEMMA GoesOn ==
  ASSUME NEW me \in Knowledge, me.step # Done
  PROVE  LET r == [me EXCEPT !.step = @ + 1]
         IN /\ r \in Knowledge /\ r.step = me.step + 1 /\ r.mode = me.mode /\ r.peer = me.peer
            /\ r.verdict = me.verdict /\ r.claim = me.claim
<1> DEFINE n == me.step + 1
           r == [me EXCEPT !.step = n]
<1>1. me.step \in 1 .. Done /\ Done = 7
  BY DEF Knowledge, Done
<1>2. n \in 1 .. Done
  BY <1>1
<1> HIDE DEF n
<1>3. /\ r \in Knowledge /\ r.step = n /\ r.mode = me.mode /\ r.peer = me.peer
      /\ r.verdict = me.verdict /\ r.claim = me.claim
  BY <1>2 DEF Knowledge
<1> QED
  BY <1>3 DEF n

LEMMA Decides ==
  ASSUME NEW me \in Knowledge, NEW v \in Verdicts, NEW c \in Claims \cup {Nobody}
  PROVE  LET r == [me EXCEPT !.verdict = v, !.claim = c]
         IN /\ r \in Knowledge /\ r.step = me.step /\ r.mode = me.mode /\ r.peer = me.peer
            /\ r.verdict = v /\ r.claim = c
BY DEF Knowledge

LEMMA Fails ==
  ASSUME NEW me \in Knowledge
  PROVE  LET r == [me EXCEPT !.step = Done, !.verdict = "error"]
         IN /\ r \in Knowledge /\ r.step = Done /\ r.mode = me.mode /\ r.verdict = "error"
<1>1. Done \in 1 .. Done /\ "error" \in Verdicts
  BY DEF Done, Verdicts
<1> QED
  BY <1>1 DEF Knowledge

LEMMA ClaimIsClaim ==
  ASSUME KInv, NEW s \in Sessions, NEW x \in Sides
  PROVE  ClaimOf(s, x) \in Claims
<1>1. proc[s] \in Memory /\ Build[s] \in Builds /\ ServerBuild \in Builds
  BY SessionAssumption DEF KInv, Typed, Memory, Builds
<1> QED
  BY <1>1 DEF ClaimOf, Claims, Memory

\* A step of the side x of the session s has only this session to answer for.
LEMMA OneSession ==
  ASSUME HInv, NEW s \in Sessions, NEW x \in Sides, ~Returned(s, x),
         NEW r \in Knowledge, r.mode = side[s][x].mode, side' = [side EXCEPT ![s][x] = r],
         NEW z \in Sides, NEW w \in Seq(FrameSet), wire' = [wire EXCEPT ![s][z] = w],
         UNCHANGED <<custodyVars, lost, serverMode>>,
         Judgment(s, x)',
         s \in lost => w = <<>>,
         x = "serve" /\ r.verdict = "attested" /\ ~Returned(s, "dial") =>
           r.claim.key = proc[s].attest /\ r.claim.endpoint = proc[s].seed,
         Live(s) => InOrder(s, "dial")' /\ InOrder(s, "serve")'
  PROVE  HInv'
<1>1. /\ side \in [Sessions -> [Sides -> Knowledge]] /\ wire \in [Sessions -> [Sides -> Seq(FrameSet)]]
      /\ serverMode' \in ServerModes /\ SessionOK(s)
  BY DEF HInv, HTyped
<1>2. UNCHANGED <<proc, lost>>
  BY DEF custodyVars
<1>3. HTyped'
  BY <1>1 DEF HTyped
<1>4. /\ side'[s][x] = r /\ \A y \in Sides \ {x} : side'[s][y] = side[s][y]
      /\ wire'[s][z] = w /\ \A y \in Sides \ {z} : wire'[s][y] = wire[s][y]
  BY <1>1
<1>5. ASSUME NEW t \in Sessions \ {s} PROVE SessionOK(t)'
  BY <1>1, <1>2, <1>5, SessionKept
<1>6. SessionOK(s)'
  <2>1. ~Over(s) /\ (Live(s)' => Live(s)) /\ (~Returned(s, "dial")' => ~Returned(s, "dial"))
    BY <1>2, <1>4, Peers DEF Over, Live, Returned
  <2>2. \A y \in Sides : Judgment(s, y)'
    <3>1. ASSUME NEW y \in Sides \ {x} PROVE Judgment(s, y)'
      BY <1>1, <1>2, <1>4, <3>1 DEF SessionOK, Judgment
    <3> QED
      BY <3>1
  <2>3. s \in lost' => \A y \in Sides : wire'[s][y] = <<>>
    BY <1>1, <1>2, <1>4 DEF SessionOK
  <2>4. Dials(s)'
    BY <1>1, <1>2, <1>4, <2>1, Peers DEF SessionOK, Dials, At
  <2>5. Told(s)'
    BY <1>1, <1>2, <1>4, <2>1, Peers DEF SessionOK, Told
  <2> QED
    BY <2>1, <2>2, <2>3, <2>4, <2>5, Peers DEF SessionOK
<1> QED
  BY <1>3, <1>5, <1>6 DEF HInv

\* x sends what its phase asks for, and goes on.
LEMMA SendKeepsSessions ==
  ASSUME KInv, HInv, NEW s \in Sessions, NEW x \in Sides, Send(s, x, ClaimOf(s, x)),
         UNCHANGED <<custodyVars, serverVars>>
  PROVE  HInv'
<1> DEFINE me == side[s][x]
           w == wire[s][x]
<1>1. /\ me \in Knowledge /\ w \in Seq(FrameSet) /\ me.step \in 1 .. 6 /\ ~Returned(s, x)
      /\ SessionOK(s) /\ serverMode' = serverMode /\ lost' = lost
      /\ side \in [Sessions -> [Sides -> Knowledge]] /\ wire \in [Sessions -> [Sides -> Seq(FrameSet)]]
  BY DEF HInv, HTyped, Send, Returned, Knowledge, Done, serverVars
<1>2. me.step \in {First(x), First(x) + 2, First(x) + 4}
  BY <1>1, Schedule, Peers DEF Send
<1>3. proc' = proc /\ ClaimOf(s, x)' = ClaimOf(s, x) /\ \A y \in Sides : ClaimOf(s, y)' = ClaimOf(s, y)
  BY DEF custodyVars, ClaimOf
<1>4. CASE s \in lost /\ Phase(me.step) = "result"
  <2> DEFINE r == [me EXCEPT !.step = @ + 1]
  <2>1. /\ side' = [side EXCEPT ![s][x] = r] /\ wire' = [wire EXCEPT ![s][x] = w]
    BY <1>1, <1>4 DEF Send, Advances
  <2>2. r \in Knowledge /\ r.step = me.step + 1 /\ r.mode = me.mode /\ r.verdict = me.verdict
        /\ r.claim = me.claim /\ r.peer = me.peer
    BY <1>1, GoesOn DEF Done
  <2>3. w = <<>> /\ ~Live(s) /\ Judgment(s, x)
    BY <1>1, <1>4 DEF SessionOK, Live
  <2>4. me.step \in {5, 6}
    BY <1>1, <1>4, Schedule
  <2> HIDE DEF r
  <2>5. side'[s][x] = r
    BY <1>1, <2>1
  <2>6. Judgment(s, x)'
    BY <1>4, <1>1, <2>2, <2>3, <2>4, <2>5, Peers DEF Judgment
  <2>7. x = "serve" /\ r.verdict = "attested" /\ ~Returned(s, "dial") =>
           r.claim.key = proc[s].attest /\ r.claim.endpoint = proc[s].seed
    BY <1>1, <2>2 DEF SessionOK, Told
  <2> QED
    BY <1>1, <2>1, <2>2, <2>3, <2>6, <2>7, OneSession
<1>5. CASE s \in lost /\ Phase(me.step) # "result"
  <2> DEFINE r == [me EXCEPT !.step = Done, !.verdict = "error"]
  <2>1. /\ side' = [side EXCEPT ![s][x] = r] /\ wire' = [wire EXCEPT ![s][x] = w]
    BY <1>1, <1>5 DEF Send, Errs
  <2>2. r \in Knowledge /\ r.step = Done /\ r.mode = me.mode /\ r.verdict = "error"
    BY <1>1, Fails
  <2>3. w = <<>> /\ ~Live(s)
    BY <1>1, <1>5 DEF SessionOK, Live
  <2> HIDE DEF r
  <2>4. side'[s][x] = r
    BY <1>1, <2>1
  <2>5. Judgment(s, x)'
    BY <1>1, <1>5, <2>2, <2>4, Peers DEF Judgment, Done
  <2> QED
    BY <1>1, <2>1, <2>2, <2>3, <2>5, OneSession
<1>6. CASE s \notin lost
  <2> DEFINE r == [me EXCEPT !.step = @ + 1]
             f == Frames(s, x, ClaimOf(s, x))
  <2>1. /\ side' = [side EXCEPT ![s][x] = r] /\ wire' = [wire EXCEPT ![s][x] = w \o f]
    BY <1>1, <1>6 DEF Send, Advances
  <2>2. r \in Knowledge /\ r.step = me.step + 1 /\ r.mode = me.mode /\ r.verdict = me.verdict
        /\ r.claim = me.claim /\ r.peer = me.peer
    BY <1>1, GoesOn DEF Done
  <2>3. Live(s) /\ Judgment(s, x) /\ \A y \in Sides : InOrder(s, y)
    BY <1>1, <1>6, Peers DEF SessionOK, Live, Over
  <2>4. /\ me.step = First(x) => f = <<[kind |-> "hello", mode |-> me.mode]>>
        /\ me.step = First(x) + 2 /\ Attests(me.mode) => f = <<[kind |-> "claim", claim |-> ClaimOf(s, x)]>>
        /\ me.step = First(x) + 2 /\ ~Attests(me.mode) => f = <<>>
        /\ me.step = First(x) + 4 => f = <<[kind |-> "result", ok |-> me.verdict # "rejected"]>>
    BY <1>1, Schedule, Peers DEF Frames
  <2> HIDE DEF r, f
  <2>5. side'[s][x] = r /\ side'[s][Other(x)] = side[s][Other(x)]
        /\ wire'[s][x] = w \o f /\ wire'[s][Other(x)] = wire[s][Other(x)]
    BY <1>1, <2>1, Peers
  <2>6. Judgment(s, x)'
    BY <1>1, <1>2, <2>2, <2>3, <2>5, Peers DEF Judgment
  <2>7. x = "serve" /\ r.verdict = "attested" /\ ~Returned(s, "dial") =>
           r.claim.key = proc[s].attest /\ r.claim.endpoint = proc[s].seed
    BY <1>1, <2>2 DEF SessionOK, Told
  <2>8. InOrder(s, Other(x))'
    <3> DEFINE y == Other(x)
    <3>1. InOrder(s, y) /\ Other(y) = x /\ y \in Sides
      BY <1>1, <2>3, Peers
    <3>2. /\ (r.step > First(y) <=> me.step > First(y)) /\ (r.step <= First(y) <=> me.step <= First(y))
          /\ (r.step <= First(y) + 2 <=> me.step <= First(y) + 2)
      BY <1>2, <2>2, Peers
    <3> HIDE DEF y
    <3>3. HelloPending(s, y)' = HelloPending(s, y) /\ ClaimPending(s, y)' = ClaimPending(s, y)
      BY <2>5, <3>1, <3>2 DEF HelloPending, ClaimPending, y
    <3>4. Hellos(s, y)' = Hellos(s, y) /\ ClaimOf(s, y)' = ClaimOf(s, y)
      BY <1>3, <3>1, <3>3 DEF Hellos
    <3>5. InOrder(s, y)'
      BY <2>2, <2>5, <3>1, <3>2, <3>3, <3>4 DEF InOrder, y
    <3> QED
      BY <3>5 DEF y
  <2>9. w \o f \in Seq(FrameSet) /\ InOrder(s, x)'
    <3> DEFINE y == Other(x)
               b == side[s][y].step
    <3>1. InOrder(s, x) /\ y \in Sides /\ b \in 1 .. 7 /\ First(x) \in {1, 2} /\ First(x) \in Nat
      BY <1>1, <2>3, Peers DEF Knowledge, Done
    <3>2. ClaimOf(s, x) \in Claims /\ me.mode \in HModes /\ Len(w) \in Nat
      BY <1>1, ClaimIsClaim DEF Knowledge
    <3> HIDE DEF y
    <3>3. side'[s][y].step = b /\ side'[s][y].peer = side[s][y].peer
      BY <2>5 DEF y
    <3>4. CASE me.step = First(x)
      <4> DEFINE h == [kind |-> "hello", mode |-> me.mode]
      <4>1. h \in FrameSet /\ h.kind = "hello" /\ h.mode = me.mode /\ f = <<h>>
        BY <2>4, <3>2, <3>4 DEF FrameSet
      <4> HIDE DEF h
      <4>2. ~HelloPending(s, x) /\ Len(w) = 0 /\ b <= First(x)
        BY <3>1, <3>4 DEF InOrder, HelloPending, Hellos, y
      <4>3. w \o f \in Seq(FrameSet) /\ Len(w \o f) = 1 /\ (w \o f)[1] = h
        BY <1>1, <4>1, <4>2, Sent
      <4>4. HelloPending(s, x)' /\ ~ClaimPending(s, x)' /\ Hellos(s, x)' = 1
        BY <2>2, <2>5, <3>1, <3>3, <3>4, <4>2 DEF HelloPending, ClaimPending, Hellos, y
      <4> QED
        BY <2>2, <2>5, <3>1, <3>3, <3>4, <4>1, <4>2, <4>3, <4>4 DEF InOrder, y
    <3>5. CASE me.step = First(x) + 2
      <4>1. (HelloPending(s, x)' <=> HelloPending(s, x)) /\ Hellos(s, x)' = Hellos(s, x)
        BY <2>2, <2>5, <3>1, <3>3, <3>5 DEF HelloPending, Hellos, y
      <4>2. Len(w) = Hellos(s, x) /\ Hellos(s, x) \in {0, 1}
        BY <3>1, <3>5 DEF InOrder, Hellos
      <4>3. HelloPending(s, x) => Hellos(s, x) = 1 /\ w[1].kind = "hello" /\ w[1].mode = me.mode
        BY <3>1 DEF InOrder, Hellos
      <4>4. CASE Attests(me.mode)
        <5> DEFINE c == [kind |-> "claim", claim |-> ClaimOf(s, x)]
        <5>1. c \in FrameSet /\ c.kind = "claim" /\ c.claim = ClaimOf(s, x) /\ f = <<c>>
          BY <2>4, <3>2, <3>5, <4>4 DEF FrameSet
        <5> HIDE DEF c
        <5>2. /\ w \o f \in Seq(FrameSet) /\ Len(w \o f) = Hellos(s, x) + 1
              /\ (w \o f)[Hellos(s, x) + 1] = c
              /\ HelloPending(s, x) => (w \o f)[1] = w[1]
          BY <1>1, <4>2, <4>3, <5>1, Sent
        <5> QED
          <6> DEFINE v == w \o f
          <6>1. v = wire'[s][x] /\ side'[s][x].mode = me.mode /\ side'[s][x].step = First(x) + 3
            BY <2>2, <2>5, <3>1, <3>5
          <6> HIDE DEF v
          <6>2. HelloPending(s, x)' => Len(v) >= 1 /\ v[1].kind = "hello" /\ v[1].mode = me.mode
            BY <4>1, <4>3, <5>2 DEF v
          <6>3. /\ Len(v) >= Hellos(s, x)' + 1 /\ v[Hellos(s, x)' + 1].kind = "claim"
                /\ v[Hellos(s, x)' + 1].claim = ClaimOf(s, x)'
            BY <1>3, <4>1, <4>2, <5>1, <5>2 DEF v
          <6>4. b > First(x) => side'[s][y].peer = me.mode
            BY <3>1, <3>3 DEF InOrder, y
          <6>5. ~(First(x) + 3 <= First(x)) /\ ~(First(x) + 3 <= First(x) + 2)
            BY <3>1
          <6>6. InOrder(s, x)'
            BY <3>3, <6>1, <6>2, <6>3, <6>4, <6>5 DEF InOrder, y
          <6> QED
            BY <5>2, <6>6
      <4>5. CASE ~Attests(me.mode)
        <5>1. w \o f = w
          BY <1>1, <2>4, <3>5, <4>5, SentNothing
        <5>2. ~ClaimPending(s, x)'
          BY <2>2, <2>5, <4>5 DEF ClaimPending
        <5> QED
          BY <1>1, <2>2, <2>5, <3>1, <3>3, <3>5, <4>1, <4>2, <4>3, <5>1, <5>2 DEF InOrder, y
      <4> QED
        BY <4>4, <4>5
    <3>6. CASE me.step = First(x) + 4
      <4>1. (HelloPending(s, x)' <=> HelloPending(s, x)) /\ Hellos(s, x)' = Hellos(s, x)
            /\ (ClaimPending(s, x)' <=> ClaimPending(s, x)) /\ Hellos(s, x) \in {0, 1}
        BY <2>2, <2>5, <3>1, <3>3, <3>6 DEF HelloPending, ClaimPending, Hellos, y
      <4> DEFINE g == [kind |-> "result", ok |-> me.verdict # "rejected"]
      <4>2. g \in FrameSet /\ f = <<g>>
        BY <2>4, <3>6 DEF FrameSet
      <4> HIDE DEF g
      <4>3. /\ w \o f \in Seq(FrameSet) /\ Len(w \o f) = Len(w) + 1
            /\ \A i \in 1 .. Len(w) : (w \o f)[i] = w[i]
        BY <1>1, <4>2, Sent
      <4>4. /\ HelloPending(s, x) => Len(w) >= 1 /\ (w \o f)[1] = w[1]
            /\ ClaimPending(s, x) => Len(w) >= Hellos(s, x) + 1
                 /\ (w \o f)[Hellos(s, x) + 1] = w[Hellos(s, x) + 1]
        BY <3>1, <3>2, <4>1, <4>3 DEF InOrder
      <4> QED
        BY <1>3, <2>2, <2>5, <3>1, <3>2, <3>3, <3>6, <4>1, <4>3, <4>4 DEF InOrder, y
    <3> QED
      BY <1>2, <3>4, <3>5, <3>6
  <2> QED
    BY <1>1, <1>6, <2>1, <2>2, <2>6, <2>7, <2>8, <2>9, Peers, OneSession
<1> QED
  BY <1>4, <1>5, <1>6

\* What x is to read of its peer y while both go on.
LEMMA Reads ==
  ASSUME HInv, NEW s \in Sessions, NEW x \in Sides, NEW y \in Sides, y = Other(x),
         ~Returned(s, x), s \notin lost, side[s][x].step \in 1 .. 6, ~Sends(x, side[s][x].step)
  PROVE  LET me == side[s][x]
             from == wire[s][y]
         IN /\ Live(s)
            /\ me.step = First(y) /\ Returned(s, y) => from # <<>>
            /\ me.step = First(y) /\ from # <<>> =>
                 HelloPending(s, y) /\ from[1].kind = "hello" /\ from[1].mode = side[s][y].mode
            /\ me.step = First(y) + 2 /\ ExpectsClaim(me) /\ Returned(s, y) => from # <<>>
            /\ me.step = First(y) + 2 /\ ExpectsClaim(me) /\ from # <<>> =>
                 /\ from[1].kind = "claim" /\ from[1].claim = ClaimOf(s, y)
                 /\ Attests(side[s][y].mode) /\ side[s][y].step > First(y) + 2
            /\ me.step = First(y) + 4 /\ from # <<>> => side[s][y].step > First(y) + 2
<1> DEFINE me == side[s][x]
           from == wire[s][y]
           n == side[s][y].step
<1>1. /\ me \in Knowledge /\ from \in Seq(FrameSet) /\ n \in 1 .. 7 /\ SessionOK(s)
      /\ First(y) \in {1, 2} /\ Other(y) = x
  BY Peers DEF HInv, HTyped, Knowledge, Done
<1>2. Live(s) /\ InOrder(s, y)
  BY <1>1, Peers DEF SessionOK, Live, Over
<1>3. Len(from) \in Nat /\ (Len(from) = 0 <=> from = <<>>)
  BY <1>1
<1>4. Returned(s, y) <=> n = 7
  BY DEF Returned, Done
<1>5. CASE me.step = First(y)
  <2>1. HelloPending(s, y) <=> n > First(y)
    BY <1>1, <1>5 DEF HelloPending
  <2>2. from # <<>> => HelloPending(s, y)
    BY <1>1, <1>2, <1>3, <2>1 DEF InOrder, Hellos
  <2>3. HelloPending(s, y) =>
          Len(from) >= 1 /\ from[1].kind = "hello" /\ from[1].mode = side[s][y].mode
    BY <1>2 DEF InOrder
  <2> HIDE DEF n, me, from
  <2> QED
    BY <1>1, <1>2, <1>3, <1>4, <1>5, <2>1, <2>2, <2>3 DEF me, from
<1>6. CASE me.step = First(y) + 2
  <2>1. ~HelloPending(s, y) /\ Hellos(s, y) = 0
    BY <1>1, <1>6 DEF HelloPending, Hellos
  <2>2. from # <<>> => n > First(y) + 2
    BY <1>1, <1>2, <1>3, <2>1 DEF InOrder
  <2>3. me.peer = side[s][y].mode
    BY <1>1, <1>2, <1>6 DEF InOrder
  <2>4. ExpectsClaim(me) /\ n > First(y) + 2 => ClaimPending(s, y) /\ Attests(side[s][y].mode)
    BY <1>1, <1>6, <2>3 DEF ExpectsClaim, ClaimPending
  <2>5. ClaimPending(s, y) => Len(from) >= 1 /\ from[1].kind = "claim" /\ from[1].claim = ClaimOf(s, y)
    BY <1>2, <2>1 DEF InOrder
  <2> HIDE DEF n, me, from
  <2> QED
    BY <1>1, <1>2, <1>3, <1>4, <1>6, <2>2, <2>4, <2>5 DEF me, from, n
<1>7. CASE me.step = First(y) + 4
  <2>1. ~HelloPending(s, y) /\ Hellos(s, y) = 0
    BY <1>1, <1>7 DEF HelloPending, Hellos
  <2>2. from # <<>> => n > First(y) + 2
    BY <1>1, <1>2, <1>3, <2>1 DEF InOrder
  <2> QED
    BY <1>1, <1>2, <1>7, <2>2
<1>8. me.step \in {First(y), First(y) + 2, First(y) + 4}
  BY <1>1, Schedule, Peers
<1> QED
  BY <1>5, <1>6, <1>7, <1>8

\* A side that reads leaves in order what it has sent itself.
LEMMA OwnInOrder ==
  ASSUME NEW s \in Sessions, NEW x \in Sides, NEW y \in Sides, y = Other(x),
         InOrder(s, x), side[s][x].step \in {First(y), First(y) + 2, First(y) + 4},
         side'[s][x].step = side[s][x].step + 1, side'[s][x].mode = side[s][x].mode,
         side'[s][y] = side[s][y], wire'[s][x] = wire[s][x], UNCHANGED custodyVars
  PROVE  InOrder(s, x)'
<1>1. ClaimOf(s, x)' = ClaimOf(s, x)
  BY DEF ClaimOf, custodyVars
<1>2. LET n == side[s][x].step
          m == side'[s][x].step
      IN /\ m > First(x) <=> n > First(x)
         /\ m <= First(x) <=> n <= First(x)
         /\ m > First(x) + 2 <=> n > First(x) + 2
         /\ m <= First(x) + 2 <=> n <= First(x) + 2
  BY Peers
<1>3. (HelloPending(s, x)' <=> HelloPending(s, x)) /\ (ClaimPending(s, x)' <=> ClaimPending(s, x))
      /\ Hellos(s, x)' = Hellos(s, x)
  BY <1>2 DEF HelloPending, ClaimPending, Hellos
<1> QED
  BY <1>1, <1>2, <1>3 DEF InOrder

\* What x has read is gone from the wire, and the rest is still in order.
LEMMA RestInOrder ==
  ASSUME HInv, NEW s \in Sessions, NEW x \in Sides, NEW y \in Sides, y = Other(x),
         InOrder(s, y), side[s][x].step \in {First(y), First(y) + 2, First(y) + 4},
         side'[s][x].step = side[s][x].step + 1, side'[s][y] = side[s][y],
         side[s][x].step = First(y) => HelloPending(s, y) /\ side'[s][x].peer = side[s][y].mode,
         side[s][x].step # First(y) => side'[s][x].peer = side[s][x].peer,
         \/ side[s][x].step # First(y) /\ wire'[s][y] = wire[s][y]
         \/ /\ wire[s][y] # <<>> /\ wire'[s][y] = Tail(wire[s][y])
            /\ side[s][x].step # First(y) => side[s][y].step > First(y) + 2,
         UNCHANGED custodyVars
  PROVE  InOrder(s, y)'
<1> DEFINE w == wire[s][y]
           v == wire'[s][y]
           n == side[s][y].step
           m == side[s][x].step
<1>1. /\ w \in Seq(FrameSet) /\ n \in 1 .. 7 /\ First(y) \in {1, 2} /\ Other(y) = x
      /\ Len(w) \in Nat
  BY Peers DEF HInv, HTyped, Knowledge, Done
<1>2. ClaimOf(s, y)' = ClaimOf(s, y)
  BY DEF ClaimOf, custodyVars
<1>3. ~HelloPending(s, y)' /\ Hellos(s, y)' = 0
  BY <1>1 DEF HelloPending, Hellos
<1>4. n > First(y) /\ side'[s][x].peer = side[s][y].mode
  BY <1>1 DEF InOrder, HelloPending
<1>5. CASE m = First(y)
  <2>1. HelloPending(s, y) /\ Hellos(s, y) = 1 /\ w # <<>> /\ v = Tail(w)
    BY <1>5 DEF Hellos
  <2>2. Len(v) = Len(w) - 1 /\ \A i \in 1 .. Len(w) - 1 : v[i] = w[i + 1]
    BY <1>1, <2>1, Taken
  <2>3. ClaimPending(s, y)' <=> ClaimPending(s, y)
    BY <1>1, <1>5 DEF ClaimPending
  <2>4. ClaimPending(s, y) => Len(v) >= 1 /\ v[1] = w[2] /\ w[2].kind = "claim" /\ w[2].claim = ClaimOf(s, y)
    <3>1. ClaimPending(s, y) =>
            Len(w) >= 1 + 1 /\ w[1 + 1].kind = "claim" /\ w[1 + 1].claim = ClaimOf(s, y)
      BY <2>1 DEF InOrder
    <3>2. Len(w) >= 2 => Len(v) >= 1 /\ v[1] = w[2]
      BY <1>1, <2>2
    <3> QED
      BY <3>1, <3>2
  <2>5. n <= First(y) + 2 => Len(v) = 0
    <3>1. n <= First(y) + 2 => Len(w) = 1
      BY <2>1 DEF InOrder
    <3> QED
      BY <2>2, <3>1
  <2> HIDE DEF v
  <2>6. ClaimPending(s, y)' =>
          /\ Len(v) >= Hellos(s, y)' + 1
          /\ v[Hellos(s, y)' + 1].kind = "claim" /\ v[Hellos(s, y)' + 1].claim = ClaimOf(s, y)'
    <3>1. Hellos(s, y)' + 1 = 1
      BY <1>3
    <3> QED
      BY <1>2, <2>3, <2>4, <3>1
  <2>7. n <= First(y) + 2 => Len(v) = Hellos(s, y)'
    BY <1>3, <2>5
  <2>8. side'[s][y] = side[s][y] /\ ~(n <= First(y))
    BY <1>1, <1>4
  <2> HIDE DEF n
  <2> QED
    BY <1>1, <1>3, <1>4, <2>6, <2>7, <2>8 DEF InOrder, v, n
<1>6. CASE m # First(y)
  <2>1. ~ClaimPending(s, y)'
    BY <1>1, <1>6 DEF ClaimPending
  <2>2. ~HelloPending(s, y) /\ Hellos(s, y) = 0
    BY <1>1, <1>6 DEF HelloPending, Hellos
  <2>3. n <= First(y) + 2 => Len(v) = 0
    BY <1>1, <1>6, <2>2 DEF InOrder
  <2> HIDE DEF v
  <2> QED
    BY <1>1, <1>3, <1>4, <2>1, <2>3 DEF InOrder, v
<1> QED
  BY <1>5, <1>6

\* What x makes of the claim of its peer y.
LEMMA JudgesWell ==
  ASSUME KInv, HInv, NEW s \in Sessions, NEW x \in Sides, NEW y \in Sides, y = Other(x),
         side[s][x].step = First(y) + 2, ExpectsClaim(side[s][x]), SessionOK(s),
         NEW f, f.claim = ClaimOf(s, y), Judge(s, x, f)
  PROVE  \E r \in Knowledge :
           /\ side' = [side EXCEPT ![s][x] = r]
           /\ r.step = side[s][x].step + 1 /\ r.mode = side[s][x].mode /\ r.peer = side[s][x].peer
           /\ r.verdict \in {"attested", "rejected"}
           /\ r.verdict = "attested" => r.claim = ClaimOf(s, y)
<1> DEFINE me == side[s][x]
           c == ClaimOf(s, y)
           result(v, d) == [[me EXCEPT !.verdict = v, !.claim = d] EXCEPT !.step = @ + 1]
<1>1. me \in Knowledge /\ me.step # Done /\ c \in Claims
  BY ClaimIsClaim, Peers DEF HInv, HTyped, Done
<1>2. \/ side' = [side EXCEPT ![s][x] = result("attested", c)]
      \/ side' = [side EXCEPT ![s][x] = result("rejected", c)]
      \/ side' = [side EXCEPT ![s][x] = result("rejected", Nobody)]
  BY DEF Judge, Advances
<1>3. ASSUME NEW v \in {"attested", "rejected"}, NEW d \in Claims \cup {Nobody}
      PROVE  LET r == result(v, d)
             IN r \in Knowledge /\ r.step = me.step + 1 /\ r.mode = me.mode /\ r.peer = me.peer
                /\ r.verdict = v /\ r.claim = d
  <2> DEFINE q == [me EXCEPT !.verdict = v, !.claim = d]
  <2>1. /\ q \in Knowledge /\ q.step = me.step /\ q.mode = me.mode /\ q.peer = me.peer
        /\ q.verdict = v /\ q.claim = d
    <3>1. v \in Verdicts
      BY DEF Verdicts
    <3> HIDE DEF me, c
    <3> QED
      BY <1>1, <3>1, Decides
  <2> HIDE DEF q
  <2>2. q.step # Done
    BY <1>1, <2>1
  <2>3. LET r == [q EXCEPT !.step = @ + 1]
        IN r \in Knowledge /\ r.step = me.step + 1 /\ r.mode = me.mode /\ r.peer = me.peer
           /\ r.verdict = v /\ r.claim = d
    BY <2>1, <2>2, GoesOn
  <2> QED
    BY <2>3 DEF q
<1> HIDE DEF result, me, c
<1> QED
  BY <1>1, <1>2, <1>3 DEF me, c

LEMMA ReceiveKeepsSessions ==
  ASSUME KInv, HInv, NEW s \in Sessions, NEW x \in Sides, Receive(s, x),
         UNCHANGED <<custodyVars, serverVars>>
  PROVE  HInv'
<1> DEFINE me == side[s][x]
           y == Other(x)
           from == wire[s][y]
           skips == Phase(me.step) = "claim" /\ ~ExpectsClaim(me)
<1>1. /\ me \in Knowledge /\ me.step # Done /\ me.step \in 1 .. 6 /\ ~Returned(s, x) /\ ~Sends(x, me.step)
      /\ y \in Sides /\ Other(y) = x /\ from \in Seq(FrameSet) /\ SessionOK(s)
      /\ serverMode' = serverMode /\ lost' = lost /\ UNCHANGED custodyVars
      /\ side \in [Sessions -> [Sides -> Knowledge]] /\ wire \in [Sessions -> [Sides -> Seq(FrameSet)]]
  BY Peers DEF HInv, HTyped, Receive, Returned, Knowledge, Done, serverVars
<1>2. /\ me.step \in {First(y), First(y) + 2, First(y) + 4}
      /\ Phase(me.step) = (IF me.step = First(y) THEN "hello"
                           ELSE IF me.step = First(y) + 2 THEN "claim" ELSE "result")
      /\ First(y) \in {1, 2}
  BY <1>1, Schedule, Peers
<1>3. Judgment(s, x) /\ Told(s) /\ (s \in lost => from = <<>>)
  BY <1>1 DEF SessionOK
<1> HIDE DEF me, y
\* In order, for a step that goes on and reads nothing or the first frame.
<1>4. ASSUME NEW r \in Knowledge, side' = [side EXCEPT ![s][x] = r],
             r.step = me.step + 1, r.mode = me.mode,
             me.step = First(y) => HelloPending(s, y) /\ r.peer = side[s][y].mode,
             me.step # First(y) => r.peer = me.peer,
             NEW w \in Seq(FrameSet), wire' = [wire EXCEPT ![s][y] = w],
             \/ me.step # First(y) /\ w = from
             \/ from # <<>> /\ w = Tail(from) /\ (me.step # First(y) => side[s][y].step > First(y) + 2)
      PROVE  Live(s) => InOrder(s, "dial")' /\ InOrder(s, "serve")'
  <2> SUFFICES ASSUME Live(s) PROVE InOrder(s, "dial")' /\ InOrder(s, "serve")'
    OBVIOUS
  <2>1. InOrder(s, x) /\ InOrder(s, y) /\ y = Other(x) /\ x # y
    BY <1>1, Peers DEF SessionOK, y
  <2>2. /\ side'[s][x] = r /\ side'[s][y] = side[s][y]
        /\ wire'[s][y] = w /\ wire'[s][x] = wire[s][x]
    BY <1>1, <1>4, <2>1
  <2>3. InOrder(s, x)'
    BY <1>1, <1>2, <1>4, <2>1, <2>2, OwnInOrder DEF me
  <2>4. InOrder(s, y)'
    BY <1>1, <1>2, <1>4, <2>1, <2>2, RestInOrder DEF me
  <2> QED
    BY <2>1, <2>3, <2>4, Peers
\* x decides without reading.
<1>5. CASE skips /\ Pass(s, x) /\ UNCHANGED <<wire, pins, file, pinned>>
  <2> DEFINE v == IF x \in AllowUnattested THEN "unattested" ELSE "rejected"
             q == IF ~Verifies(me.mode) THEN me ELSE [me EXCEPT !.verdict = v]
             r == [q EXCEPT !.step = @ + 1]
  <2>1. me.step = First(y) + 2 /\ me.claim = Nobody /\ me.verdict = "none"
    BY <1>1, <1>2, <1>3, <1>5 DEF Judgment, me, y
  <2>2. side' = [side EXCEPT ![s][x] = r] /\ wire' = [wire EXCEPT ![s][y] = from]
    BY <1>1, <1>5 DEF Pass, Advances, me
  <2>3. /\ q \in Knowledge /\ q.step = me.step /\ q.mode = me.mode /\ q.peer = me.peer
        /\ q.claim = me.claim /\ (Verifies(me.mode) => q.verdict = v) /\ (~Verifies(me.mode) => q.verdict = "none")
    <3>1. v \in Verdicts
      BY DEF Verdicts
    <3> HIDE DEF v
    <3> QED
      BY <1>1, <2>1, <3>1 DEF Knowledge
  <2> HIDE DEF q
  <2>4. /\ r \in Knowledge /\ r.step = me.step + 1 /\ r.mode = me.mode /\ r.peer = me.peer
        /\ r.claim = me.claim /\ r.verdict = q.verdict
    BY <1>1, <2>3, GoesOn
  <2> HIDE DEF r
  <2>5. side'[s][x] = r
    BY <1>1, <2>2
  <2>6. r.verdict # "attested" /\ r.verdict # "error" /\ (Verifies(me.mode) => r.verdict # "none")
    BY <2>3, <2>4
  <2>7. Judgment(s, x)'
    <3>1. ~(r.step <= First(y) + 2)
      BY <1>2, <2>1, <2>4
    <3>2. Verifies(r.mode) => r.verdict # "none"
      BY <2>4, <2>6
    <3> HIDE DEF v
    <3> QED
      BY <2>5, <2>6, <3>1, <3>2 DEF Judgment, y
  <2>8. Live(s) => InOrder(s, "dial")' /\ InOrder(s, "serve")'
    <3>1. me.step # First(y) /\ from \in Seq(FrameSet)
      BY <1>1, <1>2, <2>1
    <3> HIDE DEF from
    <3> QED
      BY <1>4, <2>2, <2>4, <3>1
  <2> QED
    BY <1>1, <1>3, <2>2, <2>4, <2>6, <2>7, <2>8, OneSession DEF me
\* x reads a frame.
<1>6. CASE ~skips /\ from # <<>> /\ Read(s, x, Head(from)) /\ wire' = [wire EXCEPT ![s][y] = Tail(@)]
  <2>1. s \notin lost /\ Head(from) = from[1] /\ Head(from) \in FrameSet /\ Tail(from) \in Seq(FrameSet)
        /\ wire' = [wire EXCEPT ![s][y] = Tail(from)]
    BY <1>1, <1>3, <1>6, Taken
  <2>2. CASE me.step = First(y)
    <3> DEFINE q == [me EXCEPT !.peer = Head(from).mode]
               r == [q EXCEPT !.step = @ + 1]
    <3>1. HelloPending(s, y) /\ Head(from).kind = "hello" /\ Head(from).mode = side[s][y].mode
      BY <1>1, <1>6, <2>1, <2>2, Reads DEF me, y
    <3>2. side' = [side EXCEPT ![s][x] = r]
      BY <1>2, <1>6, <2>2, <3>1 DEF Read, Advances, me
    <3>3. side[s][y].mode \in HModes
      BY <1>1 DEF Knowledge
    <3>4. /\ q \in Knowledge /\ q.step = me.step /\ q.mode = me.mode /\ q.peer = side[s][y].mode
          /\ q.claim = me.claim /\ q.verdict = me.verdict
      BY <1>1, <3>1, <3>3 DEF Knowledge
    <3> HIDE DEF q
    <3>5. /\ r \in Knowledge /\ r.step = me.step + 1 /\ r.mode = me.mode /\ r.peer = side[s][y].mode
          /\ r.claim = me.claim /\ r.verdict = me.verdict
      BY <1>1, <3>4, GoesOn
    <3> HIDE DEF r
    <3>6. side'[s][x] = r
      BY <1>1, <3>2
    <3>7. me.verdict = "none" /\ me.claim = Nobody
      BY <1>2, <1>3, <2>2 DEF Judgment, me, y
    <3>8. Judgment(s, x)'
      BY <1>2, <2>2, <3>5, <3>6, <3>7 DEF Judgment, y
    <3>9. Live(s) => InOrder(s, "dial")' /\ InOrder(s, "serve")'
      BY <1>4, <1>6, <2>1, <2>2, <3>1, <3>2, <3>5
    <3> QED
      BY <1>1, <2>1, <3>2, <3>5, <3>7, <3>8, <3>9, OneSession DEF me
  <2>3. CASE me.step = First(y) + 2
    <3>1. me.step # First(y) /\ ExpectsClaim(me)
      BY <1>2, <1>6, <2>3
    <3>2. Head(from).claim = ClaimOf(s, y) /\ side[s][y].step > First(y) + 2
      BY <1>1, <1>6, <2>1, <2>3, <3>1, Reads DEF me, y
    <3>3. Judge(s, x, Head(from))
      BY <1>2, <1>6, <2>3, <3>1 DEF Read, me
    <3> DEFINE f == Head(from)
    <3>0. f.claim = ClaimOf(s, y) /\ Judge(s, x, f) /\ y = Other(x)
          /\ side[s][x].step = First(y) + 2 /\ ExpectsClaim(side[s][x])
      BY <2>3, <3>1, <3>2, <3>3 DEF me, y
    <3> HIDE DEF f
    <3>4. PICK r \in Knowledge :
           /\ side' = [side EXCEPT ![s][x] = r]
           /\ r.step = me.step + 1 /\ r.mode = me.mode /\ r.peer = me.peer
           /\ r.verdict \in {"attested", "rejected"}
           /\ r.verdict = "attested" => r.claim = ClaimOf(s, y)
      <4>1. KInv /\ HInv /\ s \in Sessions /\ x \in Sides /\ y \in Sides /\ SessionOK(s)
        BY <1>1
      <4> HIDE DEF from
      <4> QED
        BY <3>0, <4>1, JudgesWell DEF me
    <3>5. side'[s][x] = r
      BY <1>1, <3>4
    <3>6. ClaimOf(s, y).role = y /\ (y = "dial" => ClaimOf(s, y).key = proc[s].attest
                                                  /\ ClaimOf(s, y).endpoint = proc[s].seed)
      BY <1>1, Peers DEF ClaimOf
    <3>7. Judgment(s, x)'
      BY <1>1, <1>2, <2>3, <3>1, <3>4, <3>5, <3>6 DEF Judgment, ExpectsClaim, y
    <3>8. Live(s) => InOrder(s, "dial")' /\ InOrder(s, "serve")'
      BY <1>4, <1>6, <2>1, <3>1, <3>2, <3>4
    <3>9. x = "serve" /\ r.verdict = "attested" =>
            r.claim.key = proc[s].attest /\ r.claim.endpoint = proc[s].seed
      BY <1>1, <3>4, <3>6, Peers DEF y
    <3> QED
      BY <1>1, <2>1, <3>4, <3>7, <3>8, <3>9, OneSession DEF me
  <2>4. CASE me.step = First(y) + 4
    <3> DEFINE r == [me EXCEPT !.step = @ + 1]
    <3>1. me.step # First(y) /\ me.step # First(y) + 2 /\ side[s][y].step > First(y) + 2
      BY <1>1, <1>2, <1>6, <2>1, <2>4, Reads DEF me, y
    <3>2. side' = [side EXCEPT ![s][x] = r]
      BY <1>2, <1>6, <3>1 DEF Read, Advances, me
    <3>3. /\ r \in Knowledge /\ r.step = me.step + 1 /\ r.mode = me.mode /\ r.peer = me.peer
          /\ r.claim = me.claim /\ r.verdict = me.verdict
      BY <1>1, GoesOn
    <3> HIDE DEF r
    <3>4. side'[s][x] = r
      BY <1>1, <3>2
    <3>5. Judgment(s, x)'
      BY <1>1, <1>2, <1>3, <2>4, <3>3, <3>4 DEF Judgment, me, y
    <3>6. Live(s) => InOrder(s, "dial")' /\ InOrder(s, "serve")'
      BY <1>4, <1>6, <2>1, <3>1, <3>2, <3>3
    <3>7. x = "serve" /\ r.verdict = "attested" /\ ~Returned(s, "dial") =>
            r.claim.key = proc[s].attest /\ r.claim.endpoint = proc[s].seed
      BY <1>3, <3>3 DEF Told, me
    <3> QED
      BY <1>1, <2>1, <3>2, <3>3, <3>5, <3>6, <3>7, OneSession DEF me
  <2> QED
    BY <1>2, <2>2, <2>3, <2>4
\* x finds nothing, and its peer sends nothing any more.
<1>7. CASE ~skips /\ from = <<>> /\ (s \in lost \/ Returned(s, y))
           /\ (IF Phase(me.step) = "result" THEN Advances(s, x, me) ELSE Errs(s, x))
           /\ UNCHANGED <<wire, pins, file, pinned>>
  <2>1. wire' = [wire EXCEPT ![s][y] = from]
    BY <1>1, <1>7
  <2>2. CASE Phase(me.step) = "result"
    <3> DEFINE r == [me EXCEPT !.step = @ + 1]
    <3>1. me.step = First(y) + 4 /\ me.step # First(y)
      BY <1>2, <2>2
    <3>2. side' = [side EXCEPT ![s][x] = r]
      BY <1>7, <2>2 DEF Advances, me
    <3>3. /\ r \in Knowledge /\ r.step = me.step + 1 /\ r.mode = me.mode /\ r.peer = me.peer
          /\ r.claim = me.claim /\ r.verdict = me.verdict
      BY <1>1, GoesOn
    <3> HIDE DEF r
    <3>4. side'[s][x] = r
      BY <1>1, <3>2
    <3>5. Judgment(s, x)'
      BY <1>1, <1>2, <1>3, <3>1, <3>3, <3>4 DEF Judgment, me, y
    <3>6. Live(s) => InOrder(s, "dial")' /\ InOrder(s, "serve")'
      BY <1>1, <1>4, <2>1, <3>1, <3>2, <3>3
    <3>7. x = "serve" /\ r.verdict = "attested" /\ ~Returned(s, "dial") =>
            r.claim.key = proc[s].attest /\ r.claim.endpoint = proc[s].seed
      BY <1>3, <3>3 DEF Told, me
    <3> QED
      BY <1>1, <1>7, <2>1, <3>2, <3>3, <3>5, <3>6, <3>7, OneSession DEF me
  <2>3. CASE Phase(me.step) # "result"
    <3> DEFINE r == [me EXCEPT !.step = Done, !.verdict = "error"]
    <3>1. s \in lost
      <4>1. me.step = First(y) \/ (me.step = First(y) + 2 /\ ExpectsClaim(me))
        BY <1>2, <1>7, <2>3
      <4> QED
        BY <1>1, <1>7, <4>1, Reads DEF me, y
    <3>2. side' = [side EXCEPT ![s][x] = r]
      BY <1>1, <1>7, <2>3 DEF Errs, me
    <3>3. r \in Knowledge /\ r.step = Done /\ r.mode = me.mode /\ r.verdict = "error"
      BY <1>1, Fails
    <3> HIDE DEF r
    <3>4. side'[s][x] = r
      BY <1>1, <3>2
    <3>5. Judgment(s, x)'
      BY <1>1, <1>2, <3>1, <3>3, <3>4 DEF Judgment, Done, y
    <3>6. ~Live(s)
      BY <3>1 DEF Live
    <3> QED
      BY <1>1, <1>7, <2>1, <3>2, <3>3, <3>5, <3>6, OneSession DEF me
  <2> QED
    BY <2>2, <2>3
<1> QED
  BY <1>5, <1>6, <1>7 DEF Receive, me, y

LEMMA SessionsNext == KInv /\ HInv /\ [Next]_vars => HInv'
<1> SUFFICES ASSUME KInv, HInv, [Next]_vars PROVE HInv'
  OBVIOUS
<1>1. ASSUME NEW p \in Processes, NEW x \in Sides, Shake(p, x) PROVE HInv'
  BY <1>1, SendKeepsSessions, ReceiveKeepsSessions, SessionAssumption DEF Shake
<1>2. CASE UNCHANGED vars
  <2>1. UNCHANGED <<side, wire, lost, serverMode, proc>>
    BY <1>2 DEF vars, custodyVars, handshakeVars, serverVars
  <2> QED
    BY <2>1, SessionKept DEF HInv, HTyped
<1> QED
  BY <1>1, <1>2, PrepareKeepsSessions, DialKeepsSessions, EndKeepsSessions, ForgetKeepsSessions,
     RestartKeepsSessions DEF Next

(* Each frame is what its sender's phase sends, and a verdict is what the  *)
(* claim, the modes and the server's store make of it (runHandshake).      *)
THEOREM SessionsInductive == Spec => [](KInv /\ HInv)
<1>1. Init => KInv /\ HInv
  BY CustodyInitHolds, HandshakeInitHolds DEF Init
<1>2. KInv /\ HInv /\ [Next]_vars => (KInv /\ HInv)'
  BY KeysNext, SessionsNext
<1> QED
  BY <1>1, <1>2, PTL DEF Spec

-----------------------------------------------------------------------------
(* The store: what its file holds is what the process holds, so a pin that *)
(* was saved is not replaced.                                              *)

FileIsPinned == \A e \in DOMAIN file : e \in DOMAIN pins /\ pins[e] = file[e]

Keeps ==
  /\ \A e \in DOMAIN file : e \in DOMAIN file' /\ file'[e] = file[e]
  /\ \A a \in pinned' \ pinned : a.endpoint \in DOMAIN file => file[a.endpoint] = a.key

\* The claim that lets the server go on is of a pinned key, or of an endpoint
\* that the file does not hold.
LEMMA JudgeKeeps ==
  ASSUME FileIsPinned, NEW s, NEW x, NEW f, Judge(s, x, f)
  PROVE  FileIsPinned' /\ Keeps
<1> DEFINE c == f.claim
<1>1. CASE UNCHANGED <<pins, file, pinned>>
  BY <1>1 DEF FileIsPinned, Keeps
<1>2. CASE Pin(c) /\ pinned' = pinned \cup {[endpoint |-> c.endpoint, key |-> c.key]}
  <2>1. CASE Known(c) /\ pins[c.endpoint] = c.key /\ UNCHANGED <<pins, file>>
    BY <1>2, <2>1 DEF FileIsPinned, Keeps
  <2>2. CASE ~Known(c) /\ pins' = With(pins, c) /\ file' = With(pins, c)
    BY <1>2, <2>2 DEF FileIsPinned, Keeps, Known, With
  <2> QED
    BY <1>2, <2>1, <2>2 DEF Pin
<1>3. CASE Refuse(c) /\ UNCHANGED pinned
  <2>1. CASE UNCHANGED <<pins, file>>
    BY <1>3, <2>1 DEF FileIsPinned, Keeps
  <2>2. CASE ~Known(c) /\ pins' = With(pins, c) /\ UNCHANGED file
    BY <1>3, <2>2 DEF FileIsPinned, Keeps, Known, With
  <2> QED
    BY <1>3, <2>1, <2>2 DEF Refuse
<1> QED
  BY <1>1, <1>2, <1>3 DEF Judge

LEMMA ReadKeeps ==
  ASSUME FileIsPinned, NEW s, NEW x, NEW f, Phase(side[s][x].step) \in {"hello", "claim", "result"},
         Read(s, x, f)
  PROVE  FileIsPinned' /\ Keeps
<1>1. CASE UNCHANGED <<pins, file, pinned>>
  BY <1>1 DEF FileIsPinned, Keeps
<1> QED
  BY <1>1, JudgeKeeps DEF Read

LEMMA StoreNext == HInv /\ FileIsPinned /\ [Next]_vars => FileIsPinned' /\ Keeps
<1> SUFFICES ASSUME HInv, FileIsPinned, [Next]_vars PROVE FileIsPinned' /\ Keeps
  OBVIOUS
<1>1. CASE UNCHANGED <<pins, file, pinned>>
  BY <1>1 DEF FileIsPinned, Keeps
<1>2. CASE Restart
  BY <1>2 DEF Restart, ServerRestart, FileIsPinned, Keeps
<1>3. ASSUME NEW s \in Sessions, NEW x \in Sides, Receive(s, x) PROVE FileIsPinned' /\ Keeps
  <2>1. side[s][x].step \in 1 .. 6
    BY <1>3 DEF HInv, HTyped, Knowledge, Receive, Returned, Done
  <2>2. Phase(side[s][x].step) \in {"hello", "claim", "result"}
    BY <2>1, Schedule
  <2> QED
    BY <1>1, <1>3, <2>2, ReadKeeps DEF Receive
<1>4. ASSUME NEW p \in Processes, NEW x \in Sides, Shake(p, x) PROVE FileIsPinned' /\ Keeps
  BY <1>1, <1>3, <1>4, SessionAssumption DEF Shake, Send
<1> QED
  BY <1>1, <1>2, <1>4 DEF Next, Prepare, Dial, Connect, End, Forget, vars, handshakeVars

(* What the file of known peers holds is pinned in memory (KnownPeers).    *)
THEOREM StoreInductive == Spec => []FileIsPinned
<1>1. Init => FileIsPinned
  BY DEF Init, HandshakeInit, FileIsPinned
<1> QED
  BY <1>1, StoreNext, SessionsInductive, PTL DEF Spec

\* What the file holds is kept, over any number of restarts, and from then on
\* the endpoint passes with that key only (KnownPeers.Pin).
THEOREM SavedKeysStay == Spec => SavedKeyIsKept
<1>1. HInv /\ FileIsPinned /\ [Next]_vars => [Keeps]_vars
  BY StoreNext
<1>2. Keeps => 
       /\ \A e \in DOMAIN file : e \in DOMAIN file' /\ file'[e] = file[e]
       /\ \A a \in pinned' \ pinned : a.endpoint \in DOMAIN file => file[a.endpoint] = a.key
  BY DEF Keeps
<1> QED
  BY <1>1, <1>2, SessionsInductive, StoreInductive, PTL DEF Spec, SavedKeyIsKept

\* The variables of a process and of a side are of their types, and what is
\* on the disk is in memory too (KnownPeers).
THEOREM Types == Spec => []TypeOK
<1>1. KInv /\ HInv /\ FileIsPinned => TypeOK
  <2> SUFFICES ASSUME KInv, HInv, FileIsPinned PROVE TypeOK
    OBVIOUS
  <2>1. \A p \in Processes : At(p, "up") \/ At(p, "dialing") => proc[p].seed # None
    BY NoneAssumption DEF KInv, Relies, At
  <2>2. \A p \in Processes : proc[p].attest # None => Signs(p)
    BY DEF KInv, Relies
  <2>3. \A s \in Sessions, x \in Sides :
          /\ side[s][x].step \in 1 .. Done
          /\ side[s][x].verdict \in {"none", "attested", "unattested", "rejected", "error"}
    BY DEF HInv, HTyped, Knowledge, Verdicts
  <2> QED
    BY <2>1, <2>2, <2>3 DEF TypeOK, FileIsPinned
<1> QED
  BY <1>1, SessionsInductive, StoreInductive, PTL

\* Each pair of modes comes to the verdicts it asks for, on a claim made in
\* this session by that process, or the connection is lost (runHandshake,
\* exchange).
THEOREM VerdictsAreRight == Spec => []ModesFit
<1>1. KInv /\ HInv => ModesFit
  <2> SUFFICES ASSUME HInv, NEW s \in Sessions, NEW x \in Sides
               PROVE  /\ side[s][x].verdict = "error" => s \in lost
                      /\ LET me == side[s][x]
                         IN /\ me.verdict = "attested" =>
                                 Verifies(me.mode) /\ Attests(me.peer) /\ me.claim.role = Other(x)
                            /\ me.verdict = "attested" /\ x = "serve" /\ ~Returned(s, "dial") =>
                                 me.claim.key = proc[s].attest /\ me.claim.endpoint = proc[s].seed
                            /\ me.step \in 5 .. Done /\ Verifies(me.mode) /\ me.verdict = "none" => s \in lost
    BY DEF ModesFit, OnlyLossFails, VerdictsFit
  <2>1. Judgment(s, x) /\ Told(s)
    BY DEF HInv, SessionOK
  <2>2. side[s][x].step \in 5 .. Done => side[s][x].step > First(Other(x)) + 2
    BY Peers
  <2> QED
    BY <2>1, <2>2 DEF Judgment, Told
<1> QED
  BY <1>1, SessionsInductive, PTL

-----------------------------------------------------------------------------
(* No two processes present different keys for one endpoint: a persistent  *)
(* one has a key under the tag, the key of an ephemeral one was made with  *)
(* its seed.                                                               *)
Genuine(e, k) ==
  IF item # None /\ e = item.seed THEN forgotten \/ k \in signing
  ELSE /\ e \in Nat /\ e < made /\ k = e + 1
       /\ \A p \in Processes : proc[p].at \in {"delete", "add"} => proc[p].seed # e

Presents(p) == proc[p].at \in {"up", "dialing"} /\ Signs(p)

Honest ==
  /\ \A p \in Processes : Presents(p) => Genuine(proc[p].seed, proc[p].attest)
  /\ \A e \in DOMAIN pins : Genuine(e, pins[e])
  /\ HonestPeersAreKnown

(* What a step of custody may do without making a key doubtful.            *)
Storing(p) == proc[p].at \in {"delete", "add"}
Careful ==
  /\ made' \in Nat /\ made' >= made
  /\ signing \subseteq signing' \/ forgotten'
  /\ forgotten => forgotten'
  /\ \/ item' = item
     \/ item = None /\ \E p \in Processes : Storing(p) /\ item'.seed = proc[p].seed
  /\ \A p \in Processes : Storing(p)' =>
       proc'[p].seed = made \/ (Storing(p) /\ proc'[p].seed = proc[p].seed)

(* A process that is up keeps its keys until it ends.                     *)
ProcsStay == \A q \in Processes : Presents(q)' =>
  \/ Presents(q) /\ proc'[q].seed = proc[q].seed /\ proc'[q].attest = proc[q].attest
  \/ Genuine(proc[q].seed, proc[q].attest)'

LEMMA GenuineStays ==
  ASSUME KInv, Careful, NEW e, NEW k, Genuine(e, k)
  PROVE  Genuine(e, k)'
<1>1. made \in Nat
  BY DEF KInv, Typed
<1>2. CASE item # None /\ e = item.seed
  BY <1>2 DEF Genuine, Careful
<1>3. CASE ~(item # None /\ e = item.seed)
  <2>1. /\ e \in Nat /\ e < made /\ k = e + 1
        /\ \A p \in Processes : Storing(p) => proc[p].seed # e
    BY <1>3 DEF Genuine, Storing
  <2>2. ~(item' # None /\ e = item'.seed)
    BY <1>3, <2>1 DEF Careful
  <2>3. e < made' /\ e # made
    BY <1>1, <2>1 DEF Careful
  <2>4. \A p \in Processes : Storing(p)' => proc'[p].seed # e
    BY <2>1, <2>3 DEF Careful
  <2> QED
    BY <2>1, <2>2, <2>3, <2>4 DEF Genuine, Storing
<1> QED
  BY <1>2, <1>3

LEMMA HonestStays ==
  ASSUME KInv, Honest, Careful,
         \A e \in DOMAIN pins' : e \in DOMAIN pins /\ pins'[e] = pins[e],
         ProcsStay, HonestPeersAreKnown'
  PROVE  Honest'
<1>1. \A e, k : Genuine(e, k) => Genuine(e, k)'
  BY GenuineStays
<1>2. ASSUME NEW e \in DOMAIN pins'
      PROVE  Genuine(e, pins[e])'
  BY <1>1, <1>2 DEF Honest, Genuine
<1>3. ASSUME NEW q \in Processes, Presents(q)'
      PROVE  Genuine(proc[q].seed, proc[q].attest)'
  <2>1. CASE Genuine(proc[q].seed, proc[q].attest)'
    BY <2>1
  <2>2. CASE Presents(q) /\ proc'[q].seed = proc[q].seed /\ proc'[q].attest = proc[q].attest
    <3>1. Genuine(proc[q].seed, proc[q].attest)
      BY <2>2 DEF Honest
    <3> QED
      BY <1>1, <2>2, <3>1 DEF Genuine
  <2> QED
    BY <1>3, <2>1, <2>2 DEF ProcsStay
<1> QED
  BY <1>2, <1>3 DEF Honest

LEMMA StepIsCareful ==
  ASSUME KInv, NEW p \in Processes, NEW r \in Memory, Goes(p, r),
         made' \in Nat, made' >= made, signing \subseteq signing', forgotten' = forgotten,
         \/ item' = item
         \/ item = None /\ Storing(p) /\ item'.seed = proc[p].seed,
         r.at \in {"delete", "add"} => r.seed = made \/ (Storing(p) /\ r.seed = proc[p].seed),
         \/ r.at \notin {"up", "dialing"} \/ r.mode = "verify"
         \/ Presents(p) /\ r.seed = proc[p].seed /\ r.attest = proc[p].attest
         \/ item # None /\ item' = item /\ r.seed = item.seed /\ r.attest \in signing'
         \/ /\ item' = item /\ r.at = "up" /\ r.seed \in Nat /\ r.seed >= made /\ r.seed < made'
            /\ r.attest = r.seed + 1 /\ r.seed # made
  PROVE  Careful /\ ProcsStay
<1>1. proc'[p] = r /\ \A q \in Processes \ {p} : proc'[q] = proc[q]
  BY DEF KInv, Typed, Goes
<1>2. \A q \in Processes : Storing(q)' => proc'[q].seed = made \/ (Storing(q) /\ proc'[q].seed = proc[q].seed)
  BY <1>1 DEF Storing
<1>3. Careful
  BY <1>2 DEF Careful
<1>4. ASSUME NEW q \in Processes \ {p}, Presents(q)'
      PROVE  Presents(q) /\ proc'[q].seed = proc[q].seed /\ proc'[q].attest = proc[q].attest
  BY <1>1, <1>4 DEF Presents, Signs
<1>5. ASSUME Presents(p)'
      PROVE  \/ Presents(p) /\ proc'[p].seed = proc[p].seed /\ proc'[p].attest = proc[p].attest
             \/ Genuine(proc[p].seed, proc[p].attest)'
  <2>1. r.at \in {"up", "dialing"} /\ r.mode # "verify"
    BY <1>1, <1>5 DEF Presents, Signs
  <2>2. CASE Presents(p) /\ r.seed = proc[p].seed /\ r.attest = proc[p].attest
    BY <1>1, <2>2
  <2>3. CASE item # None /\ item' = item /\ r.seed = item.seed /\ r.attest \in signing'
    BY <1>1, <2>3 DEF Genuine
  <2>4. CASE /\ item' = item /\ r.at = "up" /\ r.seed \in Nat /\ r.seed >= made /\ r.seed < made'
             /\ r.attest = r.seed + 1 /\ r.seed # made
    <3>1. made \in Nat /\ (item # None => item.seed \in Nat /\ item.seed < made)
      BY DEF KInv, Typed, Made
    <3>2. ~(item' # None /\ r.seed = item'.seed)
      BY <2>4, <3>1
    <3>3. ASSUME NEW q \in Processes, Storing(q)' PROVE proc'[q].seed # r.seed
      <4>1. proc'[q].seed = made \/ (Storing(q) /\ proc'[q].seed = proc[q].seed)
        BY <1>2, <3>3
      <4>2. Storing(q) => proc[q].seed \in Nat /\ proc[q].seed < made
        BY DEF KInv, Relies, Storing
      <4> QED
        BY <2>4, <3>1, <4>1, <4>2
    <3> QED
      BY <1>1, <2>4, <3>2, <3>3 DEF Genuine, Storing
  <2> QED
    BY <2>1, <2>2, <2>3, <2>4
<1> QED
  BY <1>3, <1>4, <1>5 DEF ProcsStay

LEMMA CustodyIsCareful ==
  ASSUME KInv, NEW p \in Processes, CustodyStep(p) \/ \E m \in Modes[p] : Start(p, m)
  PROVE  Careful /\ ProcsStay
<1>1. made \in Nat /\ proc[p] \in Memory /\ Relies(p) /\ signing \subseteq Nat
  BY DEF KInv, Typed, Memory
<1>2. made + 1 \in Nat /\ made + 2 \in Nat /\ made + 3 \in Nat
  BY <1>1
<1>3. ASSUME NEW m \in Modes[p], Start(p, m) PROVE Careful /\ ProcsStay
  <2> DEFINE r == [Off EXCEPT !.at = IF p \in Ephemeral THEN "fresh" ELSE "find", !.mode = m]
  <2>1. r \in Memory /\ r.at \in {"fresh", "find"}
    BY DEF Off, Memory, Places, InMode, Numbers
  <2>2. Goes(p, r) /\ UNCHANGED <<signing, item, made, forgotten>>
    BY <1>3 DEF Start
  <2> HIDE DEF r
  <2> QED
    BY <1>1, <2>1, <2>2, StepIsCareful
<1>4. CASE MakeFresh(p)
  <2> DEFINE r == [proc[p] EXCEPT !.at = "up", !.wrap = made, !.seed = made + 1,
                                  !.attest = IF Signs(p) THEN made + 2 ELSE None]
  <2>1. r \in Memory /\ r.at = "up" /\ r.seed = made + 1 /\ r.mode = proc[p].mode
        /\ (Signs(p) => r.attest = made + 2)
    BY <1>1, <1>2 DEF Memory, Places, Numbers
  <2>2. Goes(p, r) /\ made' = made + 3 /\ UNCHANGED <<signing, item, forgotten>>
    BY <1>4 DEF MakeFresh
  <2> HIDE DEF r
  <2>3. r.mode # "verify" => r.attest = r.seed + 1
    BY <1>1, <2>1 DEF Signs
  <2>4. /\ made' \in Nat /\ made' >= made /\ r.seed \in Nat /\ r.seed >= made /\ r.seed < made'
        /\ r.seed # made
    BY <1>1, <2>1, <2>2
  <2> QED
    BY <2>1, <2>2, <2>3, <2>4, StepIsCareful
<1>5. CASE FindWrappingKey(p)
  <2>1. PICK k \in wrapping \cup {None} :
          \/ k # None /\ Goes(p, [proc[p] EXCEPT !.at = "load", !.wrap = k])
          \/ Goes(p, [proc[p] EXCEPT !.at = "generate"])
    BY <1>5, NoneAssumption DEF FindWrappingKey, KInv, Typed
  <2>2. PICK r \in Memory : Goes(p, r) /\ r.at \in {"load", "generate"}
    <3>1. k \in Numbers
      BY DEF KInv, Typed, Numbers
    <3>2. [proc[p] EXCEPT !.at = "load", !.wrap = k] \in Memory /\ [proc[p] EXCEPT !.at = "generate"] \in Memory
      BY <1>1, <3>1 DEF Memory, Places
    <3>3. /\ [proc[p] EXCEPT !.at = "load", !.wrap = k].at = "load"
          /\ [proc[p] EXCEPT !.at = "generate"].at = "generate"
      BY <1>1 DEF Memory
    <3> QED
      BY <2>1, <3>2, <3>3
  <2>3. UNCHANGED <<signing, item, made, forgotten>>
    BY <1>5 DEF FindWrappingKey
  <2> QED
    BY <1>1, <2>2, <2>3, StepIsCareful
<1>6. CASE GenerateWrappingKey(p)
  <2> DEFINE r == [proc[p] EXCEPT !.at = "load", !.wrap = made]
  <2>1. r \in Memory /\ r.at = "load"
    BY <1>1 DEF Memory, Places, Numbers
  <2>2. Goes(p, r) /\ made' = made + 1 /\ UNCHANGED <<signing, item, forgotten>>
    BY <1>6 DEF GenerateWrappingKey
  <2> HIDE DEF r
  <2>3. made' \in Nat /\ made' >= made
    BY <1>1, <2>2
  <2> QED
    BY <2>1, <2>2, <2>3, StepIsCareful
<1>7. CASE LoadSeed(p)
  <2>1. /\ UNCHANGED <<signing, item, forgotten>>
        /\ item # None => item.seed \in Nat
    BY <1>7 DEF LoadSeed, KInv, Typed
  <2>2. CASE item = None
    <3> DEFINE r == [proc[p] EXCEPT !.at = "delete", !.seed = made]
    <3>1. r \in Memory /\ r.at = "delete" /\ r.seed = made
      BY <1>1 DEF Memory, Places, Numbers
    <3>2. Goes(p, r) /\ made' = made + 1
      BY <1>7, <2>2 DEF LoadSeed
    <3> HIDE DEF r
    <3>3. made' \in Nat /\ made' >= made
      BY <1>1, <3>2
    <3> QED
      BY <2>1, <3>1, <3>2, <3>3, StepIsCareful
  <2>3. CASE item # None
    <3> DEFINE q == [proc[p] EXCEPT !.at = "sign", !.seed = item.seed]
               o == [Off EXCEPT !.at = "failed"]
    <3>1. q \in Memory /\ q.at = "sign" /\ o \in Memory /\ o.at = "failed"
      BY <1>1, <2>1, <2>3 DEF Memory, Places, Numbers, Off, InMode
    <3>2. (Goes(p, q) \/ Goes(p, o)) /\ made' = made
      BY <1>7, <2>3 DEF LoadSeed
    <3> HIDE DEF q, o
    <3>3. PICK r \in Memory : Goes(p, r) /\ r.at \in {"sign", "failed"}
      BY <3>1, <3>2
    <3> QED
      BY <1>1, <2>1, <3>2, <3>3, StepIsCareful
  <2> QED
    BY <2>2, <2>3
<1>8. CASE DeleteSeed(p)
  <2> DEFINE r == [proc[p] EXCEPT !.at = "add"]
  <2>1. r \in Memory /\ r.at = "add" /\ r.seed = proc[p].seed
    BY <1>1 DEF Memory, Places
  <2>2. Goes(p, r) /\ UNCHANGED <<signing, made, forgotten>> /\ item' = None
    BY <1>8 DEF DeleteSeed
  <2> HIDE DEF r
  <2>3. item = None /\ Storing(p)
    BY <1>1, <1>8 DEF DeleteSeed, Relies, At, Storing
  <2> QED
    BY <1>1, <2>1, <2>2, <2>3, StepIsCareful
<1>9. CASE AddSeed(p)
  <2> DEFINE r == [proc[p] EXCEPT !.at = "sign"]
  <2>1. item = None /\ Storing(p)
    BY <1>1, <1>9 DEF AddSeed, Relies, At, Storing
  <2>2. r \in Memory /\ r.at = "sign"
    BY <1>1 DEF Memory, Places
  <2>3. Goes(p, r) /\ UNCHANGED <<signing, made, forgotten>> /\ item'.seed = proc[p].seed
    BY <1>9, <2>1 DEF AddSeed
  <2> HIDE DEF r
  <2> QED
    BY <1>1, <2>1, <2>2, <2>3, StepIsCareful
<1>10. CASE FindAttestationKey(p)
  <2>1. UNCHANGED <<signing, item, made, forgotten>> /\ At(p, "sign")
    BY <1>10 DEF FindAttestationKey
  <2>2. item # None /\ proc[p].seed = item.seed
    BY <1>1, <2>1 DEF Relies, At
  <2>3. CASE Goes(p, [proc[p] EXCEPT !.at = "certify"])
    <3> DEFINE r == [proc[p] EXCEPT !.at = "certify"]
    <3>1. r \in Memory /\ r.at = "certify" /\ Goes(p, r)
      BY <1>1, <2>3 DEF Memory, Places
    <3> HIDE DEF r
    <3> QED
      BY <1>1, <2>1, <3>1, StepIsCareful
  <2>4. ASSUME NEW k \in signing \cup {None}, k \in signing \/ ~Signs(p),
               Goes(p, [proc[p] EXCEPT !.at = "up", !.attest = k])
        PROVE  Careful /\ ProcsStay
    <3> DEFINE r == [proc[p] EXCEPT !.at = "up", !.attest = k]
    <3>1. r \in Memory /\ r.at = "up" /\ r.attest = k /\ r.seed = item.seed /\ r.mode = proc[p].mode
          /\ Goes(p, r)
      BY <1>1, <2>2, <2>4 DEF Memory, Places, Numbers
    <3> HIDE DEF r
    <3>2. r.mode = "verify" \/ r.attest \in signing'
      BY <2>1, <2>4, <3>1 DEF Signs
    <3> QED
      BY <1>1, <2>1, <2>2, <3>1, <3>2, StepIsCareful
  <2> QED
    BY <1>10, <2>3, <2>4 DEF FindAttestationKey, IsUp
<1>11. CASE GenerateAttestationKey(p)
  <2> DEFINE r == [proc[p] EXCEPT !.at = "up", !.attest = made]
  <2>1. item # None /\ proc[p].seed = item.seed
    BY <1>1, <1>11 DEF GenerateAttestationKey, Relies, At
  <2>2. r \in Memory /\ r.at = "up" /\ r.attest = made /\ r.seed = item.seed
    BY <1>1, <2>1 DEF Memory, Places, Numbers
  <2>3. Goes(p, r) /\ signing' = signing \cup {made} /\ made' = made + 1 /\ UNCHANGED <<item, forgotten>>
    BY <1>11 DEF GenerateAttestationKey, IsUp
  <2> HIDE DEF r
  <2>4. made' \in Nat /\ made' >= made
    BY <1>1, <2>3
  <2> QED
    BY <2>1, <2>2, <2>3, <2>4, StepIsCareful
<1> QED
  BY <1>3, <1>4, <1>5, <1>6, <1>7, <1>8, <1>9, <1>10, <1>11 DEF CustodyStep

\* The server refuses a changed key only where one was deleted: the pinned
\* key and the one it is shown are genuine both.
LEMMA JudgesHonestly ==
  ASSUME KInv, Honest, NEW s \in Sessions, NEW f, Judge(s, "serve", f),
         side \in [Sessions -> [Sides -> Knowledge]], side[s]["serve"].step # Done,
         Genuine(f.claim.endpoint, f.claim.key)
  PROVE  /\ \A e \in DOMAIN pins' : Genuine(e, pins'[e])
         /\ side'[s]["serve"].verdict = "rejected" /\ side'[s]["serve"].claim # Nobody => forgotten
         /\ \A t \in Sessions \ {s} : side'[t] = side[t]
<1> DEFINE c == f.claim
           me == side[s]["serve"]
           result(v, d) == [[me EXCEPT !.verdict = v, !.claim = d] EXCEPT !.step = @ + 1]
<1>1. me \in Knowledge /\ "serve" \in Sides
  BY Peers
<1>2. ASSUME NEW v, NEW d, side' = [side EXCEPT ![s]["serve"] = result(v, d)]
      PROVE  /\ side'[s]["serve"].verdict = v /\ side'[s]["serve"].claim = d
             /\ \A t \in Sessions \ {s} : side'[t] = side[t]
  <2>1. side'[s]["serve"] = result(v, d) /\ \A t \in Sessions \ {s} : side'[t] = side[t]
    BY <1>1, <1>2
  <2>2. result(v, d).verdict = v /\ result(v, d).claim = d
    BY <1>1 DEF Knowledge
  <2> QED
    BY <2>1, <2>2
<1>3. \A e \in DOMAIN pins : Genuine(e, pins[e])
  BY DEF Honest
<1>4. ~Known(c) /\ pins' = With(pins, c) => \A e \in DOMAIN pins' : Genuine(e, pins'[e])
  BY <1>3 DEF Known, With
<1> HIDE DEF me
<1>5. CASE ~Passes(s, "serve", f)
  <2>1. side' = [side EXCEPT ![s]["serve"] = result("rejected", Nobody)] /\ UNCHANGED pins
    BY <1>5 DEF Judge, Advances, me
  <2> HIDE DEF result
  <2> QED
    BY <1>2, <1>3, <2>1
<1>6. CASE Pin(c) /\ side' = [side EXCEPT ![s]["serve"] = result("attested", c)]
  <2>1. \A e \in DOMAIN pins' : Genuine(e, pins'[e])
    BY <1>3, <1>4, <1>6 DEF Pin
  <2> HIDE DEF result
  <2>2. /\ side'[s]["serve"].verdict = "attested"
        /\ \A t \in Sessions \ {s} : side'[t] = side[t]
    BY <1>2, <1>6
  <2> QED
    BY <2>1, <2>2
<1>7. CASE Refuse(c) /\ side' = [side EXCEPT ![s]["serve"] = result("rejected", IF Known(c) THEN c ELSE Nobody)]
  <2>1. \A e \in DOMAIN pins' : Genuine(e, pins'[e])
    BY <1>3, <1>4, <1>7 DEF Refuse
  <2>2. Known(c) => forgotten
    <3>1. SUFFICES ASSUME Known(c) PROVE forgotten
      OBVIOUS
    <3>2. Genuine(c.endpoint, pins[c.endpoint]) /\ Genuine(c.endpoint, c.key) /\ pins[c.endpoint] # c.key
      BY <1>3, <1>7, <3>1 DEF Refuse, Known
    <3> QED
      BY <3>2 DEF Genuine, KInv, OneKeyEach
  <2> HIDE DEF result
  <2> QED
    BY <1>2, <1>7, <2>1, <2>2
<1> QED
  BY <1>5, <1>6, <1>7 DEF Judge, Advances, me

LEMMA ReceiveIsHonest ==
  ASSUME KInv, HInv, Honest, NEW s \in Sessions, NEW x \in Sides, Receive(s, x), UNCHANGED custodyVars
  PROVE  Honest'
<1> DEFINE me == side[s][x]
<1>1. /\ me \in Knowledge /\ me.step # Done /\ me.step \in 1 .. 6 /\ ~Returned(s, x) /\ ~Sends(x, me.step)
      /\ side \in [Sessions -> [Sides -> Knowledge]] /\ SessionOK(s) /\ Judgment(s, x)
      /\ wire[s][Other(x)] \in Seq(FrameSet)
  BY Peers DEF HInv, HTyped, SessionOK, Receive, Returned, Knowledge, Done
<1>2. Careful /\ ProcsStay
  BY DEF KInv, Typed, custodyVars, Careful, ProcsStay, Presents, Signs, Storing
<1>3. HonestPeersAreKnown /\ forgotten' = forgotten
  BY DEF Honest, custodyVars
\* Steps that judge no claim.
<1>4. ASSUME NEW r, side' = [side EXCEPT ![s][x] = r], UNCHANGED pins,
             r.verdict = "rejected" => r.claim = Nobody \/ (r.verdict = me.verdict /\ r.claim = me.claim)
      PROVE  Honest'
  <2>1. \A t \in Sessions : side'[t]["serve"] = IF t = s /\ x = "serve" THEN r ELSE side[t]["serve"]
    BY <1>1, <1>4, Peers
  <2>2. HonestPeersAreKnown'
    BY <1>3, <1>4, <2>1 DEF HonestPeersAreKnown
  <2> QED
    BY <1>2, <1>4, <2>2, HonestStays
<1>5. me.step \in {First(Other(x)), First(Other(x)) + 2, First(Other(x)) + 4}
  BY <1>1, Schedule, Peers
<1>6. Phase(me.step) = "claim" <=> me.step = First(Other(x)) + 2
  BY <1>1, <1>5, Schedule, Peers
<1>7. CASE Pass(s, x) /\ UNCHANGED pins /\ Phase(me.step) = "claim"
  <2>1. me.claim = Nobody
    BY <1>1, <1>6, <1>7, Peers DEF Judgment
  <2> DEFINE v == IF x \in AllowUnattested THEN "unattested" ELSE "rejected"
             q == IF ~Verifies(me.mode) THEN me ELSE [me EXCEPT !.verdict = v]
             r == [q EXCEPT !.step = @ + 1]
  <2>2. side' = [side EXCEPT ![s][x] = r]
    BY <1>7 DEF Pass, Advances
  <2>3. r.claim = Nobody
    BY <1>1, <2>1 DEF Knowledge
  <2> HIDE DEF r
  <2> QED
    BY <1>4, <1>7, <2>2, <2>3
<1>8. CASE Errs(s, x) /\ UNCHANGED pins
  <2> DEFINE r == [me EXCEPT !.step = Done, !.verdict = "error"]
  <2>1. side' = [side EXCEPT ![s][x] = r]
    BY <1>1, <1>8 DEF Errs
  <2>2. r.verdict = "error"
    BY <1>1, Fails
  <2> HIDE DEF r
  <2> QED
    BY <1>4, <1>8, <2>1, <2>2
<1>9. CASE Advances(s, x, me) /\ UNCHANGED pins
  <2> DEFINE r == [me EXCEPT !.step = @ + 1]
  <2>1. side' = [side EXCEPT ![s][x] = r]
    BY <1>9 DEF Advances
  <2>2. r.verdict = me.verdict /\ r.claim = me.claim
    BY <1>1, GoesOn
  <2> HIDE DEF r
  <2> QED
    BY <1>4, <1>9, <2>1, <2>2
<1>10. CASE UNCHANGED pins /\ \E m : Advances(s, x, [me EXCEPT !.peer = m])
  <2>1. PICK m : Advances(s, x, [me EXCEPT !.peer = m])
    BY <1>10
  <2> DEFINE r == [[me EXCEPT !.peer = m] EXCEPT !.step = @ + 1]
  <2>2. side' = [side EXCEPT ![s][x] = r]
    BY <2>1 DEF Advances
  <2>3. r.verdict = me.verdict /\ r.claim = me.claim
    BY <1>1 DEF Knowledge
  <2> HIDE DEF r
  <2> QED
    BY <1>4, <1>10, <2>2, <2>3
<1>11. ASSUME Phase(me.step) = "claim", ExpectsClaim(me), wire[s][Other(x)] # <<>>,
              Judge(s, x, Head(wire[s][Other(x)]))
       PROVE  Honest'
  <2> DEFINE f == Head(wire[s][Other(x)])
  <2>1. CASE x = "serve"
    <3>1. s \notin lost
      BY <1>1, <1>11, Peers DEF SessionOK
    <3>2. /\ f.claim = ClaimOf(s, "dial") /\ Attests(side[s]["dial"].mode) /\ Live(s)
      <4>1. Other(x) \in Sides /\ Other(x) = "dial"
        BY <2>1, Peers
      <4>2. f = wire[s][Other(x)][1]
        BY <1>1, <1>11, Taken
      <4> QED
        BY <1>1, <1>6, <1>11, <3>1, <4>1, <4>2, Reads
    <3>3. At(s, "dialing") /\ side[s]["dial"].mode = proc[s].mode
      BY <1>1, <3>2 DEF SessionOK, Dials
    <3>4. Presents(s) /\ s \in Processes
      BY <3>2, <3>3, SessionAssumption DEF Presents, Signs, At, Attests
    <3>5. Genuine(f.claim.endpoint, f.claim.key)
      BY <3>2, <3>4 DEF Honest, ClaimOf
    <3> HIDE DEF f
    <3>6. /\ \A e \in DOMAIN pins' : Genuine(e, pins'[e])
          /\ side'[s]["serve"].verdict = "rejected" /\ side'[s]["serve"].claim # Nobody => forgotten
          /\ \A t \in Sessions \ {s} : side'[t] = side[t]
      BY <1>1, <1>11, <2>1, <3>5, JudgesHonestly DEF f
    <3>7. HonestPeersAreKnown'
      BY <1>3, <3>6 DEF HonestPeersAreKnown
    <3>8. \A e \in DOMAIN pins' : Genuine(e, pins[e])'
      BY <3>6 DEF custodyVars, Genuine
    <3>9. ASSUME NEW p \in Processes, Presents(p)'
          PROVE  Genuine(proc[p].seed, proc[p].attest)'
      <4>1. Presents(p)
        BY <3>9 DEF Presents, custodyVars, Signs
      <4>2. Genuine(proc[p].seed, proc[p].attest)
        BY <4>1 DEF Honest
      <4> QED
        BY <4>2 DEF Genuine, custodyVars
    <3> QED
      BY <3>7, <3>8, <3>9 DEF Honest
  <2>2. CASE x = "dial"
    <3>1. UNCHANGED pins /\ \A t \in Sessions : side'[t]["serve"] = side[t]["serve"]
      BY <1>1, <1>11, <2>2, Peers DEF Judge, Advances
    <3>2. HonestPeersAreKnown'
      BY <1>3, <3>1 DEF HonestPeersAreKnown
    <3> QED
      BY <1>2, <3>1, <3>2, HonestStays
  <2> QED
    BY <2>1, <2>2, Peers
<1> QED
  BY <1>7, <1>8, <1>9, <1>10, <1>11, <1>1, Schedule DEF Receive, Read

LEMMA HonestNext == KInv /\ HInv /\ FileIsPinned /\ Honest /\ [Next]_vars => Honest'
<1> SUFFICES ASSUME KInv, HInv, FileIsPinned, Honest, [Next]_vars
             PROVE  Honest'
  OBVIOUS
<1>1. /\ HonestPeersAreKnown /\ made \in Nat
      /\ side \in [Sessions -> [Sides -> Knowledge]] /\ proc \in [Processes -> Memory]
      /\ Sessions = Processes
  BY SessionAssumption DEF Honest, HInv, HTyped, KInv, Typed, Memory
<1>2. ASSUME NEW p \in Processes, Prepare(p) PROVE Honest'
  <2>1. Careful /\ ProcsStay
    BY <1>2, CustodyIsCareful DEF Prepare
  <2>2. UNCHANGED <<side, pins>>
    BY <1>2 DEF Prepare, handshakeVars
  <2>3. HonestPeersAreKnown'
    BY <1>1, <2>1, <2>2 DEF HonestPeersAreKnown, Careful
  <2> QED
    BY <2>1, <2>2, <2>3, HonestStays
<1>3. ASSUME NEW p \in Processes, Dial(p) PROVE Honest'
  <2> DEFINE r == [proc[p] EXCEPT !.at = "dialing"]
  <2>1. proc[p] \in Memory /\ proc[p].at = "up"
    BY <1>1, <1>3 DEF Dial, At
  <2>2. /\ r \in Memory /\ r.at = "dialing" /\ r.mode = proc[p].mode
        /\ r.seed = proc[p].seed /\ r.attest = proc[p].attest
    BY <2>1 DEF Memory, Places
  <2>3. Goes(p, r) /\ UNCHANGED <<signing, item, made, forgotten, pins>>
    BY <1>3 DEF Dial, Connect
  <2> HIDE DEF r
  <2>4. r.mode = "verify" \/ Presents(p)
    BY <2>1, <2>2 DEF Presents, Signs
  <2>5. Careful /\ ProcsStay
    BY <1>1, <2>2, <2>3, <2>4, StepIsCareful
  <2>6. \A s \in Sessions : side'[s]["serve"] = side[s]["serve"] \/ side'[s]["serve"] = Begin(serverMode)
    BY <1>1, <1>3, Peers DEF Dial, Connect
  <2>7. Begin(serverMode).verdict = "none"
    BY DEF Begin
  <2>8. HonestPeersAreKnown'
    BY <1>1, <2>3, <2>6, <2>7 DEF HonestPeersAreKnown
  <2> QED
    BY <2>3, <2>5, <2>8, HonestStays
<1>4. ASSUME NEW p \in Processes, End(p) PROVE Honest'
  <2>1. Off \in Memory /\ Off.at = "off"
    BY OffIsMemory
  <2>2. Goes(p, Off) /\ UNCHANGED <<signing, item, made, forgotten, pins>>
    BY <1>4 DEF End, Stop, handshakeVars
  <2>3. Careful /\ ProcsStay
    BY <1>1, <2>1, <2>2, StepIsCareful
  <2>4. \A s \in Sessions : side'[s]["serve"] = side[s]["serve"]
    BY <1>1, <1>4, Peers DEF End, handshakeVars
  <2>5. HonestPeersAreKnown'
    BY <1>1, <2>2, <2>4 DEF HonestPeersAreKnown
  <2> QED
    BY <2>2, <2>3, <2>5, HonestStays
<1>5. ASSUME NEW s \in Sessions, NEW x \in Sides, Shake(s, x) PROVE Honest'
  <2>1. UNCHANGED custodyVars
    BY <1>5 DEF Shake
  <2>2. CASE Receive(s, x)
    BY <2>1, <2>2, ReceiveIsHonest
  <2>3. CASE Send(s, x, ClaimOf(s, x))
    <3>1. Careful /\ ProcsStay
      BY <1>1, <2>1 DEF KInv, Typed, custodyVars, Careful, ProcsStay, Presents, Signs, Storing
    <3>2. UNCHANGED <<pins, forgotten>>
      BY <2>1, <2>3 DEF Send, custodyVars
    <3>3. PICK r \in Knowledge :
            /\ side' = [side EXCEPT ![s][x] = r]
            /\ r.verdict = "error" \/ (r.verdict = side[s][x].verdict /\ r.claim = side[s][x].claim)
      <4>1. side[s][x] \in Knowledge /\ side[s][x].step # Done
        BY <1>1, <2>3 DEF Send, Returned
      <4>2. Advances(s, x, side[s][x]) \/ Errs(s, x)
        BY <2>3 DEF Send
      <4>3. CASE Advances(s, x, side[s][x])
        <5> DEFINE r == [side[s][x] EXCEPT !.step = @ + 1]
        <5>1. r \in Knowledge /\ r.verdict = side[s][x].verdict /\ r.claim = side[s][x].claim
          BY <4>1, GoesOn
        <5>2. side' = [side EXCEPT ![s][x] = r]
          BY <4>3 DEF Advances
        <5> HIDE DEF r
        <5> QED
          BY <5>1, <5>2
      <4>4. CASE Errs(s, x)
        <5> DEFINE r == [side[s][x] EXCEPT !.step = Done, !.verdict = "error"]
        <5>1. r \in Knowledge /\ r.verdict = "error"
          BY <4>1, Fails
        <5>2. side' = [side EXCEPT ![s][x] = r]
          BY <1>1, <4>4 DEF Errs
        <5> HIDE DEF r
        <5> QED
          BY <5>1, <5>2
      <4> QED
        BY <4>2, <4>3, <4>4
    <3>4. \A t \in Sessions : side'[t]["serve"] = IF t = s /\ x = "serve" THEN r ELSE side[t]["serve"]
      BY <1>1, <3>3, Peers
    <3>5. HonestPeersAreKnown'
      BY <1>1, <3>2, <3>3, <3>4 DEF HonestPeersAreKnown
    <3> QED
      BY <3>1, <3>2, <3>5, HonestStays
  <2> QED
    BY <1>5, <2>2, <2>3 DEF Shake
<1>6. CASE Forget
  <2>1. /\ UNCHANGED <<item, made, proc, pins>> /\ forgotten' = TRUE
    BY <1>6 DEF Forget, ForgetAttestationKey, handshakeVars
  <2>2. Careful /\ ProcsStay
    BY <1>1, <2>1 DEF Careful, ProcsStay, Presents, Signs, Storing
  <2>3. HonestPeersAreKnown'
    BY <2>1 DEF HonestPeersAreKnown
  <2> QED
    BY <2>1, <2>2, <2>3, HonestStays
<1>7. CASE Restart
  <2>1. UNCHANGED custodyVars /\ pins' = file
    BY <1>7 DEF Restart, ServerRestart
  <2>2. Careful /\ ProcsStay
    BY <1>1, <2>1 DEF KInv, Typed, custodyVars, Careful, ProcsStay, Presents, Signs, Storing
  <2>3. \A e \in DOMAIN pins' : e \in DOMAIN pins /\ pins'[e] = pins[e]
    BY <2>1 DEF FileIsPinned
  <2>4. \A s \in Sessions : side'[s]["serve"] = Closed
    BY <1>1, <1>7, Peers DEF Restart, ServerRestart
  <2>5. Closed.verdict = "none"
    BY DEF Closed, Begin
  <2>6. HonestPeersAreKnown'
    BY <2>4, <2>5 DEF HonestPeersAreKnown
  <2> QED
    BY <2>2, <2>3, <2>6, HonestStays
<1>8. CASE UNCHANGED vars
  <2>1. Careful /\ ProcsStay /\ UNCHANGED <<side, pins, forgotten>>
    BY <1>1, <1>8 DEF vars, handshakeVars, KInv, Typed, custodyVars, Careful, ProcsStay, Presents, Signs, Storing
  <2>2. HonestPeersAreKnown'
    BY <1>1, <2>1 DEF HonestPeersAreKnown
  <2> QED
    BY <2>1, <2>2, HonestStays
<1> QED
  BY <1>1, <1>2, <1>3, <1>4, <1>5, <1>6, <1>7, <1>8 DEF Next

(* A process that kept its attestation key claims the key that the server  *)
(* pinned for its endpoint (Policy).                                       *)
THEOREM HonestInductive == Spec => []Honest
<1>1. Init => Honest
  BY DEF Init, CustodyInit, HandshakeInit, Honest, Presents, Off, HonestPeersAreKnown, Closed, Begin, Sides
<1> QED
  BY <1>1, HonestNext, SessionsInductive, StoreInductive, PTL DEF Spec

\* A persistent endpoint is refused for a changed key only after its key was
\* deleted (KnownPeers.Pin), wherever its processes were ended and whatever
\* ran beside them.
THEOREM HonestKnown == Spec => []HonestPeersAreKnown
<1>1. Honest => HonestPeersAreKnown
  BY DEF Honest
<1> QED
  BY <1>1, HonestInductive, PTL

-----------------------------------------------------------------------------
(* Nobody waits for a frame that is not to come: what a side has sent and  *)
(* its peer is still to read is on the wire, whatever was read before it.  *)

ResultPending(s, x) == side[s][x].step > First(x) + 4 /\ side[s][Other(x)].step <= First(x) + 4
Owed(s, x) ==
  (IF HelloPending(s, x) THEN 1 ELSE 0) + (IF ClaimPending(s, x) THEN 1 ELSE 0)
    + (IF ResultPending(s, x) THEN 1 ELSE 0)

Delivers(s) == Live(s) => \A x \in Sides : Len(wire[s][x]) >= Owed(s, x)
WInv == \A s \in Sessions : Delivers(s)

\* A side that has not returned can send, need not read, finds a frame, or
\* finds that none will come.
CanGoOn(s, x) ==
  /\ ~Returned(s, x)
  /\ \/ Sends(x, side[s][x].step)
     \/ Phase(side[s][x].step) = "claim" /\ ~ExpectsClaim(side[s][x])
     \/ wire[s][Other(x)] # <<>>
     \/ s \in lost \/ Returned(s, Other(x))

NoStall == \A s \in Sessions : ~Over(s) => \E x \in Sides : CanGoOn(s, x)

\* Each of the side's steps takes it further, and leaves its peer where it is.
GoesFurther == \A s \in Sessions, x \in Sides : Shake(s, x) =>
  side'[s][x].step \in side[s][x].step + 1 .. Done /\ side'[s][Other(x)] = side[s][Other(x)]

\* What a step of a side does with what it knows, and with the wire.
Moves(s, x, r) ==
  /\ side' = [side EXCEPT ![s][x] = r]
  /\ r.mode = side[s][x].mode
  /\ r.step \in side[s][x].step + 1 .. Done
  /\ s \notin lost => r.step = side[s][x].step + 1

LEMMA MovesOn ==
  ASSUME NEW me \in Knowledge, NEW r \in Knowledge, me.step # Done, r.step = me.step + 1
  PROVE  r.step \in me.step + 1 .. Done
BY DEF Knowledge, Done

LEMMA Sending ==
  ASSUME KInv, HInv, NEW s \in Sessions, NEW x \in Sides, Send(s, x, ClaimOf(s, x))
  PROVE  /\ \E r \in Knowledge : Moves(s, x, r)
         /\ s \notin lost => wire' = [wire EXCEPT ![s][x] = @ \o Frames(s, x, ClaimOf(s, x))]
<1> DEFINE me == side[s][x]
<1>1. me \in Knowledge /\ me.step # Done /\ me.step \in 1 .. 6
  BY DEF HInv, HTyped, Send, Returned, Knowledge, Done
<1>2. CASE side' = [side EXCEPT ![s][x] = [me EXCEPT !.step = @ + 1]]
  <2> DEFINE r == [me EXCEPT !.step = @ + 1]
  <2>1. r \in Knowledge /\ r.step = me.step + 1 /\ r.mode = me.mode
    BY <1>1, GoesOn
  <2>2. side' = [side EXCEPT ![s][x] = r]
    BY <1>2
  <2> HIDE DEF r
  <2>3. r.step \in me.step + 1 .. Done
    BY <1>1, <2>1, MovesOn
  <2>4. Moves(s, x, r)
    BY <2>1, <2>2, <2>3 DEF Moves
  <2> QED
    BY <2>1, <2>4 DEF Send
<1>3. CASE s \in lost /\ side' = [side EXCEPT ![s][x] = [me EXCEPT !.step = Done, !.verdict = "error"]]
  <2> DEFINE r == [me EXCEPT !.step = Done, !.verdict = "error"]
  <2>1. r \in Knowledge /\ r.step = Done /\ r.mode = me.mode
    BY <1>1, Fails
  <2>2. side' = [side EXCEPT ![s][x] = r]
    BY <1>3
  <2> HIDE DEF r
  <2>3. r.step \in me.step + 1 .. Done
    BY <1>1, <2>1 DEF Done
  <2>4. Moves(s, x, r)
    BY <1>3, <2>1, <2>2, <2>3 DEF Moves
  <2> QED
    BY <1>3, <2>1, <2>4
<1> QED
  BY <1>2, <1>3 DEF Send, Advances, Errs

\* A frame that is read was pending where its phase asks for it.
LEMMA Receiving ==
  ASSUME KInv, HInv, NEW s \in Sessions, NEW x \in Sides, NEW y \in Sides, y = Other(x), Receive(s, x)
  PROVE  /\ \E r \in Knowledge : Moves(s, x, r)
         /\ \/ wire' = wire
            \/ /\ wire[s][y] # <<>>
               /\ wire' = [wire EXCEPT ![s][y] = Tail(@)]
               /\ s \notin lost /\ side[s][x].step = First(y) => HelloPending(s, y)
               /\ s \notin lost /\ side[s][x].step = First(y) + 2 => ClaimPending(s, y)
<1> DEFINE me == side[s][x]
           from == wire[s][y]
           skips == Phase(me.step) = "claim" /\ ~ExpectsClaim(me)
<1>1. /\ me \in Knowledge /\ me.step # Done /\ me.step \in 1 .. 6 /\ ~Returned(s, x) /\ ~Sends(x, me.step)
      /\ from \in Seq(FrameSet) /\ SessionOK(s)
      /\ Other(y) = x
  BY Peers DEF HInv, HTyped, Receive, Returned, Knowledge, Done
<1>2. /\ me.step \in {First(y), First(y) + 2, First(y) + 4}
      /\ Phase(me.step) = (IF me.step = First(y) THEN "hello"
                           ELSE IF me.step = First(y) + 2 THEN "claim" ELSE "result")
      /\ First(y) \in {1, 2}
  BY <1>1, Schedule, Peers
<1>3. s \in lost => from = <<>>
  BY <1>1 DEF SessionOK
\* It goes on.
<1>4. ASSUME NEW q \in Knowledge, q.step = me.step, q.mode = me.mode,
             side' = [side EXCEPT ![s][x] = [q EXCEPT !.step = @ + 1]]
      PROVE  \E r \in Knowledge : Moves(s, x, r)
  <2> DEFINE r == [q EXCEPT !.step = @ + 1]
  <2>1. r \in Knowledge /\ r.step = q.step + 1 /\ r.mode = q.mode
    BY <1>1, <1>4, GoesOn
  <2>2. side' = [side EXCEPT ![s][x] = r]
    BY <1>4
  <2> HIDE DEF r
  <2>3. r.step \in me.step + 1 .. Done
    BY <1>1, <1>4, <2>1, MovesOn
  <2>4. Moves(s, x, r)
    BY <1>4, <2>1, <2>2, <2>3 DEF Moves
  <2> QED
    BY <2>1, <2>4
<1>5. CASE skips /\ Pass(s, x) /\ UNCHANGED <<wire, pins, file, pinned>>
  <2> DEFINE v == IF x \in AllowUnattested THEN "unattested" ELSE "rejected"
             q == IF ~Verifies(me.mode) THEN me ELSE [me EXCEPT !.verdict = v]
  <2>1. side' = [side EXCEPT ![s][x] = [q EXCEPT !.step = @ + 1]]
    BY <1>5 DEF Pass, Advances
  <2>2. q \in Knowledge /\ q.step = me.step /\ q.mode = me.mode
    <3>1. v \in Verdicts
      BY DEF Verdicts
    <3> HIDE DEF v
    <3> QED
      BY <1>1, <3>1 DEF Knowledge
  <2> HIDE DEF q, me
  <2> QED
    BY <1>4, <1>5, <2>1, <2>2
<1>6. CASE ~skips /\ from # <<>> /\ Read(s, x, Head(from)) /\ wire' = [wire EXCEPT ![s][y] = Tail(@)]
  <2>1. s \notin lost /\ Head(from) = from[1] /\ Head(from) \in FrameSet
    BY <1>1, <1>3, <1>6, Taken
  <2>2. CASE me.step = First(y)
    <3> DEFINE q == [me EXCEPT !.peer = Head(from).mode]
    <3>1. HelloPending(s, y) /\ Head(from).kind = "hello" /\ Head(from).mode = side[s][y].mode
      BY <1>1, <1>6, <2>1, <2>2, Reads
    <3>2. side' = [side EXCEPT ![s][x] = [q EXCEPT !.step = @ + 1]]
      BY <1>2, <1>6, <2>2, <3>1 DEF Read, Advances
    <3>3. side[s][y].mode \in HModes
      BY DEF HInv, HTyped, Knowledge
    <3>4. q \in Knowledge /\ q.step = me.step /\ q.mode = me.mode
      BY <1>1, <3>1, <3>3 DEF Knowledge
    <3>5. me.step # First(y) + 2
      BY <1>2, <2>2
    <3> HIDE DEF q, me
    <3> QED
      BY <1>4, <1>6, <3>1, <3>2, <3>4, <3>5 DEF me
  <2>3. CASE me.step = First(y) + 2
    <3>1. me.step # First(y) /\ ExpectsClaim(me)
      BY <1>2, <1>6, <2>3
    <3>2. /\ Head(from).claim = ClaimOf(s, y) /\ side[s][y].step > First(y) + 2
          /\ Attests(side[s][y].mode)
      BY <1>1, <1>6, <2>1, <2>3, <3>1, Reads
    <3>3. Judge(s, x, Head(from))
      BY <1>2, <1>6, <2>3, <3>1 DEF Read
    <3> DEFINE f == Head(from)
    <3>4. f.claim = ClaimOf(s, y) /\ Judge(s, x, f)
      BY <3>2, <3>3
    <3> HIDE DEF f
    <3>5. PICK r \in Knowledge :
           /\ side' = [side EXCEPT ![s][x] = r]
           /\ r.step = me.step + 1 /\ r.mode = me.mode
      BY <1>1, <2>3, <3>1, <3>4, JudgesWell
    <3>6. ClaimPending(s, y)
      BY <1>1, <1>2, <2>3, <3>2 DEF ClaimPending
    <3>7. Moves(s, x, r)
      BY <1>1, <3>5, MovesOn DEF Moves
    <3> HIDE DEF me
    <3> QED
      BY <1>6, <3>1, <3>6, <3>7 DEF me
  <2>4. CASE me.step = First(y) + 4
    <3>1. me.step # First(y) /\ me.step # First(y) + 2
      BY <1>2, <2>4
    <3>2. side' = [side EXCEPT ![s][x] = [me EXCEPT !.step = @ + 1]]
      BY <1>2, <1>6, <3>1 DEF Read, Advances
    <3> HIDE DEF me
    <3> QED
      BY <1>1, <1>4, <1>6, <3>1, <3>2 DEF me
  <2> QED
    BY <1>2, <2>2, <2>3, <2>4
<1>7. CASE ~skips /\ from = <<>> /\ (s \in lost \/ Returned(s, y))
           /\ (IF Phase(me.step) = "result" THEN Advances(s, x, me) ELSE Errs(s, x))
           /\ UNCHANGED <<wire, pins, file, pinned>>
  <2>1. CASE Phase(me.step) = "result"
    <3>1. side' = [side EXCEPT ![s][x] = [me EXCEPT !.step = @ + 1]]
      BY <1>7, <2>1 DEF Advances
    <3> HIDE DEF me
    <3> QED
      BY <1>1, <1>4, <1>7, <3>1
  <2>2. CASE Phase(me.step) # "result"
    <3> DEFINE r == [me EXCEPT !.step = Done, !.verdict = "error"]
    <3>1. s \in lost
      <4>1. me.step = First(y) \/ (me.step = First(y) + 2 /\ ExpectsClaim(me))
        BY <1>2, <1>7, <2>2
      <4> QED
        BY <1>1, <1>7, <4>1, Reads
    <3>2. side' = [side EXCEPT ![s][x] = r]
      BY <1>7, <2>2 DEF Errs
    <3>3. r \in Knowledge /\ r.step = Done /\ r.mode = me.mode
      BY <1>1, Fails
    <3> HIDE DEF r
    <3>4. r.step \in me.step + 1 .. Done
      BY <1>1, <3>3 DEF Done
    <3>5. Moves(s, x, r)
      BY <3>1, <3>2, <3>3, <3>4 DEF Moves
    <3> QED
      BY <1>7, <3>3, <3>5
  <2> QED
    BY <2>1, <2>2
<1> QED
  BY <1>5, <1>6, <1>7 DEF Receive

\* Each of its steps takes a side further, to at most its end.
LEMMA ShakeGoesFurther == KInv /\ HInv => GoesFurther
<1> SUFFICES ASSUME KInv, HInv, NEW s \in Sessions, NEW x \in Sides, Shake(s, x)
             PROVE  /\ side'[s][x].step \in side[s][x].step + 1 .. Done
                    /\ side'[s][Other(x)] = side[s][Other(x)]
  BY DEF GoesFurther
<1>1. PICK r \in Knowledge : Moves(s, x, r)
  BY Peers, Sending, Receiving DEF Shake
<1> QED
  BY <1>1, Peers DEF Moves, HInv, HTyped

\* Where x sends, one more is owed at most, and the frame is sent.
LEMMA SendDelivers ==
  ASSUME KInv, HInv, WInv, NEW s \in Sessions, NEW x \in Sides, Send(s, x, ClaimOf(s, x)), s \notin lost,
         Live(s)
  PROVE  \A z \in Sides : Len(wire'[s][z]) >= Owed(s, z)'
<1> DEFINE me == side[s][x]
           y == Other(x)
           n == me.step
           m == side[s][y].step
           w == wire[s][x]
           f == Frames(s, x, ClaimOf(s, x))
<1>1. /\ n \in 1 .. 6 /\ m \in 1 .. 7 /\ y \in Sides /\ x # y /\ Other(y) = x /\ Sends(x, n)
      /\ w \in Seq(FrameSet) /\ me.mode \in HModes
      /\ side \in [Sessions -> [Sides -> Knowledge]] /\ wire \in [Sessions -> [Sides -> Seq(FrameSet)]]
  BY Peers DEF HInv, HTyped, Send, Returned, Knowledge, Done
<1>2. PICK r \in Knowledge : Moves(s, x, r)
  BY Sending
<1>3. wire' = [wire EXCEPT ![s][x] = w \o f]
  BY Sending
<1>4. /\ n \in {First(x), First(x) + 2, First(x) + 4}
      /\ (x = "dial" /\ n \in {1, 3, 5}) \/ (x = "serve" /\ n \in {2, 4, 6})
  BY <1>1, Schedule, Peers
<1>5. Len(w) >= Owed(s, x) /\ Len(wire[s][y]) >= Owed(s, y) /\ Len(wire[s][y]) \in Nat
  BY <1>1 DEF WInv, Delivers
<1>6. /\ wire'[s][x] = w \o f /\ wire'[s][y] = wire[s][y]
      /\ side'[s][x].step = n + 1 /\ side'[s][x].mode = me.mode /\ side'[s][y] = side[s][y]
  BY <1>1, <1>2, <1>3 DEF Moves
<1>7. Len(w \o f) = IF n = First(x) + 2 /\ ~Attests(me.mode) THEN Len(w) ELSE Len(w) + 1
  <2>1. CASE n = First(x) + 2 /\ ~Attests(me.mode)
    <3>1. f = <<>>
      BY <1>1, <2>1, Schedule, Peers DEF Frames
    <3> QED
      BY <1>1, <2>1, <3>1, SentNothing
  <2>2. CASE ~(n = First(x) + 2 /\ ~Attests(me.mode))
    <3>1. PICK h : f = <<h>>
      BY <1>1, <1>4, <2>2, Schedule, Peers DEF Frames
    <3> HIDE DEF f
    <3>2. Len(w \o <<h>>) = Len(w) + 1
      BY <1>1
    <3> QED
      BY <2>2, <3>1, <3>2
  <2> QED
    BY <2>1, <2>2
<1> HIDE DEF f
<1>8. Len(wire'[s][x]) >= Owed(s, x)'
  <2>1. Owed(s, x)' <= IF n = First(x) + 2 /\ ~Attests(me.mode) THEN Owed(s, x) ELSE Owed(s, x) + 1
    <3>1. /\ HelloPending(s, x)' => HelloPending(s, x) \/ n = First(x)
          /\ ClaimPending(s, x)' => ClaimPending(s, x) \/ (n = First(x) + 2 /\ Attests(me.mode))
          /\ ResultPending(s, x)' => ResultPending(s, x) \/ n = First(x) + 4
      BY <1>1, <1>4, <1>6, Peers DEF HelloPending, ClaimPending, ResultPending
    <3>2. First(x) \in {1, 2}
      BY Peers
    <3> QED
      BY <1>1, <3>1, <3>2 DEF Owed
  <2>2. Owed(s, x) \in Nat /\ Owed(s, x)' \in Nat /\ Len(w) \in Nat
    BY <1>1 DEF Owed
  <2> HIDE DEF me, n, w
  <2> QED
    BY <1>5, <1>6, <1>7, <2>1, <2>2
<1>9. Owed(s, y)' = Owed(s, y)
  <2>1. /\ HelloPending(s, y)' <=> HelloPending(s, y)
        /\ ClaimPending(s, y)' <=> ClaimPending(s, y)
        /\ ResultPending(s, y)' <=> ResultPending(s, y)
    BY <1>1, <1>4, <1>6, Peers DEF HelloPending, ClaimPending, ResultPending
  <2> QED
    BY <2>1 DEF Owed
<1>10. Len(wire'[s][y]) >= Owed(s, y)'
  BY <1>5, <1>6, <1>9
<1> QED
  BY <1>1, <1>8, <1>10, Peers

\* Where x reads, what it was owed next is off the wire; where it does not,
\* it is owed no more.
LEMMA ReceiveDelivers ==
  ASSUME KInv, HInv, WInv, NEW s \in Sessions, NEW x \in Sides, Receive(s, x), s \notin lost, Live(s)
  PROVE  \A z \in Sides : Len(wire'[s][z]) >= Owed(s, z)'
<1> DEFINE me == side[s][x]
           y == Other(x)
           n == side[s][y].step
           m == me.step
           w == wire[s][y]
<1>1. /\ m \in 1 .. 6 /\ n \in 1 .. 7 /\ y \in Sides /\ x # y /\ Other(y) = x /\ ~Sends(x, m)
      /\ w \in Seq(FrameSet) /\ First(y) \in {1, 2}
      /\ side \in [Sessions -> [Sides -> Knowledge]] /\ wire \in [Sessions -> [Sides -> Seq(FrameSet)]]
  BY Peers DEF HInv, HTyped, Receive, Returned, Knowledge, Done
<1>2. PICK r \in Knowledge : Moves(s, x, r)
  BY <1>1, Receiving
<1>3. \/ wire' = wire
      \/ /\ w # <<>> /\ wire' = [wire EXCEPT ![s][y] = Tail(w)]
         /\ m = First(y) => HelloPending(s, y)
         /\ m = First(y) + 2 => ClaimPending(s, y)
  BY <1>1, Receiving
<1>4. /\ m \in {First(y), First(y) + 2, First(y) + 4}
      /\ (x = "dial" /\ m \in {2, 4, 6}) \/ (x = "serve" /\ m \in {1, 3, 5})
  BY <1>1, Schedule, Peers
<1>5. Len(w) >= Owed(s, y) /\ Len(wire[s][x]) >= Owed(s, x)
  BY <1>1 DEF WInv, Delivers
<1>6. side'[s][x].step = m + 1 /\ side'[s][x].mode = me.mode /\ side'[s][y] = side[s][y]
  BY <1>1, <1>2 DEF Moves
<1>7. wire'[s][x] = wire[s][x] /\ Owed(s, x)' = Owed(s, x)
  <2>1. /\ HelloPending(s, x)' <=> HelloPending(s, x)
        /\ ClaimPending(s, x)' <=> ClaimPending(s, x)
        /\ ResultPending(s, x)' <=> ResultPending(s, x)
    BY <1>1, <1>4, <1>6, Peers DEF HelloPending, ClaimPending, ResultPending
  <2>2. wire'[s][x] = wire[s][x]
    BY <1>1, <1>3
  <2> QED
    BY <2>1, <2>2 DEF Owed
<1>8. Len(wire'[s][y]) >= Owed(s, y)'
  <2>1. /\ HelloPending(s, y)' <=> HelloPending(s, y) /\ m # First(y)
        /\ ClaimPending(s, y)' <=> ClaimPending(s, y) /\ m # First(y) + 2
        /\ ResultPending(s, y)' <=> ResultPending(s, y) /\ m # First(y) + 4
    BY <1>1, <1>4, <1>6, Peers DEF HelloPending, ClaimPending, ResultPending
  <2>2. Owed(s, y) \in Nat /\ Owed(s, y)' \in Nat /\ Owed(s, y)' <= Owed(s, y) /\ Len(w) \in Nat
    BY <1>1, <2>1 DEF Owed
  <2>3. CASE wire' = wire
    BY <1>5, <2>2, <2>3
  <2>4. CASE /\ w # <<>> /\ wire' = [wire EXCEPT ![s][y] = Tail(w)]
             /\ m = First(y) => HelloPending(s, y)
             /\ m = First(y) + 2 => ClaimPending(s, y)
    <3>1. wire'[s][y] = Tail(w) /\ Len(Tail(w)) = Len(w) - 1 /\ Len(w) >= 1
      BY <1>1, <2>4, Taken
    <3>2. Owed(s, y)' = 0 \/ Owed(s, y)' + 1 = Owed(s, y)
      <4>1. CASE m = First(y) + 4
        <5>1. ~HelloPending(s, y) /\ ~ClaimPending(s, y)
          BY <1>1, <4>1 DEF HelloPending, ClaimPending
        <5> QED
          BY <2>1, <4>1, <5>1 DEF Owed
      <4>2. CASE m # First(y) + 4
        <5>1. (m = First(y) /\ m # First(y) + 2) \/ (m = First(y) + 2 /\ m # First(y))
          BY <1>1, <1>4, <4>2
        <5> HIDE DEF m
        <5> QED
          BY <2>1, <2>4, <4>2, <5>1 DEF Owed
      <4> QED
        BY <4>1, <4>2
    <3> HIDE DEF w
    <3> QED
      BY <1>5, <2>2, <3>1, <3>2
  <2> QED
    BY <1>3, <2>3, <2>4
<1> QED
  BY <1>1, <1>5, <1>7, <1>8, Peers

\* A session is served as it was where nothing of it changed.
LEMMA DeliversStill ==
  ASSUME NEW s \in Sessions, Delivers(s), side'[s] = side[s], wire'[s] = wire[s], s \in lost' <=> s \in lost
  PROVE  Delivers(s)'
<1>1. Live(s)' <=> Live(s)
  BY DEF Live, Over, Returned
<1>2. \A x \in Sides : Owed(s, x)' = Owed(s, x)
  BY DEF Owed, HelloPending, ClaimPending, ResultPending
<1> QED
  BY <1>1, <1>2 DEF Delivers

LEMMA WireInit == Init => WInv
<1> SUFFICES ASSUME Init, NEW s \in Sessions PROVE ~Live(s)
  BY DEF WInv, Delivers
<1>1. \A x \in Sides : side[s][x] = Closed
  BY DEF Init, HandshakeInit
<1> QED
  BY <1>1, ClosedIsKnowledge, Peers DEF Live, Over, Returned

LEMMA WireNext == KInv /\ HInv /\ WInv /\ [Next]_vars => WInv'
<1> SUFFICES ASSUME KInv, HInv, WInv, [Next]_vars, NEW s \in Sessions PROVE Delivers(s)'
  BY DEF WInv
<1>1. /\ Delivers(s)
      /\ side \in [Sessions -> [Sides -> Knowledge]] /\ wire \in [Sessions -> [Sides -> Seq(FrameSet)]]
  BY DEF WInv, HInv, HTyped
<1>2. ASSUME UNCHANGED <<side, wire, lost>> PROVE Delivers(s)'
  BY <1>1, <1>2, DeliversStill
<1>3. ASSUME NEW p \in Processes, Dial(p) PROVE Delivers(s)'
  <2> DEFINE b == [x \in Sides |-> Begin(IF x = "dial" THEN proc[p].mode ELSE serverMode)]
  <2>1. /\ side' = [side EXCEPT ![p] = b]
        /\ wire' = [wire EXCEPT ![p] = [x \in Sides |-> <<>>]] /\ lost' = lost \ {p}
    BY <1>3 DEF Dial, Connect
  <2>2. CASE s # p
    <3> HIDE DEF b
    <3>1. side'[s] = side[s] /\ wire'[s] = wire[s] /\ (s \in lost' <=> s \in lost)
      BY <1>1, <2>1, <2>2
    <3> QED
      BY <1>1, <3>1, DeliversStill
  <2>3. CASE s = p
    <3>1. \A x \in Sides : b[x].step = 1
      BY DEF Begin
    <3> HIDE DEF b
    <3>2. \A x \in Sides : side'[s][x].step = 1 /\ wire'[s][x] = <<>>
      BY <1>1, <2>1, <2>3, <3>1
    <3>3. \A x \in Sides : Owed(s, x)' = 0
      BY <3>2, Peers DEF Owed, HelloPending, ClaimPending, ResultPending
    <3> QED
      BY <3>2, <3>3 DEF Delivers
  <2> QED
    BY <2>2, <2>3
<1>4. ASSUME NEW p \in Processes, End(p) PROVE Delivers(s)'
  <2>1. CASE Over(p)
    BY <1>2, <1>4, <2>1 DEF End, handshakeVars
  <2>2. CASE ~Over(p)
    <3>1. /\ side' = [side EXCEPT ![p]["dial"] = Closed]
          /\ wire' = [wire EXCEPT ![p] = [x \in Sides |-> <<>>]]
          /\ lost' = lost \cup {p}
      BY <1>4, <2>2 DEF End
    <3>2. CASE s = p
      BY <3>1, <3>2 DEF Delivers, Live
    <3>3. CASE s # p
      <4>1. side'[s] = side[s] /\ wire'[s] = wire[s] /\ (s \in lost' <=> s \in lost)
        BY <1>1, <3>1, <3>3
      <4> QED
        BY <1>1, <4>1, DeliversStill
    <3> QED
      BY <3>2, <3>3
  <2> QED
    BY <2>1, <2>2
<1>5. ASSUME Restart PROVE Delivers(s)'
  <2>1. /\ side' = [t \in Sessions |-> [side[t] EXCEPT !["serve"] = Closed]]
        /\ lost' = lost \cup {t \in Sessions : ~Over(t)}
    BY <1>5 DEF Restart, ServerRestart
  <2>2. side'[s]["serve"] = Closed /\ side'[s]["dial"] = side[s]["dial"]
    BY <1>1, <2>1, Peers
  <2>3. Over(s) => Over(s)'
    BY <2>2, ClosedIsKnowledge DEF Over, Returned
  <2> QED
    BY <2>1, <2>3 DEF Delivers, Live
<1>6. ASSUME NEW p \in Processes, NEW x \in Sides, Shake(p, x) PROVE Delivers(s)'
  <2>0. p \in Sessions /\ lost' = lost /\ ~Returned(p, x)
    BY <1>6, SessionAssumption DEF Shake, Send, Receive
  <2>1. PICK r \in Knowledge : Moves(p, x, r)
    BY <1>6, <2>0, Peers, Sending, Receiving DEF Shake
  <2>2. CASE s # p
    <3>1. side'[s] = side[s]
      BY <1>1, <2>1, <2>2 DEF Moves
    <3>2. wire'[s] = wire[s]
      BY <1>1, <1>6, <2>2 DEF Shake, Send, Receive
    <3> QED
      BY <1>1, <2>0, <3>1, <3>2, DeliversStill
  <2>3. CASE s = p
    <3>1. Live(s)' => s \notin lost /\ Live(s)
      BY <2>0, <2>3, Peers DEF Live, Over
    <3> QED
      BY <1>6, <2>3, <3>1, SendDelivers, ReceiveDelivers DEF Shake, Delivers
  <2> QED
    BY <2>2, <2>3
<1>7. ASSUME NEW p \in Processes, Prepare(p) PROVE Delivers(s)'
  BY <1>2, <1>7 DEF Prepare, handshakeVars
<1>8. ASSUME Forget PROVE Delivers(s)'
  BY <1>2, <1>8 DEF Forget, handshakeVars
<1>9. ASSUME UNCHANGED vars PROVE Delivers(s)'
  BY <1>2, <1>9 DEF vars, handshakeVars
<1> QED
  BY <1>3, <1>4, <1>5, <1>6, <1>7, <1>8, <1>9 DEF Next

THEOREM WireInductive == Spec => []WInv
BY WireInit, WireNext, SessionsInductive, PTL DEF Spec

LEMMA SomeSideGoesOn == HInv /\ WInv => NoStall
<1> SUFFICES ASSUME HInv, WInv, NEW s \in Sessions, ~Over(s), \A x \in Sides : ~CanGoOn(s, x)
             PROVE  FALSE
  BY DEF NoStall
<1> DEFINE d == side[s]["dial"]
           v == side[s]["serve"]
<1>1. SessionOK(s) /\ d \in Knowledge /\ v \in Knowledge
      /\ wire[s]["dial"] \in Seq(FrameSet) /\ wire[s]["serve"] \in Seq(FrameSet)
  BY Peers DEF HInv, HTyped
<1>2. s \notin lost /\ ~Returned(s, "dial") /\ ~Returned(s, "serve")
  BY Peers DEF CanGoOn, Over
<1>3. wire[s]["dial"] = <<>> /\ wire[s]["serve"] = <<>>
  BY <1>2, Peers DEF CanGoOn
<1>4. d.step \in 1 .. 6 /\ v.step \in 1 .. 6
  BY <1>1, <1>2 DEF Knowledge, Returned, Done
<1>5. ~Sends("dial", d.step) /\ ~Sends("serve", v.step)
  BY <1>2, Peers DEF CanGoOn
<1>6. d.step \in {2, 4, 6} /\ v.step \in {1, 3, 5}
  BY <1>4, <1>5, Schedule
<1>7. /\ d.step = 4 => ExpectsClaim(d)
      /\ v.step = 3 => ExpectsClaim(v)
  BY <1>2, <1>4, Schedule, Peers DEF CanGoOn
<1>8. InOrder(s, "dial") /\ InOrder(s, "serve") /\ Live(s)
  BY <1>1, <1>2, Peers DEF SessionOK, Live, Over
<1>9. (v.step > 1 => v.peer = d.mode) /\ (d.step > 2 => d.peer = v.mode)
  BY <1>8, Peers DEF InOrder
<1>10. Owed(s, "dial") = 0 /\ Owed(s, "serve") = 0
  <2>1. \A x \in Sides : Owed(s, x) \in Nat /\ Len(wire[s][x]) >= Owed(s, x)
    BY <1>8 DEF WInv, Delivers, Owed
  <2>2. Len(wire[s]["dial"]) = 0 /\ Len(wire[s]["serve"]) = 0
    BY <1>3
  <2> QED
    BY <2>1, <2>2, Peers
<1>11. /\ ~HelloPending(s, "dial") /\ ~HelloPending(s, "serve")
       /\ ~ClaimPending(s, "dial") /\ ~ClaimPending(s, "serve")
       /\ ~ResultPending(s, "dial") /\ ~ResultPending(s, "serve")
  BY <1>10 DEF Owed
<1>12. ~(d.step > 1 /\ v.step <= 1) /\ ~(v.step > 2 /\ d.step <= 2)
  BY <1>11, Peers DEF HelloPending
<1>13. /\ ~(Attests(d.mode) /\ d.step > 3 /\ v.step <= 3)
       /\ ~(Attests(v.mode) /\ v.step > 4 /\ d.step <= 4)
  BY <1>11, Peers DEF ClaimPending
<1>14. ~(d.step > 5 /\ v.step <= 5)
  BY <1>11, Peers DEF ResultPending
<1> HIDE DEF d, v
<1> QED
  BY <1>6, <1>7, <1>9, <1>12, <1>13, <1>14 DEF ExpectsClaim

\* Two sides never wait for each other, whatever their modes: while a
\* handshake is not over, one of them has a step to take that needs no frame
\* but what is on the wire, and each step takes it further, so a side takes
\* six of them at most (runHandshake: "reading would deadlock").
THEOREM NeverStalls == Spec => []NoStall /\ [][GoesFurther]_vars
<1>1. KInv /\ HInv /\ WInv => NoStall
  BY SomeSideGoesOn
<1>2. KInv /\ HInv => GoesFurther
  BY ShakeGoesFurther
<1> QED
  BY <1>1, <1>2, SessionsInductive, WireInductive, PTL

=============================================================================
