----------------------------- MODULE TlogProofs -----------------------------
(***************************************************************************)
(* Theorems about Tlog, for every set of operators, witnesses and clients, *)
(* every threshold and every log.                                          *)
(***************************************************************************)
EXTENDS Tlog, FiniteSetTheorems, TLAPS

USE DEF Readers, Stable, Trees

-----------------------------------------------------------------------------
(* Trees and notes *)

LEMMA ExtendsReflexive ==
  ASSUME NEW t \in Trees
  PROVE  Extends(t, t)
BY DEF Extends

LEMMA ExtendsTransitive ==
  ASSUME NEW r \in Trees, NEW s \in Trees, NEW t \in Trees,
         Extends(t, s), Extends(s, r)
  PROVE  Extends(t, r)
<1>1. Len(r) \in Nat /\ Len(s) \in Nat /\ Len(t) \in Nat
  OBVIOUS
<1>2. Len(r) <= Len(s) /\ Len(s) <= Len(t)
  BY DEF Extends
<1>3. ASSUME NEW i \in 1 .. Len(r) PROVE r[i] = t[i]
  <2>1. i \in 1 .. Len(s)
    BY <1>1, <1>2
  <2> QED
    BY <2>1 DEF Extends
<1> QED
  BY <1>1, <1>2, <1>3 DEF Extends

\* Two parts of one history are comparable.
LEMMA PrefixesComparable ==
  ASSUME NEW r \in Trees, NEW s \in Trees, NEW t \in Trees,
         Extends(t, r), Extends(t, s)
  PROVE  Comparable(r, s)
<1>1. Len(r) \in Nat /\ Len(s) \in Nat
  OBVIOUS
<1>2. CASE Len(r) <= Len(s)
  <2>1. ASSUME NEW i \in 1 .. Len(r) PROVE r[i] = s[i]
    <3>1. i \in 1 .. Len(s)
      BY <1>1, <1>2
    <3> QED
      BY <3>1 DEF Extends
  <2> QED
    BY <1>2, <2>1 DEF Extends, Comparable
<1>3. CASE Len(s) <= Len(r)
  <2>1. ASSUME NEW i \in 1 .. Len(s) PROVE s[i] = r[i]
    <3>1. i \in 1 .. Len(r)
      BY <1>1, <1>3
    <3> QED
      BY <3>1 DEF Extends
  <2> QED
    BY <1>3, <2>1 DEF Extends, Comparable
<1> QED
  BY <1>1, <1>2, <1>3

\* Whatever a reader accepts contains the head it had.
LEMMA AcceptsExtends ==
  ASSUME NEW r, NEW head \in Trees \cup {None}, NEW tree \in Trees,
         Accepts(r, head, tree), head # None
  PROVE  Extends(tree, head)
<1>1. CASE tree = head
  BY <1>1, ExtendsReflexive
<1>2. CASE Len(tree) > Len(head) /\ Len(head) = 0
  BY <1>2 DEF Extends
<1>3. CASE Extends(tree, head)
  BY <1>3
<1> QED
  BY <1>1, <1>2, <1>3 DEF Accepts

-----------------------------------------------------------------------------
(* Types *)

LEMMA NoteTypes ==
  /\ \A o \in Operators, t \in Trees :
       Note(OriginOf[o], t, {}) \in Notes
  /\ \A n \in Notes, w \in Witnesses : [n EXCEPT !.sigs = @ \cup {w}] \in Notes
  /\ \A m, n \in Notes : Merge(m, n) \in Notes
  /\ \A n \in Notes, t \in Trees : Accusation(t, n) \in Equivocations
  /\ \A n \in Notes : n.cp \in Checkpoints /\ n.cp.tree \in Trees /\ n.sigs \subseteq Witnesses
BY ConstantsAssumption DEF Notes, Checkpoints, Equivocations, Note, Merge, Accusation

LEMMA ParkTypes ==
  ASSUME NEW parked \in SUBSET Notes, NEW n \in Notes
  PROVE  /\ Unpark(parked, n) \in SUBSET Notes
         /\ Park(parked, n) \in SUBSET Notes
         /\ Unpark(parked, n) \subseteq parked
         /\ Park(parked, n) \subseteq parked \cup {n}
BY DEF Park, Unpark

LEMMA HeardType ==
  ASSUME TypeOK, NEW r \in Readers, NEW ns \in SUBSET Notes
  PROVE  Heard(r, ns) \in [Readers -> SUBSET Notes]
BY DEF TypeOK, Heard

LEMMA HeadTreeType ==
  ASSUME TypeOK, NEW c \in Clients
  PROVE  /\ HeadTree(c) \in Trees \cup {None}
         /\ HeadTree(c) = None <=> chead[c] = None
         /\ chead[c] # None => chead[c] \in Notes /\ HeadTree(c) = chead[c].cp.tree
BY ConstantsAssumption, NoteTypes DEF TypeOK, HeadTree, TreeOf

LEMMA NewHeadType ==
  ASSUME TypeOK, NEW c \in Clients, NEW n \in Notes
  PROVE  NewHead(c, n) \in Notes /\ NewHead(c, n).cp.tree = n.cp.tree
<1>1. CASE HeadTree(c) = n.cp.tree
  <2>1. chead[c] # None
    BY <1>1, HeadTreeType, NoteTypes, ConstantsAssumption
  <2>2. chead[c] \in Notes /\ chead[c].cp.tree = n.cp.tree
    BY <1>1, <2>1, HeadTreeType
  <2> QED
    BY <1>1, <2>2, NoteTypes DEF NewHead, Merge
<1>2. CASE HeadTree(c) # n.cp.tree
  BY <1>2 DEF NewHead
<1> QED
  BY <1>1, <1>2

LEMMA WithParkedType ==
  ASSUME TypeOK, NEW c \in Clients, NEW n \in Notes
  PROVE  WithParked(c, n) \in Notes /\ WithParked(c, n).cp = n.cp
<1>1. UNION {p.sigs : p \in {q \in cpending[c] : q.cp = n.cp}} \subseteq Witnesses
  BY NoteTypes DEF TypeOK
<1> QED
  BY <1>1, NoteTypes DEF WithParked, Notes

LEMMA WitnessProcessType ==
  ASSUME TypeOK, NEW w \in Witnesses, NEW n \in Notes, NEW ns \in SUBSET Notes,
         WitnessProcess(w, n, ns)
  PROVE  TypeOK'
<1> USE DEF TypeOK
<1>1. /\ n.cp.tree \in Trees
      /\ Unpark(wpending[w], n) \in SUBSET Notes
      /\ Park(wpending[w], n) \in SUBSET Notes
      /\ w \in Readers
  BY NoteTypes, ParkTypes
<1>2. /\ log' \in [Operators -> Trees]
      /\ timeline' \in [Operators -> SUBSET Trees]
      /\ replica' \in [Readers -> SUBSET Trees]
      /\ chead' \in [Clients -> Notes \cup {None}]
      /\ cpending' \in [Clients -> SUBSET Notes]
      /\ yielded' \in [Clients -> Trees \cup {None}]
      /\ saving' \in [Clients -> BOOLEAN]
      /\ saved' \in [Clients -> Notes \cup {None}]
      /\ evicted' \in [Readers -> SUBSET Checkpoints]
  BY DEF WitnessProcess, operatorVars, clientVars
<1>3. CASE Cosign(w, n, ns)
  <2>1. [n EXCEPT !.sigs = @ \cup {w}] \in Notes
    BY NoteTypes
  <2>2. got' \in [Readers -> SUBSET Notes]
    BY <1>1, <1>3, <2>1, HeardType DEF Cosign
  <2> QED
    BY <1>1, <1>2, <1>3, <2>1, <2>2 DEF Cosign
<1>4. CASE WitnessPark(w, n, ns)
  BY <1>1, <1>2, <1>4, HeardType DEF WitnessPark
<1>5. CASE WitnessAccuse(w, n, ns)
  <2>1. Accusation(whead[w], n) \in Equivocations
    BY <1>5, NoteTypes DEF WitnessAccuse, IsFork
  <2>2. got' \in [Readers -> SUBSET Notes]
    BY <1>1, <1>5, HeardType DEF WitnessAccuse
  <2> QED
    BY <1>1, <1>2, <1>5, <2>1, <2>2 DEF WitnessAccuse
<1>6. CASE WitnessDrop(w, n, ns)
  BY <1>1, <1>2, <1>6, HeardType DEF WitnessDrop
<1> QED
  BY <1>3, <1>4, <1>5, <1>6 DEF WitnessProcess

LEMMA ClientProcessType ==
  ASSUME TypeOK, NEW c \in Clients, NEW n \in Notes, NEW ns \in SUBSET Notes,
         ClientProcess(c, n, ns)
  PROVE  TypeOK'
<1> USE DEF TypeOK
<1>1. /\ n.cp.tree \in Trees
      /\ Unpark(cpending[c], n) \in SUBSET Notes
      /\ Park(cpending[c], n) \in SUBSET Notes
      /\ NewHead(c, n) \in Notes
      /\ c \in Readers
  BY NoteTypes, ParkTypes, NewHeadType
<1>2. /\ log' \in [Operators -> Trees]
      /\ timeline' \in [Operators -> SUBSET Trees]
      /\ notes' \subseteq Notes
      /\ replica' \in [Readers -> SUBSET Trees]
      /\ whead' \in [Witnesses -> Trees \cup {None}]
      /\ wpending' \in [Witnesses -> SUBSET Notes]
      /\ saved' \in [Clients -> Notes \cup {None}]
      /\ evicted' \in [Readers -> SUBSET Checkpoints]
  BY DEF ClientProcess, operatorVars, witnessVars
<1>3. CASE ClientAccept(c, n, ns)
  <2>1. got' \in [Readers -> SUBSET Notes]
    BY <1>1, <1>3, HeardType DEF ClientAccept
  <2> QED
    BY <1>1, <1>2, <1>3, <2>1 DEF ClientAccept
<1>4. CASE ClientPark(c, n, ns)
  BY <1>1, <1>2, <1>4, HeardType DEF ClientPark
<1>5. CASE ClientAccuse(c, n, ns)
  <2>1. Accusation(HeadTree(c), n) \in Equivocations
    BY <1>5, NoteTypes, HeadTreeType DEF ClientAccuse, IsFork
  <2>2. got' \in [Readers -> SUBSET Notes]
    BY <1>1, <1>5, HeardType DEF ClientAccuse
  <2> QED
    BY <1>1, <1>2, <1>5, <2>1, <2>2 DEF ClientAccuse
<1>6. CASE ClientDrop(c, n, ns)
  BY <1>1, <1>2, <1>6, HeardType DEF ClientDrop
<1> QED
  BY <1>3, <1>4, <1>5, <1>6 DEF ClientProcess

\* What a reader does with a message that does not open.
LEMMA UnopenedForgets ==
  ASSUME TypeOK
  PROVE  /\ \A w \in Witnesses : WitnessReceiveUnopened(w) => \E n \in Notes :
              /\ wpending' = [wpending EXCEPT ![w] = Unpark(@, n)]
              /\ evicted' = [evicted EXCEPT ![w] = @ \cup {n.cp}]
              /\ n.cp \in Checkpoints /\ Unpark(wpending[w], n) \in SUBSET Notes
              /\ UNCHANGED <<operatorVars, topicVars, replica, whead, flooded, clientVars>>
         /\ \A c \in Clients : ClientReceiveUnopened(c) => \E n \in Notes :
              /\ cpending' = [cpending EXCEPT ![c] = Unpark(@, n)]
              /\ evicted' = [evicted EXCEPT ![c] = @ \cup {n.cp}]
              /\ n.cp \in Checkpoints /\ Unpark(cpending[c], n) \in SUBSET Notes
              /\ UNCHANGED <<operatorVars, topicVars, replica, witnessVars, flooded,
                              chead, yielded, saving, saved>>
<1>1. ASSUME NEW w \in Witnesses, NEW n \in wpending[w]
      PROVE  n \in Notes /\ n.cp \in Checkpoints /\ Unpark(wpending[w], n) \in SUBSET Notes
  BY NoteTypes, ParkTypes DEF TypeOK
<1>2. ASSUME NEW c \in Clients, NEW n \in cpending[c]
      PROVE  n \in Notes /\ n.cp \in Checkpoints /\ Unpark(cpending[c], n) \in SUBSET Notes
  BY NoteTypes, ParkTypes DEF TypeOK
<1> QED
  BY <1>1, <1>2 DEF WitnessReceiveUnopened, ClientReceiveUnopened

\* It parks nothing that was not parked.
LEMMA UnopenedShrinks ==
  ASSUME TypeOK
  PROVE  /\ \A w \in Witnesses : WitnessReceiveUnopened(w) =>
              \A v \in Witnesses : wpending'[v] \subseteq wpending[v]
         /\ \A c \in Clients : ClientReceiveUnopened(c) =>
              \A d \in Clients : cpending'[d] \subseteq cpending[d]
<1>1. ASSUME NEW w \in Witnesses, WitnessReceiveUnopened(w), NEW v \in Witnesses
      PROVE  wpending'[v] \subseteq wpending[v]
  <2>1. PICK n : wpending' = [wpending EXCEPT ![w] = Unpark(@, n)]
    BY <1>1, UnopenedForgets
  <2> QED
    BY <2>1 DEF TypeOK, Unpark
<1>2. ASSUME NEW c \in Clients, ClientReceiveUnopened(c), NEW d \in Clients
      PROVE  cpending'[d] \subseteq cpending[d]
  <2>1. PICK n : cpending' = [cpending EXCEPT ![c] = Unpark(@, n)]
    BY <1>2, UnopenedForgets
  <2> QED
    BY <2>1 DEF TypeOK, Unpark
<1> QED
  BY <1>1, <1>2

LEMMA TypeInit == Init => TypeOK
BY DEF Init, TypeOK

LEMMA TypeStep == TypeOK /\ [Next]_vars => TypeOK'
<1> SUFFICES ASSUME TypeOK, [Next]_vars PROVE TypeOK'
  OBVIOUS
<1>1. ASSUME NEW o \in Operators, AppendEntry(o) PROVE TypeOK'
  BY <1>1 DEF TypeOK, AppendEntry, topicVars, witnessVars, clientVars
<1>2. ASSUME NEW o \in Operators, Publish(o) PROVE TypeOK'
  BY <1>2 DEF TypeOK, Publish, topicVars, witnessVars, clientVars
<1>3. ASSUME NEW o \in Operators, Announce(o) PROVE TypeOK'
  <2>1. notes' \subseteq Notes
    BY <1>3, NoteTypes DEF TypeOK, Announce
  <2> QED
    BY <1>3, <2>1 DEF TypeOK, Announce, operatorVars, witnessVars, clientVars
<1>4. ASSUME NEW r \in Readers, SyncReplica(r) PROVE TypeOK'
  BY <1>4, ConstantsAssumption
  DEF TypeOK, SyncReplica, operatorVars, topicVars, witnessVars, clientVars
<1>5. ASSUME NEW r \in Readers, ReceiveProof(r) PROVE TypeOK'
  BY <1>5 DEF TypeOK, ReceiveProof, operatorVars, topicVars, witnessVars, clientVars
<1>6. ASSUME NEW w \in Witnesses, WitnessReceive(w) PROVE TypeOK'
  BY <1>6, WitnessProcessType DEF TypeOK, WitnessReceive
<1>7. ASSUME NEW w \in Witnesses, WitnessRetry(w) PROVE TypeOK'
  <2>1. PICK n \in wpending[w] : WitnessProcess(w, n, {})
    BY <1>7 DEF WitnessRetry
  <2> QED
    BY <2>1, WitnessProcessType DEF TypeOK
<1>8. ASSUME NEW w \in Witnesses, WitnessRestart(w) PROVE TypeOK'
  BY <1>8 DEF TypeOK, WitnessRestart, operatorVars, topicVars, clientVars
<1>9. ASSUME NEW c \in Clients, ClientReceive(c) PROVE TypeOK'
  <2>1. PICK n \in notes \ got[c] : ClientProcess(c, WithParked(c, n), {n})
    BY <1>9 DEF ClientReceive
  <2>2. n \in Notes
    BY DEF TypeOK
  <2> QED
    BY <2>1, <2>2, WithParkedType, ClientProcessType
<1>10. ASSUME NEW c \in Clients, ClientRetry(c) PROVE TypeOK'
  <2>1. PICK n \in cpending[c] : ClientProcess(c, n, {})
    BY <1>10 DEF ClientRetry
  <2> QED
    BY <2>1, ClientProcessType DEF TypeOK
<1>11. ASSUME NEW c \in Clients, ClientSave(c) PROVE TypeOK'
  BY <1>11 DEF TypeOK, ClientSave, operatorVars, topicVars, witnessVars
<1>12. ASSUME NEW c \in Clients, ClientSync(c) PROVE TypeOK'
  <2>1. PICK t \in replica[c] :
          chead' = [chead EXCEPT ![c] = NewHead(c, Note(OriginOf[Follows[c]], t, {}))]
    BY <1>12 DEF ClientSync
  <2>2. t \in Trees /\ Follows[c] \in Operators
    BY ConstantsAssumption DEF TypeOK
  <2>3. chead' \in [Clients -> Notes \cup {None}]
    BY <2>1, <2>2, NoteTypes, NewHeadType DEF TypeOK
  <2> QED
    BY <1>12, <2>3 DEF TypeOK, ClientSync, operatorVars, topicVars, witnessVars
<1>13. ASSUME NEW c \in Clients, ClientRestart(c) PROVE TypeOK'
  BY <1>13 DEF TypeOK, ClientRestart, operatorVars, topicVars, witnessVars
<1>14. ASSUME NEW w \in Witnesses, WitnessReceiveUnopened(w) PROVE TypeOK'
  <2>1. PICK n \in Notes :
          /\ wpending' = [wpending EXCEPT ![w] = Unpark(@, n)]
          /\ evicted' = [evicted EXCEPT ![w] = @ \cup {n.cp}]
          /\ n.cp \in Checkpoints /\ Unpark(wpending[w], n) \in SUBSET Notes
    BY <1>14, UnopenedForgets
  <2>2. wpending' \in [Witnesses -> SUBSET Notes] /\ evicted' \in [Readers -> SUBSET Checkpoints]
    BY <2>1 DEF TypeOK
  <2> QED
    BY <1>14, <2>2 DEF TypeOK, WitnessReceiveUnopened, operatorVars, topicVars, clientVars
<1>15. ASSUME NEW c \in Clients, ClientReceiveUnopened(c) PROVE TypeOK'
  <2>1. PICK n \in Notes :
          /\ cpending' = [cpending EXCEPT ![c] = Unpark(@, n)]
          /\ evicted' = [evicted EXCEPT ![c] = @ \cup {n.cp}]
          /\ n.cp \in Checkpoints /\ Unpark(cpending[c], n) \in SUBSET Notes
    BY <1>15, UnopenedForgets
  <2>2. cpending' \in [Clients -> SUBSET Notes] /\ evicted' \in [Readers -> SUBSET Checkpoints]
    BY <2>1 DEF TypeOK
  <2> QED
    BY <1>15, <2>2 DEF TypeOK, ClientReceiveUnopened, operatorVars, topicVars, witnessVars
<1>16. CASE UNCHANGED vars
  BY <1>16 DEF TypeOK, vars
<1> QED
  BY <1>1, <1>2, <1>3, <1>4, <1>5, <1>6, <1>7, <1>8, <1>9, <1>10, <1>11, <1>12,
     <1>13, <1>14, <1>15, <1>16 DEF Next

\* Every variable keeps its type, in every behaviour of the system.
THEOREM TypeCorrect == Spec => []TypeOK
BY TypeInit, TypeStep, PTL DEF Spec

-----------------------------------------------------------------------------
(* Signatures *)

\* Parked notes were broadcast, so that a signature on one is a signature on
\* the record, and a stable witness's head contains the trees it signed: the
\* strengthening of SignaturesAreBehindHead that steps preserve.
ParkedWereBroadcast == \A w \in Witnesses : wpending[w] \subseteq notes

SignedForLog == \A n \in notes : n.sigs # {} => n.cp.origin = LogOrigin

SignatureInv ==
  /\ TypeOK
  /\ ParkedWereBroadcast
  /\ SignedForLog
  /\ SignaturesAreBehindHead

LEMMA WitnessProcessSignatures ==
  ASSUME SignatureInv, NEW w \in Witnesses, NEW n \in notes, NEW ns \in SUBSET Notes,
         WitnessProcess(w, n, ns), TypeOK'
  PROVE  ParkedWereBroadcast' /\ SignedForLog' /\ SignaturesAreBehindHead'
<1>1. n \in Notes /\ n.cp.tree \in Trees /\ wpending[w] \in SUBSET Notes
  BY NoteTypes DEF SignatureInv, TypeOK
<1>2. CASE Cosign(w, n, ns)
  <2> DEFINE cosigned == [n EXCEPT !.sigs = @ \cup {w}]
  <2>1. /\ n.cp.origin = LogOrigin
        /\ Accepts(w, whead[w], n.cp.tree)
        /\ whead' = [whead EXCEPT ![w] = n.cp.tree]
        /\ wpending' = [wpending EXCEPT ![w] = Unpark(@, n)]
        /\ notes' = notes \cup {cosigned}
    BY <1>2 DEF Cosign
  <2>2. cosigned.cp = n.cp /\ cosigned.sigs = n.sigs \cup {w}
    BY <1>1 DEF Notes
  <2>3. whead \in [Witnesses -> Trees \cup {None}] /\ wpending \in [Witnesses -> SUBSET Notes]
    BY DEF SignatureInv, TypeOK
  <2>4. whead'[w] = n.cp.tree /\ whead'[w] # None
    BY <1>1, <2>1, <2>3, ConstantsAssumption
  <2>5. ParkedWereBroadcast'
    <3>1. Unpark(wpending[w], n) \subseteq wpending[w]
      BY <1>1, ParkTypes
    <3> QED
      BY <2>1, <2>3, <3>1 DEF SignatureInv, ParkedWereBroadcast
  <2>6. SignedForLog'
    BY <2>1, <2>2 DEF SignatureInv, SignedForLog
  <2>7. ASSUME NEW v \in Stable, NEW m \in notes', v \in m.sigs
        PROVE  whead'[v] # None /\ Extends(whead'[v], m.cp.tree)
    <3> DEFINE was == IF m \in notes THEN m ELSE n
    <3>1. was \in notes /\ was.cp = m.cp /\ (v \in was.sigs \/ v = w)
      BY <2>1, <2>2, <2>7
    <3>2. was \in Notes /\ was.cp.tree \in Trees
      BY <3>1, NoteTypes DEF SignatureInv, TypeOK
    <3>3. CASE v # w
      <4>1. whead'[v] = whead[v]
        BY <2>1, <2>3, <3>3
      <4> QED
        BY <3>1, <3>3, <4>1 DEF SignatureInv, SignaturesAreBehindHead
    <3>4. CASE v = w /\ v \in was.sigs
      <4>1. whead[w] # None /\ Extends(whead[w], was.cp.tree)
        BY <3>1, <3>4 DEF SignatureInv, SignaturesAreBehindHead
      <4>2. Extends(n.cp.tree, whead[w])
        BY <1>1, <2>1, <2>3, <4>1, AcceptsExtends
      <4>3. whead[w] \in Trees
        BY <2>3, <4>1
      <4>4. Extends(n.cp.tree, was.cp.tree)
        BY <1>1, <3>2, <4>1, <4>2, <4>3, ExtendsTransitive
      <4> QED
        BY <2>4, <3>1, <3>4, <4>4
    <3>5. CASE v = w /\ v \notin was.sigs
      <4>1. m = cosigned
        BY <2>1, <2>7, <3>5
      <4>2. Extends(n.cp.tree, n.cp.tree)
        BY <1>1, ExtendsReflexive
      <4> QED
        BY <2>2, <2>4, <3>5, <4>1, <4>2
    <3> QED
      BY <3>1, <3>3, <3>4, <3>5
  <2> QED
    BY <2>5, <2>6, <2>7 DEF SignaturesAreBehindHead
<1>3. CASE WitnessPark(w, n, ns) \/ WitnessAccuse(w, n, ns) \/ WitnessDrop(w, n, ns)
  <2>1. UNCHANGED <<whead, notes>>
    BY <1>3 DEF WitnessPark, WitnessAccuse, WitnessDrop
  <2>2. \A v \in Witnesses : wpending'[v] \subseteq wpending[v] \cup {n}
    <3>1. wpending \in [Witnesses -> SUBSET Notes]
      BY DEF SignatureInv, TypeOK
    <3>2. PICK kept \in SUBSET (wpending[w] \cup {n}) : wpending' = [wpending EXCEPT ![w] = kept]
      <4>1. /\ Unpark(wpending[w], n) \subseteq wpending[w] \cup {n}
            /\ Park(wpending[w], n) \subseteq wpending[w] \cup {n}
        BY <1>1, ParkTypes
      <4> QED
        BY <1>3, <4>1 DEF WitnessPark, WitnessAccuse, WitnessDrop
    <3> QED
      BY <3>1, <3>2
  <2> QED
    BY <2>1, <2>2 DEF SignatureInv, ParkedWereBroadcast, SignedForLog, SignaturesAreBehindHead
<1> QED
  BY <1>2, <1>3 DEF WitnessProcess

LEMMA SignatureStep == SignatureInv /\ [Next]_vars => SignatureInv'
<1> SUFFICES ASSUME SignatureInv, [Next]_vars PROVE SignatureInv'
  OBVIOUS
<1>1. TypeOK'
  BY TypeStep DEF SignatureInv
<1> DEFINE Rest == ParkedWereBroadcast' /\ SignedForLog' /\ SignaturesAreBehindHead'
<1>2. ASSUME UNCHANGED <<notes, whead, wpending>> PROVE Rest
  BY <1>2 DEF SignatureInv, ParkedWereBroadcast, SignedForLog, SignaturesAreBehindHead
<1>3. ASSUME NEW o \in Operators, AppendEntry(o) \/ Publish(o) PROVE Rest
  BY <1>2, <1>3 DEF AppendEntry, Publish, topicVars, witnessVars
<1>4. ASSUME NEW o \in Operators, Announce(o) PROVE Rest
  <2>1. PICK t \in timeline[o] : notes' = notes \cup {Note(OriginOf[o], t, {})}
    BY <1>4 DEF Announce
  <2>2. UNCHANGED <<whead, wpending>> /\ Note(OriginOf[o], t, {}).sigs = {}
    BY <1>4 DEF Announce, witnessVars, Note
  <2> QED
    BY <2>1, <2>2
    DEF SignatureInv, ParkedWereBroadcast, SignedForLog, SignaturesAreBehindHead
<1>5. ASSUME NEW r \in Readers, SyncReplica(r) \/ ReceiveProof(r) PROVE Rest
  BY <1>2, <1>5 DEF SyncReplica, ReceiveProof, topicVars, witnessVars
<1>6. ASSUME NEW w \in Witnesses, WitnessReceive(w) PROVE Rest
  <2>1. PICK n \in notes : WitnessProcess(w, n, {n})
    BY <1>6 DEF WitnessReceive
  <2>2. {n} \in SUBSET Notes
    BY DEF SignatureInv, TypeOK
  <2> QED
    BY <1>1, <2>1, <2>2, WitnessProcessSignatures
<1>7. ASSUME NEW w \in Witnesses, WitnessRetry(w) PROVE Rest
  <2>1. PICK n \in wpending[w] : WitnessProcess(w, n, {})
    BY <1>7 DEF WitnessRetry
  <2>2. n \in notes
    BY DEF SignatureInv, ParkedWereBroadcast
  <2> QED
    BY <1>1, <2>1, <2>2, WitnessProcessSignatures
<1>8. ASSUME NEW w \in Witnesses, WitnessRestart(w) PROVE Rest
  <2>1. /\ notes' = notes
        /\ \A v \in Stable : whead'[v] = whead[v]
        /\ \A v \in Witnesses : wpending'[v] \subseteq wpending[v]
    BY <1>8 DEF WitnessRestart, topicVars, SignatureInv, TypeOK
  <2> QED
    BY <2>1 DEF SignatureInv, ParkedWereBroadcast, SignedForLog, SignaturesAreBehindHead
<1>9. ASSUME NEW c \in Clients, ClientReceive(c) \/ ClientRetry(c) PROVE Rest
  BY <1>2, <1>9 DEF ClientReceive, ClientRetry, ClientProcess, witnessVars
<1>10. ASSUME NEW c \in Clients, ClientSave(c) \/ ClientSync(c) \/ ClientRestart(c) PROVE Rest
  BY <1>2, <1>10 DEF ClientSave, ClientSync, ClientRestart, topicVars, witnessVars
<1>11. CASE UNCHANGED vars
  BY <1>1, <1>2, <1>11 DEF vars, SignatureInv
<1>12. ASSUME NEW w \in Witnesses, WitnessReceiveUnopened(w) PROVE Rest
  <2>1. UNCHANGED <<notes, whead>> /\ \A v \in Witnesses : wpending'[v] \subseteq wpending[v]
    BY <1>12, UnopenedShrinks DEF WitnessReceiveUnopened, topicVars, SignatureInv
  <2> QED
    BY <2>1 DEF SignatureInv, ParkedWereBroadcast, SignedForLog, SignaturesAreBehindHead
<1>13. ASSUME NEW c \in Clients, ClientReceiveUnopened(c) PROVE Rest
  BY <1>2, <1>13 DEF ClientReceiveUnopened, topicVars, witnessVars
<1> QED
  BY <1>1, <1>3, <1>4, <1>5, <1>6, <1>7, <1>8, <1>9, <1>10, <1>11, <1>12, <1>13 DEF Next, SignatureInv

LEMMA SignatureInvariance == Spec => []SignatureInv
<1>1. Init => SignatureInv
  <2> SUFFICES ASSUME Init PROVE SignatureInv
    OBVIOUS
  <2>1. TypeOK
    BY TypeInit
  <2> QED
    BY <2>1 DEF Init, SignatureInv, ParkedWereBroadcast, SignedForLog, SignaturesAreBehindHead
<1> QED
  BY <1>1, SignatureStep, PTL DEF Spec

\* A witness that never restarts keeps every tree it signed behind its head.
THEOREM SignaturesKept == Spec => []SignaturesAreBehindHead
BY SignatureInvariance, PTL DEF SignatureInv

-----------------------------------------------------------------------------
(* Split views *)

\* Under the quorum condition any two sets of K witnesses share a stable one.
LEMMA QuorumOverlap ==
  ASSUME QuorumsMeet,
         NEW P \in SUBSET Witnesses, Cardinality(P) >= K,
         NEW Q \in SUBSET Witnesses, Cardinality(Q) >= K
  PROVE  \E w \in P \cap Q : w \in Stable
<1> DEFINE R == Witnesses \cap Restarting
<1>1. /\ IsFiniteSet(P) /\ IsFiniteSet(Q) /\ IsFiniteSet(R)
      /\ IsFiniteSet(P \cap Q) /\ IsFiniteSet(P \cup Q)
  <2>1. IsFiniteSet(Witnesses)
    BY ConstantsAssumption
  <2> QED
    BY <2>1, FS_Subset
<1>2. /\ Cardinality(P) \in Nat /\ Cardinality(Q) \in Nat /\ Cardinality(R) \in Nat
      /\ Cardinality(Witnesses) \in Nat /\ Cardinality(P \cap Q) \in Nat
      /\ Cardinality(P \cup Q) \in Nat /\ K \in Nat
  BY <1>1, FS_CardinalityType, ConstantsAssumption
<1>3. Cardinality(P \cup Q) = Cardinality(P) + Cardinality(Q) - Cardinality(P \cap Q)
  BY <1>1, FS_Union
<1>4. Cardinality(P \cup Q) <= Cardinality(Witnesses)
  <2>1. P \cup Q \subseteq Witnesses /\ IsFiniteSet(Witnesses)
    BY ConstantsAssumption
  <2> QED
    BY <2>1, FS_Subset
<1>5. Cardinality(P \cap Q) > Cardinality(R)
  BY <1>2, <1>3, <1>4 DEF QuorumsMeet
<1>6. ~ (P \cap Q \subseteq R)
  BY <1>1, <1>2, <1>5, FS_Subset
<1> QED
  BY <1>6

LEMMA SignatureInvNoSplitView == SignatureInv => NoSplitView
<1> SUFFICES ASSUME SignatureInv, QuorumsMeet, NEW m \in notes, NEW n \in notes,
                    Certified(m.cp.tree), Certified(n.cp.tree)
             PROVE  Comparable(m.cp.tree, n.cp.tree)
  BY DEF NoSplitView
<1>1. PICK P \in SUBSET Witnesses :
        Cardinality(P) >= K /\ \A w \in P : SignedBy(w, m.cp.tree)
  BY DEF Certified
<1>2. PICK Q \in SUBSET Witnesses :
        Cardinality(Q) >= K /\ \A w \in Q : SignedBy(w, n.cp.tree)
  BY DEF Certified
<1>3. PICK w \in P \cap Q : w \in Stable
  BY <1>1, <1>2, QuorumOverlap
<1>4. PICK i \in notes : i.cp.tree = m.cp.tree /\ w \in i.sigs
  BY <1>1, <1>3 DEF SignedBy
<1>5. PICK j \in notes : j.cp.tree = n.cp.tree /\ w \in j.sigs
  BY <1>2, <1>3 DEF SignedBy
<1>6. /\ whead[w] # None
      /\ Extends(whead[w], m.cp.tree)
      /\ Extends(whead[w], n.cp.tree)
  BY <1>3, <1>4, <1>5 DEF SignatureInv, SignaturesAreBehindHead
<1>7. whead[w] \in Trees /\ m.cp.tree \in Trees /\ n.cp.tree \in Trees
  BY <1>3, <1>6, NoteTypes DEF SignatureInv, TypeOK
<1> QED
  BY <1>6, <1>7, PrefixesComparable

\* However many twins of the operator sign, no two sets of K witnesses ever
\* put their names to two histories, if 2K exceeds the number of witnesses by
\* more than those that may restart.
THEOREM SplitViewResistance == Spec => []NoSplitView
BY SignatureInvariance, SignatureInvNoSplitView, PTL

-----------------------------------------------------------------------------
(* Heads *)

HeadInv == TypeOK /\ SavedIsBehindHead

\* What OnlyExtend says of the heads in the steps in which nobody restarts.
ClientHeadsGrow == \A c \in Clients :
  chead[c] # None => chead'[c] # None /\ Extends(chead'[c].cp.tree, chead[c].cp.tree)

WitnessHeadsGrow == \A w \in Witnesses :
  whead[w] # None => whead'[w] # None /\ Extends(whead'[w], whead[w])

\* The tree of a note held by a client; None has none.
LEMMA HeldTrees ==
  ASSUME TypeOK, NEW c \in Clients
  PROVE  /\ chead[c] # None => chead[c] \in Notes /\ chead[c].cp.tree \in Trees
         /\ saved[c] # None => saved[c] \in Notes /\ saved[c].cp.tree \in Trees
BY NoteTypes DEF TypeOK

\* Replacing the head of c by an accepted note only extends it.
LEMMA AcceptedHeadGrows ==
  ASSUME TypeOK, NEW c \in Clients, NEW n \in Notes,
         Accepts(c, HeadTree(c), n.cp.tree),
         chead' = [chead EXCEPT ![c] = NewHead(c, n)]
  PROVE  ClientHeadsGrow
<1>1. chead \in [Clients -> Notes \cup {None}] /\ n.cp.tree \in Trees
  BY NoteTypes DEF TypeOK
<1>2. NewHead(c, n) \in Notes /\ NewHead(c, n).cp.tree = n.cp.tree /\ NewHead(c, n) # None
  BY NewHeadType, ConstantsAssumption
<1>3. ASSUME NEW d \in Clients, chead[d] # None
      PROVE  chead'[d] # None /\ Extends(chead'[d].cp.tree, chead[d].cp.tree)
  <2>1. CASE d = c
    <3>1. HeadTree(c) \in Trees /\ HeadTree(c) # None /\ HeadTree(c) = chead[c].cp.tree
      BY <1>3, <2>1, HeadTreeType
    <3>2. Extends(n.cp.tree, HeadTree(c))
      BY <1>1, <3>1, AcceptsExtends
    <3> QED
      BY <1>1, <1>2, <2>1, <3>1, <3>2
  <2>2. CASE d # c
    <3>1. chead'[d] = chead[d] /\ chead[d].cp.tree \in Trees
      BY <1>1, <1>3, <2>2, HeldTrees
    <3> QED
      BY <1>3, <3>1, ExtendsReflexive
  <2> QED
    BY <2>1, <2>2
<1> QED
  BY <1>3 DEF ClientHeadsGrow

LEMMA ClientProcessGrows ==
  ASSUME TypeOK, NEW c \in Clients, NEW n \in Notes, NEW ns, ClientProcess(c, n, ns)
  PROVE  ClientHeadsGrow
<1>1. CASE ClientAccept(c, n, ns)
  BY <1>1, AcceptedHeadGrows DEF ClientAccept
<1>2. CASE UNCHANGED chead
  BY <1>2, HeldTrees, ExtendsReflexive DEF ClientHeadsGrow
<1> QED
  BY <1>1, <1>2 DEF ClientProcess, ClientPark, ClientAccuse, ClientDrop

LEMMA WitnessProcessGrows ==
  ASSUME TypeOK, NEW w \in Witnesses, NEW n \in Notes, NEW ns, WitnessProcess(w, n, ns)
  PROVE  WitnessHeadsGrow
<1>1. whead \in [Witnesses -> Trees \cup {None}] /\ n.cp.tree \in Trees
  BY NoteTypes DEF TypeOK
<1>2. CASE Cosign(w, n, ns)
  <2>1. ASSUME NEW v \in Witnesses, whead[v] # None
        PROVE  whead'[v] # None /\ Extends(whead'[v], whead[v])
    <3>1. CASE v = w
      <4>1. Extends(n.cp.tree, whead[w])
        BY <1>1, <1>2, <2>1, <3>1, AcceptsExtends DEF Cosign
      <4> QED
        BY <1>1, <1>2, <3>1, <4>1, ConstantsAssumption DEF Cosign
    <3>2. CASE v # w
      BY <1>1, <1>2, <2>1, <3>2, ExtendsReflexive DEF Cosign
    <3> QED
      BY <3>1, <3>2
  <2> QED
    BY <2>1 DEF WitnessHeadsGrow
<1>3. CASE UNCHANGED whead
  BY <1>1, <1>3, ExtendsReflexive DEF WitnessHeadsGrow
<1> QED
  BY <1>2, <1>3 DEF WitnessProcess, WitnessPark, WitnessAccuse, WitnessDrop

LEMMA HeadStep == HeadInv /\ [Next]_vars => OnlyExtend /\ HeadInv'
<1> SUFFICES ASSUME HeadInv, [Next]_vars PROVE OnlyExtend /\ HeadInv'
  OBVIOUS
<1> TypeOK /\ TypeOK'
  BY TypeStep DEF HeadInv
<1>1. ASSUME ClientHeadsGrow, WitnessHeadsGrow, UNCHANGED saved
      PROVE  OnlyExtend /\ HeadInv'
  <2>1. ASSUME NEW c \in Clients, saved'[c] # None
        PROVE  chead'[c] # None /\ Extends(chead'[c].cp.tree, saved'[c].cp.tree)
    <3>1. chead[c] # None /\ Extends(chead[c].cp.tree, saved[c].cp.tree)
      BY <1>1, <2>1 DEF HeadInv, SavedIsBehindHead
    <3>2. chead'[c] # None /\ Extends(chead'[c].cp.tree, chead[c].cp.tree)
      BY <1>1, <3>1 DEF ClientHeadsGrow
    <3>3. saved[c].cp.tree \in Trees /\ chead[c].cp.tree \in Trees
      BY <1>1, <2>1, <3>1, HeldTrees
    <3>4. chead'[c].cp.tree \in Trees
      BY <3>2, NoteTypes DEF TypeOK
    <3> QED
      BY <1>1, <3>1, <3>2, <3>3, <3>4, ExtendsTransitive
  <2>2. ASSUME NEW c \in Clients, saved[c] # None
        PROVE  saved'[c] # None /\ Extends(saved'[c].cp.tree, saved[c].cp.tree)
    BY <1>1, <2>2, HeldTrees, ExtendsReflexive
  <2> QED
    BY <1>1, <2>1, <2>2
    DEF OnlyExtend, HeadInv, SavedIsBehindHead, ClientHeadsGrow, WitnessHeadsGrow
<1>2. ASSUME UNCHANGED whead PROVE WitnessHeadsGrow
  BY <1>2, ExtendsReflexive DEF WitnessHeadsGrow, TypeOK
<1>3. ASSUME UNCHANGED chead PROVE ClientHeadsGrow
  BY <1>3, HeldTrees, ExtendsReflexive DEF ClientHeadsGrow
<1>4. ASSUME NEW o \in Operators, AppendEntry(o) \/ Publish(o) \/ Announce(o)
      PROVE  OnlyExtend /\ HeadInv'
  BY <1>1, <1>2, <1>3, <1>4 DEF AppendEntry, Publish, Announce, witnessVars, clientVars
<1>5. ASSUME NEW r \in Readers, SyncReplica(r) \/ ReceiveProof(r)
      PROVE  OnlyExtend /\ HeadInv'
  BY <1>1, <1>2, <1>3, <1>5 DEF SyncReplica, ReceiveProof, witnessVars, clientVars
<1>6. ASSUME NEW w \in Witnesses, WitnessReceive(w) \/ WitnessRetry(w)
      PROVE  OnlyExtend /\ HeadInv'
  <2>1. PICK n \in Notes : \E ns : WitnessProcess(w, n, ns)
    BY <1>6 DEF WitnessReceive, WitnessRetry, TypeOK
  <2>2. WitnessHeadsGrow
    BY <2>1, WitnessProcessGrows
  <2> QED
    BY <1>1, <1>3, <2>1, <2>2 DEF WitnessProcess, clientVars
<1>7. ASSUME NEW w \in Witnesses, WitnessRestart(w) PROVE OnlyExtend /\ HeadInv'
  <2>1. UNCHANGED <<chead, saved>> /\ \A v \in Witnesses \ {w} : whead'[v] = whead[v]
    BY <1>7 DEF WitnessRestart, clientVars, TypeOK
  <2>2. ASSUME NEW v \in Witnesses, whead[v] # None
        PROVE  (whead'[v] # None /\ Extends(whead'[v], whead[v])) \/ WitnessRestart(v)
    BY <1>7, <2>1, <2>2, ExtendsReflexive DEF TypeOK
  <2>3. ClientHeadsGrow
    BY <1>3, <2>1
  <2>4. \A c \in Clients :
          saved[c] # None => saved'[c] # None /\ Extends(saved'[c].cp.tree, saved[c].cp.tree)
    BY <2>1, HeldTrees, ExtendsReflexive
  <2> QED
    BY <2>1, <2>2, <2>3, <2>4 DEF OnlyExtend, HeadInv, SavedIsBehindHead, ClientHeadsGrow
<1>8. ASSUME NEW c \in Clients, ClientReceive(c) \/ ClientRetry(c)
      PROVE  OnlyExtend /\ HeadInv'
  <2>1. PICK n \in Notes : \E ns : ClientProcess(c, n, ns)
    <3>1. CASE ClientReceive(c)
      <4>1. PICK n \in notes : ClientProcess(c, WithParked(c, n), {n})
        BY <3>1 DEF ClientReceive
      <4>2. WithParked(c, n) \in Notes
        BY <4>1, WithParkedType DEF TypeOK
      <4> QED
        BY <4>1, <4>2
    <3>2. CASE ClientRetry(c)
      BY <3>2 DEF ClientRetry, TypeOK
    <3> QED
      BY <1>8, <3>1, <3>2
  <2>2. ClientHeadsGrow
    BY <2>1, ClientProcessGrows
  <2> QED
    BY <1>1, <1>2, <2>1, <2>2 DEF ClientProcess, witnessVars
<1>9. ASSUME NEW c \in Clients, ClientSync(c) PROVE OnlyExtend /\ HeadInv'
  <2>1. PICK t \in replica[c] :
          LET n == Note(OriginOf[Follows[c]], t, {}) IN
          /\ Accepts(c, HeadTree(c), t)
          /\ chead' = [chead EXCEPT ![c] = NewHead(c, n)]
    BY <1>9 DEF ClientSync
  <2> DEFINE n == Note(OriginOf[Follows[c]], t, {})
  <2>2. n \in Notes /\ n.cp.tree = t
    BY NoteTypes, ConstantsAssumption DEF TypeOK, Note
  <2>3. ClientHeadsGrow
    BY <2>1, <2>2, AcceptedHeadGrows
  <2> QED
    BY <1>1, <1>2, <1>9, <2>3 DEF ClientSync, witnessVars
<1>10. ASSUME NEW c \in Clients, ClientSave(c) PROVE OnlyExtend /\ HeadInv'
  <2>1. /\ saved \in [Clients -> Notes \cup {None}]
        /\ saved' = [saved EXCEPT ![c] = chead[c]]
        /\ UNCHANGED <<whead, chead>>
    BY <1>10 DEF ClientSave, witnessVars, TypeOK
  <2>2. WitnessHeadsGrow /\ ClientHeadsGrow
    BY <1>2, <1>3, <2>1
  <2>3. ASSUME NEW d \in Clients, saved[d] # None
        PROVE  saved'[d] # None /\ Extends(saved'[d].cp.tree, saved[d].cp.tree)
    BY <2>1, <2>3, HeldTrees, ExtendsReflexive DEF HeadInv, SavedIsBehindHead
  <2>4. ASSUME NEW d \in Clients, saved'[d] # None
        PROVE  chead'[d] # None /\ Extends(chead'[d].cp.tree, saved'[d].cp.tree)
    BY <2>1, <2>4, HeldTrees, ExtendsReflexive DEF HeadInv, SavedIsBehindHead
  <2> QED
    BY <2>2, <2>3, <2>4
    DEF OnlyExtend, HeadInv, SavedIsBehindHead, ClientHeadsGrow, WitnessHeadsGrow
<1>11. ASSUME NEW c \in Clients, ClientRestart(c) PROVE OnlyExtend /\ HeadInv'
  <2>1. /\ chead \in [Clients -> Notes \cup {None}]
        /\ chead' = [chead EXCEPT ![c] = saved[c]]
        /\ UNCHANGED <<whead, saved>>
    BY <1>11 DEF ClientRestart, witnessVars, TypeOK
  <2>2. \A d \in Clients \ {c} : chead'[d] = chead[d]
    BY <2>1
  <2>3. ASSUME NEW d \in Clients, saved'[d] # None
        PROVE  chead'[d] # None /\ Extends(chead'[d].cp.tree, saved'[d].cp.tree)
    BY <2>1, <2>3, HeldTrees, ExtendsReflexive DEF HeadInv, SavedIsBehindHead
  <2>4. WitnessHeadsGrow
    BY <1>2, <2>1
  <2>5. /\ \A d \in Clients : chead[d] # None =>
             \/ chead'[d] # None /\ Extends(chead'[d].cp.tree, chead[d].cp.tree)
             \/ ClientRestart(d)
        /\ \A d \in Clients : saved[d] # None =>
             saved'[d] # None /\ Extends(saved'[d].cp.tree, saved[d].cp.tree)
    BY <1>11, <2>1, <2>2, HeldTrees, ExtendsReflexive
  <2> QED
    BY <2>3, <2>4, <2>5 DEF OnlyExtend, HeadInv, SavedIsBehindHead, WitnessHeadsGrow
<1>12. ASSUME NEW w \in Witnesses, WitnessReceiveUnopened(w) PROVE OnlyExtend /\ HeadInv'
  BY <1>1, <1>2, <1>3, <1>12 DEF WitnessReceiveUnopened, clientVars
<1>13. ASSUME NEW c \in Clients, ClientReceiveUnopened(c) PROVE OnlyExtend /\ HeadInv'
  BY <1>1, <1>2, <1>3, <1>13 DEF ClientReceiveUnopened, witnessVars
<1>14. CASE UNCHANGED vars
  BY <1>1, <1>2, <1>3, <1>14 DEF vars
<1> QED
  BY <1>4, <1>5, <1>6, <1>7, <1>8, <1>9, <1>10, <1>11, <1>12, <1>13, <1>14 DEF Next

LEMMA HeadInvariance == Spec => []HeadInv
<1>1. Init => HeadInv
  BY TypeInit DEF Init, HeadInv, SavedIsBehindHead
<1> QED
  BY <1>1, HeadStep, PTL DEF Spec

\* The head file is always an earlier part of the history in memory.
THEOREM SavedBehind == Spec => []SavedIsBehindHead
BY HeadInvariance, PTL DEF HeadInv

\* A head moves forward along one history, or back to the head file (a witness:
\* to none) when its reader restarts, and never further; a head file moves only
\* forward (Cosign, Update, Watch's consumer, SetHead).
THEOREM ForwardOnly == Spec => HeadsOnlyExtend
<1>1. HeadInv /\ [Next]_vars => [OnlyExtend]_vars
  BY HeadStep
<1> QED
  BY <1>1, HeadInvariance, PTL DEF Spec, HeadsOnlyExtend

-----------------------------------------------------------------------------
(* Accusations                                                             *)

\* Every checkpoint a reader has come to know was published by an operator
\* that signs under its origin.
PublishedAs(origin, t) == \E o \in Operators : OriginOf[o] = origin /\ t \in timeline[o]

OriginInv ==
  /\ TypeOK
  /\ \A n \in notes : PublishedAs(n.cp.origin, n.cp.tree)
  /\ \A w \in Witnesses : \A n \in wpending[w] : PublishedAs(n.cp.origin, n.cp.tree)
  /\ \A c \in Clients : \A n \in cpending[c] : PublishedAs(n.cp.origin, n.cp.tree)
  /\ \A w \in Witnesses : whead[w] # None => PublishedAs(LogOrigin, whead[w])
  /\ \A c \in Clients :
       /\ chead[c] # None => PublishedAs(LogOrigin, chead[c].cp.tree)
       /\ saved[c] # None => PublishedAs(LogOrigin, saved[c].cp.tree)
  /\ \A r \in Readers : replica[r] \subseteq timeline[Follows[r]]
  /\ ProofsAreGenuine

\* Nothing that was published is taken back.
LEMMA PublishedStays ==
  ASSUME TypeOK, \A o \in Operators : timeline[o] \subseteq timeline'[o]
  PROVE  \A origin, t : PublishedAs(origin, t) => PublishedAs(origin, t)'
BY DEF PublishedAs

LEMMA GenuineStays ==
  ASSUME TypeOK, ProofsAreGenuine, \A o \in Operators : timeline[o] \subseteq timeline'[o],
         \A e \in proofs' \ proofs : VerifyEquivocation(e) /\ \A cp \in {e.first, e.second} :
                                       PublishedAs(cp.origin, cp.tree)
  PROVE  ProofsAreGenuine'
<1>1. ASSUME NEW e \in proofs', NEW cp \in {e.first, e.second}
      PROVE  VerifyEquivocation(e) /\ \E o \in Operators : OriginOf[o] = cp.origin /\ cp.tree \in timeline'[o]
  <2>1. CASE e \in proofs
    BY <2>1 DEF ProofsAreGenuine
  <2>2. CASE e \notin proofs
    BY <2>2 DEF PublishedAs
  <2> QED
    BY <2>1, <2>2
<1> QED
  BY <1>1 DEF ProofsAreGenuine, VerifyEquivocation

\* An accusation on a fork shows two checkpoints of the readers' log.
LEMMA AccusationIsGenuine ==
  ASSUME NEW head \in Trees, NEW n \in Notes, head # n.cp.tree, Len(n.cp.tree) = Len(head),
         n.cp.origin = LogOrigin, PublishedAs(LogOrigin, head), PublishedAs(LogOrigin, n.cp.tree)
  PROVE  /\ VerifyEquivocation(Accusation(head, n))
         /\ \A cp \in {Accusation(head, n).first, Accusation(head, n).second} : PublishedAs(cp.origin, cp.tree)
<1>1. /\ Accusation(head, n).first.origin = LogOrigin /\ Accusation(head, n).first.tree = head
      /\ Accusation(head, n).second = n.cp
  BY DEF Accusation
<1> HIDE DEF Accusation
<1> QED
  BY <1>1 DEF VerifyEquivocation

LEMMA OriginInit == Init => OriginInv
<1> SUFFICES ASSUME Init PROVE OriginInv
  OBVIOUS
<1>1. TypeOK
  BY TypeInit
<1> QED
  BY <1>1 DEF Init, OriginInv, ProofsAreGenuine

LEMMA WitnessProcessOrigin ==
  ASSUME OriginInv, NEW w \in Witnesses, NEW n \in Notes, PublishedAs(n.cp.origin, n.cp.tree),
         NEW ns, WitnessProcess(w, n, ns), TypeOK'
  PROVE  OriginInv'
<1>1. TypeOK /\ n.cp.tree \in Trees /\ wpending[w] \in SUBSET Notes /\ w \in Readers
  BY NoteTypes DEF OriginInv, TypeOK
<1>2. /\ UNCHANGED <<timeline, replica, chead, cpending, saved>>
      /\ \A o \in Operators : timeline[o] \subseteq timeline'[o]
  BY DEF WitnessProcess, operatorVars, clientVars
<1>3. \A origin, t : PublishedAs(origin, t) => PublishedAs(origin, t)'
  BY <1>1, <1>2, PublishedStays
<1>4. PICK kept \in SUBSET (wpending[w] \cup {n}) : wpending' = [wpending EXCEPT ![w] = kept]
  <2>1. Unpark(wpending[w], n) \subseteq wpending[w] \cup {n} /\ Park(wpending[w], n) \subseteq wpending[w] \cup {n}
    BY <1>1, ParkTypes
  <2> QED
    BY <2>1 DEF WitnessProcess, Cosign, WitnessPark, WitnessAccuse, WitnessDrop
<1>5. \A v \in Witnesses : \A m \in wpending'[v] : PublishedAs(m.cp.origin, m.cp.tree)
  BY <1>1, <1>4 DEF OriginInv, TypeOK
<1>6. /\ \A m \in notes' : PublishedAs(m.cp.origin, m.cp.tree)
      /\ \A v \in Witnesses : whead'[v] # None => PublishedAs(LogOrigin, whead'[v])
  <2>1. CASE Cosign(w, n, ns)
    <3> DEFINE cosigned == [n EXCEPT !.sigs = @ \cup {w}]
    <3>1. cosigned.cp = n.cp /\ notes' = notes \cup {cosigned} /\ n.cp.origin = LogOrigin
      BY <2>1 DEF Cosign, Notes
    <3>2. \A v \in Witnesses : whead'[v] = IF v = w THEN n.cp.tree ELSE whead[v]
      BY <1>1, <2>1 DEF Cosign, TypeOK
    <3> HIDE DEF cosigned
    <3> QED
      BY <3>1, <3>2 DEF OriginInv
  <2>2. CASE UNCHANGED <<whead, notes>>
    BY <2>2 DEF OriginInv
  <2> QED
    BY <2>1, <2>2 DEF WitnessProcess, WitnessPark, WitnessAccuse, WitnessDrop
<1>7. \A e \in proofs' \ proofs : VerifyEquivocation(e) /\ \A cp \in {e.first, e.second} :
                                    PublishedAs(cp.origin, cp.tree)
  <2>1. CASE WitnessAccuse(w, n, ns)
    <3>1. /\ proofs' = proofs \cup {Accusation(whead[w], n)} /\ n.cp.origin = LogOrigin
          /\ whead[w] # None /\ Len(n.cp.tree) = Len(whead[w]) /\ n.cp.tree # whead[w]
      BY <2>1 DEF WitnessAccuse, IsFork
    <3>2. whead[w] \in Trees /\ PublishedAs(LogOrigin, whead[w])
      BY <1>1, <3>1 DEF OriginInv, TypeOK
    <3> QED
      BY <3>1, <3>2, AccusationIsGenuine
  <2>2. CASE UNCHANGED proofs
    BY <2>2
  <2> QED
    BY <2>1, <2>2 DEF WitnessProcess, Cosign, WitnessPark, WitnessDrop
<1>8. ProofsAreGenuine'
  BY <1>1, <1>2, <1>7, GenuineStays DEF OriginInv
<1> QED
  BY <1>2, <1>3, <1>5, <1>6, <1>8 DEF OriginInv, PublishedAs

LEMMA ClientProcessOrigin ==
  ASSUME OriginInv, NEW c \in Clients, NEW n \in Notes, PublishedAs(n.cp.origin, n.cp.tree),
         NEW ns, ClientProcess(c, n, ns), TypeOK'
  PROVE  OriginInv'
<1>1. TypeOK /\ n.cp.tree \in Trees /\ cpending[c] \in SUBSET Notes
  BY NoteTypes DEF OriginInv, TypeOK
<1>2. /\ UNCHANGED <<timeline, replica, notes, whead, wpending, saved>>
      /\ \A o \in Operators : timeline[o] \subseteq timeline'[o]
  BY DEF ClientProcess, operatorVars, witnessVars
<1>4. PICK kept \in SUBSET (cpending[c] \cup {n}) : cpending' = [cpending EXCEPT ![c] = kept]
  <2>1. Unpark(cpending[c], n) \subseteq cpending[c] \cup {n} /\ Park(cpending[c], n) \subseteq cpending[c] \cup {n}
    BY <1>1, ParkTypes
  <2> QED
    BY <2>1 DEF ClientProcess, ClientAccept, ClientPark, ClientAccuse, ClientDrop
<1>5. \A d \in Clients : \A m \in cpending'[d] : PublishedAs(m.cp.origin, m.cp.tree)
  BY <1>1, <1>4 DEF OriginInv, TypeOK
<1>6. \A d \in Clients : chead'[d] # None => PublishedAs(LogOrigin, chead'[d].cp.tree)
  <2>1. CASE ClientAccept(c, n, ns)
    <3>1. NewHead(c, n).cp.tree = n.cp.tree /\ n.cp.origin = LogOrigin
      BY <1>1, <2>1, NewHeadType DEF ClientAccept
    <3>2. \A d \in Clients : chead'[d] = IF d = c THEN NewHead(c, n) ELSE chead[d]
      BY <1>1, <2>1 DEF ClientAccept, TypeOK
    <3> QED
      BY <3>1, <3>2 DEF OriginInv
  <2>2. CASE UNCHANGED chead
    BY <2>2 DEF OriginInv
  <2> QED
    BY <2>1, <2>2 DEF ClientProcess, ClientPark, ClientAccuse, ClientDrop
<1>7. \A e \in proofs' \ proofs : VerifyEquivocation(e) /\ \A cp \in {e.first, e.second} :
                                    PublishedAs(cp.origin, cp.tree)
  <2>1. CASE ClientAccuse(c, n, ns)
    <3>1. /\ proofs' = proofs \cup {Accusation(HeadTree(c), n)} /\ n.cp.origin = LogOrigin
          /\ HeadTree(c) # None /\ Len(n.cp.tree) = Len(HeadTree(c)) /\ n.cp.tree # HeadTree(c)
      BY <2>1 DEF ClientAccuse, IsFork
    <3>2. chead[c] # None /\ HeadTree(c) \in Trees /\ HeadTree(c) = chead[c].cp.tree
      BY <1>1, <3>1, HeadTreeType
    <3>3. PublishedAs(LogOrigin, HeadTree(c))
      BY <3>2 DEF OriginInv
    <3> QED
      BY <3>1, <3>2, <3>3, AccusationIsGenuine
  <2>2. CASE UNCHANGED proofs
    BY <2>2
  <2> QED
    BY <2>1, <2>2 DEF ClientProcess, ClientAccept, ClientPark, ClientDrop
<1>8. ProofsAreGenuine'
  BY <1>1, <1>2, <1>7, GenuineStays DEF OriginInv
<1> QED
  BY <1>2, <1>5, <1>6, <1>8 DEF OriginInv, PublishedAs

LEMMA OriginStep == OriginInv /\ [Next]_vars => OriginInv'
<1> SUFFICES ASSUME OriginInv, [Next]_vars PROVE OriginInv'
  OBVIOUS
<1> TypeOK /\ TypeOK'
  BY TypeStep DEF OriginInv
\* Steps that only add to what was published, announced or replicated.
<1>1. ASSUME UNCHANGED <<wpending, cpending, whead, chead, saved, proofs>>,
             \A o \in Operators : timeline[o] \subseteq timeline'[o],
             \A n \in notes' \ notes : PublishedAs(n.cp.origin, n.cp.tree)',
             \A r \in Readers : replica'[r] \subseteq replica[r] \cup timeline[Follows[r]]
      PROVE  OriginInv'
  <2>1. \A origin, t : PublishedAs(origin, t) => PublishedAs(origin, t)'
    BY <1>1, PublishedStays
  <2>2. ProofsAreGenuine'
    BY <1>1, GenuineStays DEF OriginInv
  <2>3. \A r \in Readers : replica'[r] \subseteq timeline'[Follows[r]]
    BY <1>1, ConstantsAssumption DEF OriginInv
  <2>4. ASSUME NEW n \in notes' PROVE PublishedAs(n.cp.origin, n.cp.tree)'
    <3>1. CASE n \in notes
      BY <2>1, <3>1 DEF OriginInv
    <3> QED
      BY <1>1, <3>1
  <2>5. /\ \A w \in Witnesses : \A n \in wpending'[w] : PublishedAs(n.cp.origin, n.cp.tree)'
        /\ \A c \in Clients : \A n \in cpending'[c] : PublishedAs(n.cp.origin, n.cp.tree)'
        /\ \A w \in Witnesses : whead'[w] # None => PublishedAs(LogOrigin, whead[w])'
        /\ \A c \in Clients :
             /\ chead'[c] # None => PublishedAs(LogOrigin, chead[c].cp.tree)'
             /\ saved'[c] # None => PublishedAs(LogOrigin, saved[c].cp.tree)'
    BY <1>1, <2>1 DEF OriginInv, PublishedAs
  <2> QED
    BY <2>2, <2>3, <2>4, <2>5 DEF OriginInv
\* Steps of a reader that come to know of nothing new.
<1>2. ASSUME UNCHANGED <<timeline, notes, replica, proofs>>,
             \A w \in Witnesses : wpending'[w] \subseteq wpending[w] /\ whead'[w] \in {whead[w], None},
             \A c \in Clients : cpending'[c] \subseteq cpending[c],
             \A c \in Clients : saved'[c] \in {saved[c], chead[c]},
             \A c \in Clients : chead'[c] \in {chead[c], saved[c]} \/ PublishedAs(LogOrigin, chead'[c].cp.tree)
      PROVE  OriginInv'
  <2>1. ProofsAreGenuine'
    BY <1>2, GenuineStays DEF OriginInv
  <2>2. \A c \in Clients : /\ chead'[c] # None => PublishedAs(LogOrigin, chead'[c].cp.tree)
                           /\ saved'[c] # None => PublishedAs(LogOrigin, saved'[c].cp.tree)
    BY <1>2 DEF OriginInv
  <2> QED
    BY <1>2, <2>1, <2>2 DEF OriginInv, PublishedAs
<1>3. ASSUME NEW o \in Operators, AppendEntry(o) \/ Publish(o) PROVE OriginInv'
  <2>1. \A p \in Operators : timeline[p] \subseteq timeline'[p]
    BY <1>3 DEF AppendEntry, Publish, TypeOK
  <2>2. UNCHANGED <<notes, replica, wpending, cpending, whead, chead, saved, proofs>>
    BY <1>3 DEF AppendEntry, Publish, topicVars, witnessVars, clientVars
  <2> QED
    BY <1>1, <2>1, <2>2
<1>4. ASSUME NEW o \in Operators, Announce(o) PROVE OriginInv'
  <2>1. PICK t \in timeline[o] : notes' = notes \cup {Note(OriginOf[o], t, {})}
    BY <1>4 DEF Announce
  <2>2. UNCHANGED <<timeline, replica, wpending, cpending, whead, chead, saved, proofs>>
    BY <1>4 DEF Announce, operatorVars, witnessVars, clientVars
  <2>3. \A n \in notes' \ notes : PublishedAs(n.cp.origin, n.cp.tree)'
    BY <2>1, <2>2 DEF PublishedAs, Note
  <2> QED
    BY <1>1, <2>2, <2>3
<1>5. ASSUME NEW r \in Readers, SyncReplica(r) PROVE OriginInv'
  <2>1. \A s \in Readers : replica'[s] \subseteq replica[s] \cup timeline[Follows[s]]
    BY <1>5 DEF SyncReplica, TypeOK
  <2>2. UNCHANGED <<timeline, notes, wpending, cpending, whead, chead, saved, proofs>>
    BY <1>5 DEF SyncReplica, operatorVars, topicVars, witnessVars, clientVars
  <2> QED
    BY <1>1, <2>1, <2>2
<1>6. ASSUME NEW r \in Readers, ReceiveProof(r) PROVE OriginInv'
  BY <1>2, <1>6 DEF ReceiveProof, operatorVars, topicVars, witnessVars, clientVars
<1>7. ASSUME NEW w \in Witnesses, WitnessReceive(w) \/ WitnessRetry(w) PROVE OriginInv'
  <2>1. PICK n \in Notes : PublishedAs(n.cp.origin, n.cp.tree) /\ \E ns : WitnessProcess(w, n, ns)
    BY <1>7 DEF WitnessReceive, WitnessRetry, OriginInv, TypeOK
  <2> QED
    BY <2>1, WitnessProcessOrigin
<1>8. ASSUME NEW w \in Witnesses, WitnessRestart(w) PROVE OriginInv'
  <2>1. \A v \in Witnesses : wpending'[v] \subseteq wpending[v] /\ whead'[v] \in {whead[v], None}
    BY <1>8 DEF WitnessRestart, TypeOK
  <2> QED
    BY <1>2, <1>8, <2>1 DEF WitnessRestart, operatorVars, topicVars, clientVars
<1>9. ASSUME NEW c \in Clients, ClientReceive(c) \/ ClientRetry(c) PROVE OriginInv'
  <2>1. PICK n \in Notes : PublishedAs(n.cp.origin, n.cp.tree) /\ \E ns : ClientProcess(c, n, ns)
    <3>1. CASE ClientReceive(c)
      <4>1. PICK n \in notes : ClientProcess(c, WithParked(c, n), {n})
        BY <3>1 DEF ClientReceive
      <4>2. WithParked(c, n) \in Notes /\ WithParked(c, n).cp = n.cp
        BY <4>1, WithParkedType DEF TypeOK
      <4> QED
        BY <4>1, <4>2 DEF OriginInv
    <3>2. CASE ClientRetry(c)
      BY <3>2 DEF ClientRetry, TypeOK, OriginInv
    <3> QED
      BY <1>9, <3>1, <3>2
  <2> QED
    BY <2>1, ClientProcessOrigin
<1>10. ASSUME NEW c \in Clients, ClientSync(c) PROVE OriginInv'
  <2>1. PICK t \in replica[c] :
          /\ Note(OriginOf[Follows[c]], t, {}).cp.origin = LogOrigin
          /\ chead' = [chead EXCEPT ![c] = NewHead(c, Note(OriginOf[Follows[c]], t, {}))]
    BY <1>10 DEF ClientSync
  <2>2. t \in Trees /\ t \in timeline[Follows[c]] /\ OriginOf[Follows[c]] = LogOrigin /\ Follows[c] \in Operators
    BY <2>1, ConstantsAssumption DEF OriginInv, TypeOK, Note
  <2>3. PublishedAs(LogOrigin, t)
    BY <2>2 DEF PublishedAs
  <2>4. NewHead(c, Note(OriginOf[Follows[c]], t, {})).cp.tree = t
    BY <2>2, NewHeadType, NoteTypes DEF Note
  <2>5. \A d \in Clients : chead'[d] \in {chead[d], saved[d]} \/ PublishedAs(LogOrigin, chead'[d].cp.tree)
    BY <2>1, <2>3, <2>4 DEF TypeOK
  <2> QED
    BY <1>2, <1>10, <2>5 DEF ClientSync, operatorVars, topicVars, witnessVars
<1>11. ASSUME NEW c \in Clients, ClientSave(c) \/ ClientRestart(c) PROVE OriginInv'
  <2>1. \A d \in Clients : /\ cpending'[d] \subseteq cpending[d]
                           /\ saved'[d] \in {saved[d], chead[d]} /\ chead'[d] \in {chead[d], saved[d]}
    BY <1>11 DEF ClientSave, ClientRestart, TypeOK
  <2> QED
    BY <1>2, <1>11, <2>1 DEF ClientSave, ClientRestart, operatorVars, topicVars, witnessVars
<1>12. ASSUME NEW w \in Witnesses, WitnessReceiveUnopened(w) PROVE OriginInv'
  BY <1>2, <1>12, UnopenedShrinks DEF WitnessReceiveUnopened, operatorVars, topicVars, clientVars
<1>13. ASSUME NEW c \in Clients, ClientReceiveUnopened(c) PROVE OriginInv'
  BY <1>2, <1>13, UnopenedShrinks DEF ClientReceiveUnopened, operatorVars, topicVars, witnessVars
<1>14. CASE UNCHANGED vars
  BY <1>2, <1>14 DEF vars
<1> QED
  BY <1>3, <1>4, <1>5, <1>6, <1>7, <1>8, <1>9, <1>10, <1>11, <1>12, <1>13, <1>14 DEF Next

\* Whoever holds the key and whatever else they sign with it, a flooded proof
\* shows two checkpoints of the readers' log that were published and fork.
THEOREM OnlyForksAreAccused == Spec => []ProofsAreGenuine
<1>1. OriginInv => ProofsAreGenuine
  BY DEF OriginInv
<1> QED
  BY <1>1, OriginInit, OriginStep, PTL DEF Spec

-----------------------------------------------------------------------------
(* One log                                                                 *)

\* The signatures a client has gathered on a parked note were broadcast.
GatheredWereBroadcast ==
  \A c \in Clients : \A n \in cpending[c] : \A w \in n.sigs : \E m \in notes : m.cp = n.cp /\ w \in m.sigs

LogInv == SignatureInv /\ GatheredWereBroadcast

\* What a client accepts is certified.
Gathered(n) == \A w \in n.sigs : \E m \in notes : m.cp = n.cp /\ w \in m.sigs

LEMMA AcceptedIsCertified ==
  ASSUME LogInv, K >= 1, NEW n \in Notes, Gathered(n), MeetsThreshold(n), n.cp.origin = LogOrigin
  PROVE  n.cp.tree \in CertifiedTrees
<1>1. n.sigs \subseteq Witnesses /\ n.cp \in Checkpoints
  BY NoteTypes
<1>2. \A w \in n.sigs : SignedBy(w, n.cp.tree)
  <2>1. n.cp = [origin |-> LogOrigin, tree |-> n.cp.tree]
    BY <1>1 DEF Checkpoints
  <2> QED
    BY <2>1 DEF SignedBy, Gathered
<1>3. /\ IsFiniteSet({w \in Witnesses : SignedBy(w, n.cp.tree)})
      /\ n.sigs \subseteq {w \in Witnesses : SignedBy(w, n.cp.tree)}
  BY <1>1, <1>2, FS_Subset, ConstantsAssumption
<1>4. IsFiniteSet(n.sigs) /\ Cardinality(n.sigs) <= Cardinality({w \in Witnesses : SignedBy(w, n.cp.tree)})
  BY <1>3, FS_Subset
<1>5. /\ Cardinality(n.sigs) \in Nat /\ Cardinality({w \in Witnesses : SignedBy(w, n.cp.tree)}) \in Nat
      /\ K \in Nat /\ Cardinality(n.sigs) >= K
  BY <1>3, <1>4, FS_CardinalityType, ConstantsAssumption DEF MeetsThreshold
<1>6. Certified(n.cp.tree)
  BY <1>4, <1>5 DEF Certified
<1>7. n.sigs # {}
  BY <1>5, FS_EmptySet
<1>8. PICK m \in notes : m.cp = n.cp /\ m.sigs # {}
  BY <1>7 DEF Gathered
<1> QED
  BY <1>6, <1>8 DEF CertifiedTrees

\* A tree once certified stays so; the certified trees are one history.
LEMMA CertifiedStays ==
  ASSUME TypeOK, notes \subseteq notes'
  PROVE  CertifiedTrees \subseteq CertifiedTrees'
<1> SUFFICES ASSUME NEW t \in CertifiedTrees PROVE t \in CertifiedTrees'
  OBVIOUS
<1>1. PICK m \in notes : m.sigs # {} /\ t = m.cp.tree /\ Certified(t)
  BY DEF CertifiedTrees
<1> DEFINE P == {w \in Witnesses : SignedBy(w, t)}
           Q == {w \in Witnesses : SignedBy(w, t)'}
<1>2. P \subseteq Q /\ IsFiniteSet(Q)
  BY FS_Subset, ConstantsAssumption DEF SignedBy
<1>3. Cardinality(P) <= Cardinality(Q) /\ Cardinality(P) \in Nat /\ Cardinality(Q) \in Nat /\ K \in Nat
  BY <1>2, FS_Subset, FS_CardinalityType, ConstantsAssumption
<1>4. Cardinality(P) >= K
  BY <1>1 DEF Certified
<1>5. Cardinality(Q) >= K
  BY <1>3, <1>4
<1>6. Certified(t)'
  BY <1>5 DEF Certified
<1> QED
  BY <1>1, <1>6 DEF CertifiedTrees

LogIsOne == CertifiedTrees \subseteq Seq(Entries) /\ Log!OneHistory(CertifiedTrees)

LEMMA CertifiedIsOneHistory ==
  ASSUME SignatureInv, QuorumsMeet
  PROVE  LogIsOne
<1>1. ASSUME NEW s \in CertifiedTrees, NEW t \in CertifiedTrees
      PROVE  s \in Trees /\ (Log!Contains(s, t) \/ Log!Contains(t, s))
  <2>1. PICK m \in notes : s = m.cp.tree /\ Certified(m.cp.tree)
    BY DEF CertifiedTrees
  <2>2. PICK n \in notes : t = n.cp.tree /\ Certified(n.cp.tree)
    BY DEF CertifiedTrees
  <2>3. Comparable(s, t)
    BY <2>1, <2>2, SignatureInvNoSplitView DEF NoSplitView
  <2>4. s \in Trees
    BY <2>1, NoteTypes DEF SignatureInv, TypeOK
  <2> QED
    BY <2>3, <2>4 DEF Comparable, Extends, Log!Contains
<1> QED
  BY <1>1 DEF Log!OneHistory, LogIsOne

LEMMA NotesGrow == TypeOK /\ [Next]_vars => notes \subseteq notes'
<1> SUFFICES ASSUME TypeOK, [Next]_vars, notes' # notes PROVE notes \subseteq notes'
  OBVIOUS
<1>1. ASSUME NEW w \in Witnesses, NEW n, NEW ns, WitnessProcess(w, n, ns) PROVE notes \subseteq notes'
  BY <1>1 DEF WitnessProcess, Cosign, WitnessPark, WitnessAccuse, WitnessDrop
<1>2. ASSUME NEW o \in Operators, Announce(o) PROVE notes \subseteq notes'
  BY <1>2 DEF Announce
<1>3. ASSUME NEW c \in Clients, ClientReceive(c) \/ ClientRetry(c) PROVE FALSE
  BY <1>3 DEF ClientReceive, ClientRetry, ClientProcess
<1> QED
  BY <1>1, <1>2, <1>3
  DEF Next, vars, topicVars, AppendEntry, Publish, SyncReplica, ReceiveProof, WitnessReceive, WitnessRetry,
      WitnessReceiveUnopened, WitnessRestart, ClientReceiveUnopened, ClientSave, ClientSync, ClientRestart

LEMMA WithParkedGathered ==
  ASSUME LogInv, NEW c \in Clients, NEW n \in notes
  PROVE  Gathered(WithParked(c, n))
<1>1. n \in Notes
  BY DEF LogInv, SignatureInv, TypeOK
<1>2. /\ WithParked(c, n).cp = n.cp
      /\ \A w \in WithParked(c, n).sigs : w \in n.sigs \/ \E p \in cpending[c] : p.cp = n.cp /\ w \in p.sigs
  BY <1>1 DEF WithParked, Notes
<1> HIDE DEF WithParked
<1> QED
  BY <1>2 DEF Gathered, LogInv, GatheredWereBroadcast

\* A client processes a note that is of the right type and gathered.
LEMMA ProcessesGathered ==
  ASSUME LogInv, NEW c \in Clients, ClientReceive(c) \/ ClientRetry(c)
  PROVE  \E n \in Notes : Gathered(n) /\ \E ns : ClientProcess(c, n, ns)
<1>1. TypeOK
  BY DEF LogInv, SignatureInv
<1>2. CASE ClientReceive(c)
  <2>1. PICK n \in notes : ClientProcess(c, WithParked(c, n), {n})
    BY <1>2 DEF ClientReceive
  <2>2. WithParked(c, n) \in Notes /\ Gathered(WithParked(c, n))
    BY <1>1, <2>1, WithParkedType, WithParkedGathered DEF TypeOK
  <2> QED
    BY <2>1, <2>2
<1>3. CASE ClientRetry(c)
  BY <1>1, <1>3 DEF ClientRetry, TypeOK, Gathered, LogInv, GatheredWereBroadcast
<1> QED
  BY <1>2, <1>3

LEMMA LogStep == LogInv /\ [Next]_vars => LogInv'
<1> SUFFICES ASSUME LogInv, [Next]_vars PROVE LogInv'
  OBVIOUS
<1>1. TypeOK /\ SignatureInv' /\ notes \subseteq notes'
  BY SignatureStep, NotesGrow DEF LogInv, SignatureInv
<1>2. ASSUME \A c \in Clients : \A n \in cpending'[c] \ cpending[c] : Gathered(n)
      PROVE  LogInv'
  <2>1. ASSUME NEW c \in Clients, NEW n \in cpending'[c], NEW w \in n.sigs
        PROVE  \E m \in notes' : m.cp = n.cp /\ w \in m.sigs
    <3>1. \E m \in notes : m.cp = n.cp /\ w \in m.sigs
      BY <1>2 DEF Gathered, LogInv, GatheredWereBroadcast
    <3> QED
      BY <1>1, <3>1
  <2> QED
    BY <1>1, <2>1 DEF LogInv, GatheredWereBroadcast
<1>3. ASSUME NEW c \in Clients, ClientReceive(c) \/ ClientRetry(c) PROVE LogInv'
  <2>1. PICK n \in Notes : Gathered(n) /\ \E ns : ClientProcess(c, n, ns)
    BY <1>3, ProcessesGathered
  <2>2. PICK kept \in SUBSET (cpending[c] \cup {n}) : cpending' = [cpending EXCEPT ![c] = kept]
    <3>1. cpending[c] \in SUBSET Notes
      BY <1>1 DEF TypeOK
    <3>2. Unpark(cpending[c], n) \subseteq cpending[c] \cup {n} /\ Park(cpending[c], n) \subseteq cpending[c] \cup {n}
      BY <3>1, ParkTypes
    <3> QED
      BY <2>1, <3>2 DEF ClientProcess, ClientAccept, ClientPark, ClientAccuse, ClientDrop
  <2>3. \A d \in Clients : \A m \in cpending'[d] \ cpending[d] : m = n
    BY <1>1, <2>2 DEF TypeOK
  <2> QED
    BY <1>2, <2>1, <2>3
<1>4. ASSUME NEW c \in Clients, ClientRestart(c) PROVE LogInv'
  <2>1. \A d \in Clients : cpending'[d] \subseteq cpending[d]
    BY <1>1, <1>4 DEF ClientRestart, TypeOK
  <2> QED
    BY <1>2, <2>1
<1>5. CASE UNCHANGED cpending
  BY <1>2, <1>5
<1>6. ASSUME NEW c \in Clients, ClientReceiveUnopened(c) PROVE LogInv'
  BY <1>1, <1>2, <1>6, UnopenedShrinks
<1> QED
  BY <1>3, <1>4, <1>5, <1>6
  DEF Next, vars, clientVars, AppendEntry, Publish, Announce, SyncReplica, ReceiveProof, WitnessReceive, WitnessRetry,
      WitnessProcess, WitnessReceiveUnopened, WitnessRestart, ClientSave, ClientSync

\* A step of the system is a step of the log that clients read, or none.
Heads == [c \in Clients |-> TreeOf(chead[c])]
Kept == [c \in Clients |-> TreeOf(saved[c])]

LEMMA HeadMoves ==
  ASSUME TypeOK, NEW c \in Clients, NEW n, chead' = [chead EXCEPT ![c] = n]
  PROVE  Heads' = [Heads EXCEPT ![c] = TreeOf(n)]
<1>1. \A d \in Clients : chead'[d] = IF d = c THEN n ELSE chead[d]
  BY DEF TypeOK
<1>2. \A d \in Clients : TreeOf(chead'[d]) = IF d = c THEN TreeOf(n) ELSE TreeOf(chead[d])
  BY <1>1
<1>3. Heads' = [d \in Clients |-> TreeOf(chead'[d])]
  BY DEF Heads, TreeOf
<1> QED
  BY <1>2, <1>3 DEF Heads

LEMMA LogSteps ==
  ASSUME LogInv, LogIsOne', QuorumsMeet, K >= 1, [Next]_vars
  PROVE  [Log!Next]_(Log!vars)
<1>1. TypeOK /\ notes \subseteq notes' /\ CertifiedTrees \subseteq CertifiedTrees'
  BY NotesGrow, CertifiedStays DEF LogInv, SignatureInv
<1>2. ASSUME UNCHANGED <<chead, saved>> PROVE [Log!Next]_(Log!vars)
  <2>1. UNCHANGED <<Heads, Kept>>
    BY <1>2 DEF Heads, Kept
  <2> QED
    BY <1>1, <2>1 DEF Log!Next, Log!Certify, Log!vars, Heads, Kept, LogIsOne, Log!OneHistory, Log!Contains
<1>3. ASSUME UNCHANGED <<notes>> PROVE CertifiedTrees' = CertifiedTrees
  BY <1>3 DEF CertifiedTrees, Certified, SignedBy
<1>4. ASSUME NEW c \in Clients, NEW n \in Notes, Gathered(n), NEW ns, ClientProcess(c, n, ns)
      PROVE  [Log!Next]_(Log!vars)
  <2>1. CASE ClientAccept(c, n, ns)
    <3>1. /\ n.cp.tree \in CertifiedTrees /\ Accepts(c, HeadTree(c), n.cp.tree) /\ n.cp.tree \in Trees
          /\ chead' = [chead EXCEPT ![c] = NewHead(c, n)]
      BY <1>4, <2>1, AcceptedIsCertified, NoteTypes DEF ClientAccept
    <3>2. TreeOf(NewHead(c, n)) = n.cp.tree
      BY <1>1, NewHeadType, ConstantsAssumption DEF TreeOf
    <3>3. Heads' = [Heads EXCEPT ![c] = n.cp.tree]
      BY <1>1, <3>1, <3>2, HeadMoves
    <3>4. Heads[c] = HeadTree(c)
      BY DEF Heads, HeadTree
    <3>5. Heads[c] # None => Extends(n.cp.tree, Heads[c])
      BY <1>1, <3>1, <3>4, HeadTreeType, AcceptsExtends
    <3>6. UNCHANGED <<CertifiedTrees, Kept>>
      BY <1>3, <1>4 DEF ClientProcess, Kept
    <3>7. CASE Heads'[c] # Heads[c]
      <4>1. Heads[c] # None => Log!Contains(n.cp.tree, Heads[c])
        BY <3>5 DEF Extends, Log!Contains
      <4>2. Log!Advance(c)
        BY <3>1, <3>3, <3>6, <3>7, <4>1 DEF Log!Advance, Heads, Kept
      <4> QED
        BY <4>2 DEF Log!Next
    <3>8. CASE Heads'[c] = Heads[c]
      <4>1. Heads' = Heads
        BY <3>3, <3>8 DEF Heads
      <4> QED
        BY <3>6, <4>1 DEF Log!vars, Heads, Kept
    <3> QED
      BY <3>7, <3>8
  <2>2. CASE UNCHANGED chead
    BY <1>2, <1>4, <2>2 DEF ClientProcess
  <2> QED
    BY <1>4, <2>1, <2>2 DEF ClientProcess, ClientPark, ClientAccuse, ClientDrop
<1>5. ASSUME NEW c \in Clients, ClientReceive(c) \/ ClientRetry(c) PROVE [Log!Next]_(Log!vars)
  BY <1>4, <1>5, ProcessesGathered
<1>6. ASSUME NEW c \in Clients, ClientSave(c) PROVE [Log!Next]_(Log!vars)
  <2>1. UNCHANGED <<chead, notes>> /\ saved' = [saved EXCEPT ![c] = chead[c]]
    BY <1>6 DEF ClientSave, topicVars
  <2>2. Kept' = [Kept EXCEPT ![c] = Heads[c]]
    <3>1. \A d \in Clients : saved'[d] = IF d = c THEN chead[c] ELSE saved[d]
      BY <1>1, <2>1 DEF TypeOK
    <3> QED
      BY <3>1 DEF Kept, Heads
  <2>3. UNCHANGED <<CertifiedTrees, Heads>>
    BY <1>3, <2>1 DEF Heads
  <2>4. CASE Kept'[c] # Kept[c]
    <3>1. Log!Keep(c)
      BY <2>2, <2>3, <2>4 DEF Log!Keep, Heads, Kept
    <3> QED
      BY <3>1 DEF Log!Next
  <2>5. CASE Kept'[c] = Kept[c]
    <3>1. Kept' = Kept
      BY <2>2, <2>5 DEF Kept
    <3> QED
      BY <2>3, <3>1 DEF Log!vars, Heads, Kept
  <2> QED
    BY <2>4, <2>5
<1>7. ASSUME NEW c \in Clients, ClientRestart(c) PROVE [Log!Next]_(Log!vars)
  <2>1. UNCHANGED <<saved, notes>> /\ chead' = [chead EXCEPT ![c] = saved[c]]
    BY <1>7 DEF ClientRestart, topicVars
  <2>2. Heads' = [Heads EXCEPT ![c] = Kept[c]]
    BY <1>1, <2>1, HeadMoves DEF Kept
  <2>3. UNCHANGED <<CertifiedTrees, Kept>>
    BY <1>3, <2>1 DEF Kept
  <2>4. CASE Heads'[c] # Heads[c]
    <3>1. Log!Resume(c)
      BY <2>2, <2>3, <2>4 DEF Log!Resume, Heads, Kept
    <3> QED
      BY <3>1 DEF Log!Next
  <2>5. CASE Heads'[c] = Heads[c]
    <3>1. Heads' = Heads
      BY <2>2, <2>5 DEF Heads
    <3> QED
      BY <2>3, <3>1 DEF Log!vars, Heads, Kept
  <2> QED
    BY <2>4, <2>5
\* Without countersignatures the document's checkpoint is never accepted.
<1>8. ASSUME NEW c \in Clients, ClientSync(c) PROVE FALSE
  <2>1. PICK t \in replica[c] : MeetsThreshold(Note(OriginOf[Follows[c]], t, {}))
    BY <1>8 DEF ClientSync
  <2>2. Cardinality(Note(OriginOf[Follows[c]], t, {}).sigs) = 0
    BY FS_EmptySet DEF Note
  <2> QED
    BY <2>1, <2>2, ConstantsAssumption DEF MeetsThreshold
<1> QED
  BY <1>2, <1>5, <1>6, <1>7, <1>8
  DEF Next, vars, clientVars, AppendEntry, Publish, Announce, SyncReplica, ReceiveProof, WitnessReceive, WitnessRetry,
      WitnessProcess, WitnessReceiveUnopened, WitnessRestart, ClientReceiveUnopened

\* If K witnesses of two quorums always meet in one that keeps its head, the
\* clients together read one append-only log: only certified trees become a
\* head (Client.Update), each contains the one before, and the head file is a
\* point of the same history (HeadNote, SetHead).
THEOREM OneLogIsRead ==
  ASSUME QuorumsMeet, K >= 1
  PROVE  Spec => ReadsOneLog
<1>1. Init => Log!Init
  BY DEF Init, Log!Init, CertifiedTrees, TreeOf
<1>2. Init => LogInv
  BY TypeInit DEF Init, LogInv, SignatureInv, GatheredWereBroadcast, ParkedWereBroadcast, SignedForLog,
                  SignaturesAreBehindHead
<1>3. LogInv => LogIsOne
  BY CertifiedIsOneHistory DEF LogInv
<1>4. LogInv /\ LogIsOne' /\ [Next]_vars => [Log!Next]_(Log!vars)
  BY LogSteps
<1> QED
  BY <1>1, <1>2, <1>3, <1>4, LogStep, PTL DEF Spec, ReadsOneLog, Log!Spec

-----------------------------------------------------------------------------
(* Delivered notes *)

\* What became of a note that gossip delivered to a client: it is parked, or in
\* the head, in both with all its signatures; or its tree cannot be read on
\* from the head, which is longer or of another branch.
ClientKeeps(c, n) ==
  \/ \E p \in cpending[c] : p.cp = n.cp /\ n.sigs \subseteq p.sigs
  \/ chead[c] # None /\ chead[c].cp.tree = n.cp.tree /\ n.sigs \subseteq chead[c].sigs
  \/ chead[c] # None /\ ~Extends(n.cp.tree, chead[c].cp.tree)

\* To a witness: its text is parked, or its tree is the head and signed; or the
\* tree is not one that the head could grow to.
WitnessKeeps(w, n) ==
  \/ \E p \in wpending[w] : p.cp = n.cp
  \/ whead[w] = n.cp.tree /\ SignedBy(w, n.cp.tree)
  \/ whead[w] # None /\ ~Extends(n.cp.tree, whead[w])

\* Only a message of its text that does not open makes a reader forget a note.
NothingIsLost == \A n \in Notes : n.cp.origin = LogOrigin =>
  /\ \A w \in Stable : n \in got[w] => WitnessKeeps(w, n) \/ n.cp \in evicted[w]
  /\ \A c \in Clients \ Restarting : n \in got[c] => ClientKeeps(c, n) \/ n.cp \in evicted[c]

\* A client parks one note for each text.
ParkedOnce == \A c \in Clients : \A p, q \in cpending[c] : p.cp = q.cp => p = q

KeptInv == TypeOK /\ ParkedOnce /\ NothingIsLost


\* A tree as long as another, or shorter, extends it only if it is the same.
LEMMA NotBeyond ==
  ASSUME NEW s \in Trees, NEW t \in Trees, Len(t) <= Len(s), t # s
  PROVE  ~Extends(t, s)
<1> SUFFICES ASSUME Extends(t, s) PROVE FALSE
  OBVIOUS
<1>1. Len(s) \in Nat /\ Len(t) \in Nat /\ Len(s) = Len(t)
  BY DEF Extends
<1>2. \A i \in 1 .. Len(s) : s[i] = t[i]
  BY DEF Extends
<1> QED
  BY <1>1, <1>2

\* What a reader does with a note whose tree its head could not grow to.
LEMMA RefusedIsBehind ==
  ASSUME NEW r, NEW head \in Trees, NEW tree \in Trees,
         IsRollback(head, tree) \/ IsFork(head, tree) \/ IsInconsistent(r, head, tree)
  PROVE  ~Extends(tree, head)
<1>1. Len(head) \in Nat /\ Len(tree) \in Nat
  OBVIOUS
<1>2. CASE IsInconsistent(r, head, tree)
  BY <1>2 DEF IsInconsistent
<1>3. CASE IsRollback(head, tree)
  BY <1>1, <1>3 DEF IsRollback, Extends
<1>4. CASE IsFork(head, tree)
  BY <1>1, <1>4, NotBeyond DEF IsFork
<1> QED
  BY <1>2, <1>3, <1>4

\* What could not be read on from a head, cannot be read on from a later one.
LEMMA StaysBehind ==
  ASSUME NEW r, NEW head \in Trees, NEW tree \in Trees, NEW t \in Trees,
         Accepts(r, head, tree), (t = head /\ tree # head) \/ ~Extends(t, head), head # None
  PROVE  ~Extends(t, tree)
<1>1. Extends(tree, head)
  BY AcceptsExtends
<1>2. CASE ~Extends(t, head)
  BY <1>1, <1>2, ExtendsTransitive
<1>3. CASE t = head /\ tree # head
  <2>1. Len(t) <= Len(tree)
    BY <1>1, <1>3 DEF Extends
  <2> QED
    BY <1>3, <2>1, NotBeyond
<1> QED
  BY <1>2, <1>3

\* Only the parked note of its text is replaced.
LEMMA ParkKeeps ==
  ASSUME NEW parked \in SUBSET Notes, NEW n
  PROVE  /\ \A p \in parked : p.cp # n.cp => p \in Unpark(parked, n) /\ p \in Park(parked, n)
         /\ n \in Park(parked, n)
BY DEF Park, Unpark

LEMMA ClientKeepsNote ==
  ASSUME TypeOK, NEW c \in Clients, NEW m \in Notes, NEW ns, ClientProcess(c, m, ns),
         \A p \in cpending[c] : p.cp = m.cp => p.sigs \subseteq m.sigs,
         NEW n \in Notes, n.cp.origin = LogOrigin,
         ClientKeeps(c, n) \/ (n.cp = m.cp /\ n.sigs \subseteq m.sigs)
  PROVE  ClientKeeps(c, n)'
<1>1. /\ cpending \in [Clients -> SUBSET Notes] /\ chead \in [Clients -> Notes \cup {None}]
      /\ n.cp.tree \in Trees /\ m.cp.tree \in Trees
  BY NoteTypes DEF TypeOK
<1>2. /\ HeadTree(c) \in Trees \cup {None}
      /\ HeadTree(c) = None <=> chead[c] = None
      /\ chead[c] # None => HeadTree(c) = chead[c].cp.tree /\ chead[c] \in Notes
  BY HeadTreeType
<1>3. ClientAccept(c, m, ns) => chead'[c] = NewHead(c, m)
  BY <1>1 DEF ClientAccept
<1>4. ~ClientAccept(c, m, ns) => chead'[c] = chead[c]
  BY DEF ClientProcess, ClientPark, ClientAccuse, ClientDrop
<1>5. cpending'[c] = Unpark(cpending[c], m) \/ cpending'[c] = Park(cpending[c], m)
  BY <1>1 DEF ClientProcess, ClientAccept, ClientPark, ClientAccuse, ClientDrop
<1>6. NewHead(c, m) # None /\ NewHead(c, m).cp.tree = m.cp.tree /\ m.sigs \subseteq NewHead(c, m).sigs
      /\ (HeadTree(c) = m.cp.tree => chead[c].sigs \subseteq NewHead(c, m).sigs)
  BY NewHeadType, ConstantsAssumption DEF NewHead, Merge
<1>7. CASE n.cp = m.cp /\ n.sigs \subseteq m.sigs
  <2>1. CASE ClientAccept(c, m, ns)
    BY <1>3, <1>6, <1>7, <2>1 DEF ClientKeeps
  <2>2. CASE ClientPark(c, m, ns)
    <3>1. m \in cpending'[c]
      BY <1>1, <2>2, ParkKeeps DEF ClientPark
    <3> QED
      BY <1>7, <3>1 DEF ClientKeeps
  <2>3. CASE ClientAccuse(c, m, ns) \/ ClientDrop(c, m, ns)
    <3>1. IsRollback(HeadTree(c), m.cp.tree) \/ IsFork(HeadTree(c), m.cp.tree)
          \/ IsInconsistent(c, HeadTree(c), m.cp.tree)
      BY <1>7, <2>3 DEF ClientAccuse, ClientDrop
    <3>2. HeadTree(c) # None
      BY <3>1 DEF IsRollback, IsFork, IsInconsistent, NeedsProof
    <3>3. ~Extends(m.cp.tree, HeadTree(c))
      BY <1>1, <1>2, <3>1, <3>2, RefusedIsBehind
    <3>4. chead'[c] = chead[c]
      BY <2>3 DEF ClientAccuse, ClientDrop
    <3> QED
      BY <1>2, <1>7, <3>2, <3>3, <3>4 DEF ClientKeeps
  <2> QED
    BY <2>1, <2>2, <2>3 DEF ClientProcess
<1>8. ASSUME NEW p \in cpending[c], p.cp = n.cp, n.sigs \subseteq p.sigs, p.cp # m.cp
      PROVE  ClientKeeps(c, n)'
  <2>1. p \in cpending'[c]
    BY <1>1, <1>5, <1>8, ParkKeeps
  <2> QED
    BY <1>8, <2>1 DEF ClientKeeps
<1>9. ASSUME chead[c] # None, chead[c].cp.tree = n.cp.tree, n.sigs \subseteq chead[c].sigs
      PROVE  ClientKeeps(c, n)'
  <2>1. CASE ~ClientAccept(c, m, ns)
    BY <1>4, <1>9, <2>1 DEF ClientKeeps
  <2>2. CASE ClientAccept(c, m, ns) /\ HeadTree(c) = m.cp.tree
    BY <1>2, <1>3, <1>6, <1>9, <2>2 DEF ClientKeeps
  <2>3. CASE ClientAccept(c, m, ns) /\ HeadTree(c) # m.cp.tree
    <3>1. Accepts(c, HeadTree(c), m.cp.tree)
      BY <2>3 DEF ClientAccept
    <3>2. ~Extends(n.cp.tree, m.cp.tree)
      BY <1>1, <1>2, <1>9, <2>3, <3>1, StaysBehind
    <3> QED
      BY <1>3, <1>6, <2>3, <3>2 DEF ClientKeeps
  <2> QED
    BY <2>1, <2>2, <2>3
<1>10. ASSUME chead[c] # None, ~Extends(n.cp.tree, chead[c].cp.tree)
       PROVE  ClientKeeps(c, n)'
  <2>1. CASE ~ClientAccept(c, m, ns)
    BY <1>4, <1>10, <2>1 DEF ClientKeeps
  <2>2. CASE ClientAccept(c, m, ns)
    <3>1. Accepts(c, HeadTree(c), m.cp.tree)
      BY <2>2 DEF ClientAccept
    <3>2. ~Extends(n.cp.tree, m.cp.tree)
      BY <1>1, <1>2, <1>10, <3>1, StaysBehind
    <3> QED
      BY <1>3, <1>6, <2>2, <3>2 DEF ClientKeeps
  <2> QED
    BY <2>1, <2>2
<1>11. ASSUME NEW p \in cpending[c], p.cp = n.cp, n.sigs \subseteq p.sigs, p.cp = m.cp
       PROVE  n.cp = m.cp /\ n.sigs \subseteq m.sigs
  BY <1>11
<1> QED
  BY <1>7, <1>8, <1>9, <1>10, <1>11 DEF ClientKeeps

LEMMA WitnessKeepsNote ==
  ASSUME TypeOK, NEW w \in Witnesses, NEW m \in Notes, NEW ns, WitnessProcess(w, m, ns),
         NEW n \in Notes, n.cp.origin = LogOrigin,
         WitnessKeeps(w, n) \/ n.cp = m.cp
  PROVE  WitnessKeeps(w, n)'
<1>1. /\ wpending \in [Witnesses -> SUBSET Notes] /\ whead \in [Witnesses -> Trees \cup {None}]
      /\ n.cp.tree \in Trees /\ m.cp.tree \in Trees
      /\ n.cp \in Checkpoints /\ m.cp \in Checkpoints
  BY NoteTypes DEF TypeOK
<1>2. Cosign(w, m, ns) => whead'[w] = m.cp.tree
  BY <1>1 DEF Cosign
<1>3. ~Cosign(w, m, ns) => whead'[w] = whead[w]
  BY DEF WitnessProcess, WitnessPark, WitnessAccuse, WitnessDrop
<1>4. wpending'[w] = Unpark(wpending[w], m) \/ wpending'[w] = Park(wpending[w], m)
  BY <1>1 DEF WitnessProcess, Cosign, WitnessPark, WitnessAccuse, WitnessDrop
<1>5. notes \subseteq notes'
  BY DEF WitnessProcess, Cosign, WitnessPark, WitnessAccuse, WitnessDrop
<1>6. \A t : SignedBy(w, t) => SignedBy(w, t)'
  BY <1>5 DEF SignedBy
<1>7. ASSUME Cosign(w, m, ns) PROVE SignedBy(w, m.cp.tree)'
  <2> DEFINE cosigned == [m EXCEPT !.sigs = @ \cup {w}]
  <2>1. cosigned \in notes'
    BY <1>7 DEF Cosign
  <2>2. w \in cosigned.sigs /\ cosigned.cp = m.cp
    BY DEF Notes
  <2>3. m.cp = [origin |-> LogOrigin, tree |-> m.cp.tree]
    BY <1>1, <1>7 DEF Cosign, Checkpoints
  <2> QED
    BY <2>1, <2>2, <2>3 DEF SignedBy
<1>8. CASE n.cp = m.cp
  <2>1. CASE Cosign(w, m, ns)
    BY <1>2, <1>7, <1>8, <2>1 DEF WitnessKeeps
  <2>2. CASE WitnessPark(w, m, ns)
    <3>1. m \in wpending'[w]
      BY <1>1, <2>2, ParkKeeps DEF WitnessPark
    <3> QED
      BY <1>8, <3>1 DEF WitnessKeeps
  <2>3. CASE WitnessAccuse(w, m, ns) \/ WitnessDrop(w, m, ns)
    <3>1. IsRollback(whead[w], m.cp.tree) \/ IsFork(whead[w], m.cp.tree)
          \/ IsInconsistent(w, whead[w], m.cp.tree)
      BY <1>8, <2>3 DEF WitnessAccuse, WitnessDrop
    <3>2. whead[w] # None
      BY <3>1 DEF IsRollback, IsFork, IsInconsistent, NeedsProof
    <3>3. ~Extends(m.cp.tree, whead[w])
      BY <1>1, <3>1, <3>2, RefusedIsBehind
    <3>4. whead'[w] = whead[w]
      BY <2>3 DEF WitnessAccuse, WitnessDrop
    <3> QED
      BY <1>8, <3>2, <3>3, <3>4 DEF WitnessKeeps
  <2> QED
    BY <2>1, <2>2, <2>3 DEF WitnessProcess
<1>9. ASSUME NEW p \in wpending[w], p.cp = n.cp, p.cp # m.cp
      PROVE  WitnessKeeps(w, n)'
  <2>1. p \in wpending'[w]
    BY <1>1, <1>4, <1>9, ParkKeeps
  <2> QED
    BY <1>9, <2>1 DEF WitnessKeeps
<1>10. ASSUME \/ whead[w] = n.cp.tree /\ SignedBy(w, n.cp.tree)
              \/ whead[w] # None /\ ~Extends(n.cp.tree, whead[w])
       PROVE  WitnessKeeps(w, n)'
  <2>1. whead[w] \in Trees /\ whead[w] # None
    BY <1>1, <1>10, ConstantsAssumption
  <2>2. CASE ~Cosign(w, m, ns)
    BY <1>3, <1>6, <1>10, <2>2 DEF WitnessKeeps
  <2>3. CASE Cosign(w, m, ns) /\ n.cp.tree = m.cp.tree
    BY <1>2, <1>7, <2>3 DEF WitnessKeeps
  <2>4. CASE Cosign(w, m, ns) /\ n.cp.tree # m.cp.tree
    <3>1. Accepts(w, whead[w], m.cp.tree)
      BY <2>4 DEF Cosign
    <3>2. ~Extends(n.cp.tree, m.cp.tree)
      BY <1>1, <1>10, <2>1, <2>4, <3>1, StaysBehind
    <3>3. m.cp.tree # None
      BY <1>1, ConstantsAssumption
    <3> QED
      BY <1>2, <2>4, <3>2, <3>3 DEF WitnessKeeps
  <2> QED
    BY <2>2, <2>3, <2>4
<1> QED
  BY <1>8, <1>9, <1>10 DEF WitnessKeeps


\* Sync moves the head as an accepted note does, and parks nothing.
LEMMA SyncKeepsNote ==
  ASSUME TypeOK, NEW c \in Clients, ClientSync(c),
         NEW n \in Notes, ClientKeeps(c, n)
  PROVE  ClientKeeps(c, n)'
<1>1. PICK t \in replica[c] :
        LET m == Note(OriginOf[Follows[c]], t, {}) IN
        /\ Accepts(c, HeadTree(c), t)
        /\ chead' = [chead EXCEPT ![c] = NewHead(c, m)]
  BY DEF ClientSync
<1> DEFINE m == Note(OriginOf[Follows[c]], t, {})
<1>2. /\ m \in Notes /\ m.cp.tree = t /\ t \in Trees /\ n.cp.tree \in Trees
      /\ chead \in [Clients -> Notes \cup {None}] /\ cpending' = cpending
  BY NoteTypes, ConstantsAssumption DEF TypeOK, Note, ClientSync
<1>3. /\ HeadTree(c) \in Trees \cup {None}
      /\ HeadTree(c) = None <=> chead[c] = None
      /\ chead[c] # None => HeadTree(c) = chead[c].cp.tree /\ chead[c] \in Notes
  BY HeadTreeType
<1>4. chead'[c] = NewHead(c, m)
  BY <1>1, <1>2
<1>5. /\ NewHead(c, m) # None /\ NewHead(c, m).cp.tree = t
      /\ (HeadTree(c) = t => chead[c].sigs \subseteq NewHead(c, m).sigs)
  BY <1>2, NewHeadType, ConstantsAssumption DEF NewHead, Merge
<1> HIDE DEF m
<1>6. CASE \E p \in cpending[c] : p.cp = n.cp /\ n.sigs \subseteq p.sigs
  BY <1>2, <1>6 DEF ClientKeeps
<1>7. CASE chead[c] # None /\ HeadTree(c) = t /\ chead[c].cp.tree = n.cp.tree /\ n.sigs \subseteq chead[c].sigs
  BY <1>3, <1>4, <1>5, <1>7 DEF ClientKeeps
<1>8. CASE chead[c] # None /\ (\/ HeadTree(c) # t /\ chead[c].cp.tree = n.cp.tree
                               \/ ~Extends(n.cp.tree, chead[c].cp.tree))
  <2>1. ~Extends(n.cp.tree, t)
    BY <1>1, <1>2, <1>3, <1>8, StaysBehind
  <2> QED
    BY <1>4, <1>5, <2>1 DEF ClientKeeps
<1> QED
  BY <1>6, <1>7, <1>8 DEF ClientKeeps

\* A reader whose queue, head and deliveries stay as they are keeps what it has.
LEMMA OthersKeep ==
  ASSUME NothingIsLost, notes \subseteq notes', \A r \in Readers : evicted[r] \subseteq evicted'[r]
  PROVE  /\ \A w \in Stable : UNCHANGED <<got[w], whead[w], wpending[w]>> =>
              \A n \in Notes : n.cp.origin = LogOrigin /\ n \in got'[w] =>
                                  WitnessKeeps(w, n)' \/ n.cp \in evicted'[w]
         /\ \A c \in Clients \ Restarting : UNCHANGED <<got[c], chead[c], cpending[c]>> =>
              \A n \in Notes : n.cp.origin = LogOrigin /\ n \in got'[c] =>
                                  ClientKeeps(c, n)' \/ n.cp \in evicted'[c]
BY DEF NothingIsLost, WitnessKeeps, ClientKeeps, SignedBy

LEMMA HeardIs ==
  ASSUME TypeOK, NEW r \in Readers, NEW ns, got' = Heard(r, ns)
  PROVE  got'[r] \subseteq got[r] \cup ns /\ \A s \in Readers \ {r} : got'[s] = got[s]
BY DEF TypeOK, Heard

LEMMA WitnessStepKeeps ==
  ASSUME KeptInv, NEW w \in Witnesses, WitnessReceive(w) \/ WitnessRetry(w), notes \subseteq notes'
  PROVE  ParkedOnce' /\ NothingIsLost'
<1>1. TypeOK /\ NothingIsLost /\ ParkedOnce
  BY DEF KeptInv
<1>2. PICK m \in Notes : \E s \in SUBSET {m} : WitnessProcess(w, m, s)
  BY <1>1 DEF WitnessReceive, WitnessRetry, TypeOK
<1>3. PICK ns \in SUBSET {m} : WitnessProcess(w, m, ns)
  BY <1>2
<1> DEFINE cosigned == [m EXCEPT !.sigs = @ \cup {w}]
<1>4. /\ got' = Heard(w, ns) \/ got' = Heard(w, ns \cup {cosigned})
      /\ UNCHANGED <<chead, cpending, evicted>>
      /\ \A v \in Witnesses \ {w} : whead'[v] = whead[v] /\ wpending'[v] = wpending[v]
  BY <1>1, <1>3 DEF WitnessProcess, Cosign, WitnessPark, WitnessAccuse, WitnessDrop, clientVars, TypeOK
<1>5. cosigned.cp = m.cp
  BY DEF Notes
<1> HIDE DEF cosigned
<1>6. got'[w] \subseteq got[w] \cup {m, cosigned} /\ \A s \in Readers \ {w} : got'[s] = got[s]
  BY <1>1, <1>4, HeardIs
<1>7. ASSUME w \in Stable, NEW n \in Notes, n.cp.origin = LogOrigin, n \in got'[w]
      PROVE  WitnessKeeps(w, n)' \/ n.cp \in evicted'[w]
  <2>1. WitnessKeeps(w, n) \/ n.cp = m.cp \/ n.cp \in evicted[w]
    BY <1>1, <1>5, <1>6, <1>7 DEF NothingIsLost
  <2>2. CASE n.cp \in evicted[w]
    BY <1>4, <2>2
  <2> QED
    BY <1>1, <1>3, <1>7, <2>1, <2>2, WitnessKeepsNote
<1>8. \A c \in Clients : c \in Readers \ {w}
  BY ConstantsAssumption
<1>9. /\ \A v \in Stable \ {w} : UNCHANGED <<got[v], whead[v], wpending[v]>>
      /\ \A c \in Clients : UNCHANGED <<got[c], chead[c], cpending[c]>>
  BY <1>4, <1>6, <1>8
<1>10. NothingIsLost'
  BY <1>1, <1>4, <1>7, <1>9, OthersKeep DEF NothingIsLost
<1>11. ParkedOnce'
  BY <1>1, <1>4 DEF ParkedOnce
<1> QED
  BY <1>10, <1>11

\* What a client processes has the signatures of all it had parked of the text.
LEMMA Pooled ==
  ASSUME TypeOK, ParkedOnce, NEW c \in Clients, ClientReceive(c) \/ ClientRetry(c)
  PROVE  \E m \in Notes, ns \in SUBSET Notes :
           /\ ClientProcess(c, m, ns)
           /\ \A p \in cpending[c] : p.cp = m.cp => p.sigs \subseteq m.sigs
           /\ \A n \in ns : n.cp = m.cp /\ n.sigs \subseteq m.sigs
<1>1. CASE ClientReceive(c)
  <2>1. PICK n \in notes : ClientProcess(c, WithParked(c, n), {n})
    BY <1>1 DEF ClientReceive
  <2>2. n \in Notes /\ WithParked(c, n) \in Notes /\ WithParked(c, n).cp = n.cp
    BY <2>1, WithParkedType DEF TypeOK
  <2>3. WithParked(c, n).sigs = n.sigs \cup UNION {p.sigs : p \in {q \in cpending[c] : q.cp = n.cp}}
    BY <2>2 DEF WithParked, Notes
  <2>4. \A p \in cpending[c] : p.cp = n.cp => p.sigs \subseteq WithParked(c, n).sigs
    BY <2>3
  <2> QED
    BY <2>1, <2>2, <2>3, <2>4
<1>2. CASE ClientRetry(c)
  <2>1. PICK m \in cpending[c] : ClientProcess(c, m, {})
    BY <1>2 DEF ClientRetry
  <2>2. m \in Notes /\ \A p \in cpending[c] : p.cp = m.cp => p.sigs \subseteq m.sigs
    BY DEF TypeOK, ParkedOnce
  <2> QED
    BY <2>1, <2>2
<1> QED
  BY <1>1, <1>2

LEMMA ClientStepKeeps ==
  ASSUME KeptInv, NEW c \in Clients, ClientReceive(c) \/ ClientRetry(c)
  PROVE  ParkedOnce' /\ NothingIsLost'
<1>1. TypeOK /\ NothingIsLost /\ ParkedOnce
  BY DEF KeptInv
<1>2. PICK m \in Notes, ns \in SUBSET Notes :
        /\ ClientProcess(c, m, ns)
        /\ \A p \in cpending[c] : p.cp = m.cp => p.sigs \subseteq m.sigs
        /\ \A n \in ns : n.cp = m.cp /\ n.sigs \subseteq m.sigs
  BY <1>1, Pooled
<1>3. /\ got' = Heard(c, ns) /\ UNCHANGED <<notes, whead, wpending, evicted>>
      /\ \A d \in Clients \ {c} : chead'[d] = chead[d] /\ cpending'[d] = cpending[d]
      /\ cpending'[c] = Unpark(cpending[c], m) \/ cpending'[c] = Park(cpending[c], m)
  BY <1>1, <1>2 DEF ClientProcess, ClientAccept, ClientPark, ClientAccuse, ClientDrop, witnessVars, TypeOK
<1>4. got'[c] \subseteq got[c] \cup ns /\ \A s \in Readers \ {c} : got'[s] = got[s]
  BY <1>1, <1>3, HeardIs
<1>5. ASSUME c \notin Restarting, NEW n \in Notes, n.cp.origin = LogOrigin, n \in got'[c]
      PROVE  ClientKeeps(c, n)' \/ n.cp \in evicted'[c]
  <2>1. ClientKeeps(c, n) \/ (n.cp = m.cp /\ n.sigs \subseteq m.sigs) \/ n.cp \in evicted[c]
    BY <1>1, <1>2, <1>4, <1>5 DEF NothingIsLost
  <2>2. CASE n.cp \in evicted[c]
    BY <1>3, <2>2
  <2> QED
    BY <1>1, <1>2, <1>5, <2>1, <2>2, ClientKeepsNote
<1>6. /\ \A w \in Witnesses : UNCHANGED <<got[w], whead[w], wpending[w]>>
      /\ \A d \in Clients \ {c} : UNCHANGED <<got[d], chead[d], cpending[d]>>
  BY <1>3, <1>4, ConstantsAssumption
<1>7. notes \subseteq notes'
  BY <1>3
<1>8. NothingIsLost'
  BY <1>1, <1>3, <1>5, <1>6, <1>7, OthersKeep DEF NothingIsLost
<1>9. ParkedOnce'
  BY <1>1, <1>3 DEF ParkedOnce, Park, Unpark
<1> QED
  BY <1>8, <1>9

LEMMA KeptStep == KeptInv /\ [Next]_vars => KeptInv'
<1> SUFFICES ASSUME KeptInv, [Next]_vars PROVE KeptInv'
  OBVIOUS
<1>1. TypeOK /\ NothingIsLost /\ ParkedOnce /\ TypeOK' /\ notes \subseteq notes'
  BY TypeStep, NotesGrow DEF KeptInv
<1> SUFFICES ParkedOnce' /\ NothingIsLost'
  BY <1>1 DEF KeptInv
<1>2. ASSUME UNCHANGED <<got, witnessVars, chead, cpending, evicted>>
      PROVE  ParkedOnce' /\ NothingIsLost'
  <2>1. UNCHANGED <<got, whead, wpending, chead, cpending, evicted>>
    BY <1>2 DEF witnessVars
  <2> QED
    BY <1>1, <2>1, OthersKeep DEF ParkedOnce, NothingIsLost
<1>3. ASSUME NEW o \in Operators, AppendEntry(o) \/ Publish(o) \/ Announce(o)
      PROVE  ParkedOnce' /\ NothingIsLost'
  BY <1>2, <1>3 DEF AppendEntry, Publish, Announce, topicVars, clientVars
<1>4. ASSUME NEW r \in Readers, SyncReplica(r) \/ ReceiveProof(r)
      PROVE  ParkedOnce' /\ NothingIsLost'
  BY <1>2, <1>4 DEF SyncReplica, ReceiveProof, topicVars, clientVars
<1>5. ASSUME NEW w \in Witnesses, WitnessReceive(w) \/ WitnessRetry(w)
      PROVE  ParkedOnce' /\ NothingIsLost'
  BY <1>1, <1>5, WitnessStepKeeps
<1>6. ASSUME NEW w \in Witnesses, WitnessRestart(w)
      PROVE  ParkedOnce' /\ NothingIsLost'
  <2>1. UNCHANGED <<got, chead, cpending, evicted>> /\ \A v \in Stable : whead'[v] = whead[v] /\ wpending'[v] = wpending[v]
    BY <1>1, <1>6 DEF WitnessRestart, topicVars, clientVars, TypeOK
  <2> QED
    BY <1>1, <2>1, OthersKeep DEF ParkedOnce, NothingIsLost
<1>7. ASSUME NEW c \in Clients, ClientReceive(c) \/ ClientRetry(c)
      PROVE  ParkedOnce' /\ NothingIsLost'
  BY <1>7, ClientStepKeeps
<1>8. ASSUME NEW c \in Clients, ClientSave(c)
      PROVE  ParkedOnce' /\ NothingIsLost'
  BY <1>2, <1>8 DEF ClientSave, topicVars
<1>9. ASSUME NEW c \in Clients, ClientSync(c)
      PROVE  ParkedOnce' /\ NothingIsLost'
  <2>1. /\ UNCHANGED <<got, whead, wpending, cpending, evicted>>
        /\ \A d \in Clients \ {c} : chead'[d] = chead[d]
    BY <1>1, <1>9 DEF ClientSync, topicVars, witnessVars, TypeOK
  <2>2. ASSUME c \notin Restarting, NEW n \in Notes, n.cp.origin = LogOrigin, n \in got'[c]
        PROVE  ClientKeeps(c, n)' \/ n.cp \in evicted'[c]
    BY <1>1, <1>9, <2>1, <2>2, SyncKeepsNote DEF NothingIsLost
  <2> QED
    BY <1>1, <2>1, <2>2, OthersKeep DEF ParkedOnce, NothingIsLost
<1>10. ASSUME NEW c \in Clients, ClientRestart(c)
       PROVE  ParkedOnce' /\ NothingIsLost'
  <2>1. /\ UNCHANGED <<got, whead, wpending, evicted>> /\ c \in Restarting /\ cpending'[c] = {}
        /\ \A d \in Clients \ {c} : chead'[d] = chead[d] /\ cpending'[d] = cpending[d]
    BY <1>1, <1>10 DEF ClientRestart, topicVars, witnessVars, TypeOK
  <2> QED
    BY <1>1, <2>1, OthersKeep DEF ParkedOnce, NothingIsLost
<1>11. ASSUME NEW w \in Witnesses, WitnessReceiveUnopened(w)
       PROVE  ParkedOnce' /\ NothingIsLost'
  <2>1. PICK m \in Notes : /\ wpending' = [wpending EXCEPT ![w] = Unpark(@, m)]
                           /\ evicted' = [evicted EXCEPT ![w] = @ \cup {m.cp}]
                           /\ UNCHANGED <<got, notes, whead, chead, cpending>>
    BY <1>1, <1>11, UnopenedForgets DEF topicVars, clientVars
  <2>2. /\ wpending'[w] = Unpark(wpending[w], m) /\ evicted'[w] = evicted[w] \cup {m.cp}
        /\ \A v \in Witnesses \ {w} : wpending'[v] = wpending[v]
        /\ \A r \in Readers : evicted[r] \subseteq evicted'[r]
    BY <1>1, <2>1 DEF TypeOK
  <2>3. ASSUME w \in Stable, NEW n \in Notes, n.cp.origin = LogOrigin, n \in got'[w]
        PROVE  WitnessKeeps(w, n)' \/ n.cp \in evicted'[w]
    <3>1. CASE n.cp \in evicted[w] \/ n.cp = m.cp
      BY <2>2, <3>1
    <3>2. CASE WitnessKeeps(w, n) /\ n.cp # m.cp
      <4>1. \A p \in wpending[w] : p.cp = n.cp => p \in wpending'[w]
        BY <2>2, <3>2 DEF Unpark
      <4> QED
        BY <2>1, <3>2, <4>1 DEF WitnessKeeps, SignedBy
    <3> QED
      BY <1>1, <2>1, <2>3, <3>1, <3>2 DEF NothingIsLost
  <2> QED
    BY <1>1, <2>1, <2>2, <2>3, OthersKeep DEF ParkedOnce, NothingIsLost
<1>12. ASSUME NEW c \in Clients, ClientReceiveUnopened(c)
       PROVE  ParkedOnce' /\ NothingIsLost'
  <2>1. PICK m \in Notes : /\ cpending' = [cpending EXCEPT ![c] = Unpark(@, m)]
                           /\ evicted' = [evicted EXCEPT ![c] = @ \cup {m.cp}]
                           /\ UNCHANGED <<got, notes, whead, wpending, chead>>
    BY <1>1, <1>12, UnopenedForgets DEF topicVars, witnessVars
  <2>2. /\ cpending'[c] = Unpark(cpending[c], m) /\ evicted'[c] = evicted[c] \cup {m.cp}
        /\ \A d \in Clients \ {c} : cpending'[d] = cpending[d]
        /\ \A r \in Readers : evicted[r] \subseteq evicted'[r]
    BY <1>1, <2>1 DEF TypeOK
  <2>3. ASSUME c \notin Restarting, NEW n \in Notes, n.cp.origin = LogOrigin, n \in got'[c]
        PROVE  ClientKeeps(c, n)' \/ n.cp \in evicted'[c]
    <3>1. CASE n.cp \in evicted[c] \/ n.cp = m.cp
      BY <2>2, <3>1
    <3>2. CASE ClientKeeps(c, n) /\ n.cp # m.cp
      <4>1. \A p \in cpending[c] : p.cp = n.cp => p \in cpending'[c]
        BY <2>2, <3>2 DEF Unpark
      <4> QED
        BY <2>1, <3>2, <4>1 DEF ClientKeeps
    <3> QED
      BY <1>1, <2>1, <2>3, <3>1, <3>2 DEF NothingIsLost
  <2>4. ParkedOnce'
    BY <1>1, <1>12, UnopenedShrinks DEF ParkedOnce
  <2> QED
    BY <1>1, <2>1, <2>2, <2>3, <2>4, OthersKeep DEF NothingIsLost
<1>13. CASE UNCHANGED vars
  BY <1>2, <1>13 DEF vars, witnessVars
<1> QED
  BY <1>3, <1>4, <1>5, <1>6, <1>7, <1>8, <1>9, <1>10, <1>11, <1>12, <1>13 DEF Next

\* A reader that never restarts loses no checkpoint of the log that gossip
\* delivered, nor a client one signature on it, but to a message of the same text
\* that does not open (witness.go:141, client.go:228): as long as the reader's
\* history can still grow to it, it waits among the parked or is the head, which
\* a witness has then signed (pending, mergeSignedNotes, retryPending).
THEOREM NoNoteIsLost == Spec => []NothingIsLost
<1>1. Init => KeptInv
  BY TypeInit DEF Init, KeptInv, ParkedOnce, NothingIsLost
<1>2. KeptInv => NothingIsLost
  BY DEF KeptInv
<1> QED
  BY <1>1, <1>2, KeptStep, PTL DEF Spec


=============================================================================
