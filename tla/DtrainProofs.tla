---------------------------- MODULE DtrainProofs ----------------------------
(***************************************************************************)
(* Proofs about Dtrain: its types, that what a collective returns is       *)
(* exact, that with settled membership every collective is a rendezvous,   *)
(* and that none returns an error while no exchange fails.                 *)
(***************************************************************************)
EXTENDS Dtrain, FiniteSetTheorems, TLAPS

(* A call that has a sequence number has one of the program's.             *)
Numbered(m) ==
  /\ pc[m] \in {"looping", "dialing", "counting", "panicked"} => seq[m] \in 1 .. Len(Program)
  /\ pc[m] \in {"called", "ranked"} => seq[m] < Len(Program)

TInv == TypeOK /\ (\A m \in Members : Numbered(m))

Places == {"idle", "called", "ranked", "looping", "dialing", "counting", "panicked"}

LEMMA ProgramFacts ==
  ASSUME setting \in Settings
  PROVE  /\ Program \in Seq(Collectives) /\ Len(Program) \in Nat
         /\ \A k \in 1 .. Len(Program) : Program[k] \in Collectives
         /\ Settled \in BOOLEAN /\ SelfConnect \in BOOLEAN
         /\ Forgetting \subseteq Members \X Members
         /\ Failing \subseteq Members /\ Restarting \subseteq Members
<1>1. /\ setting.program \in Seq(Collectives)
      /\ setting.settled \in BOOLEAN
      /\ setting.forgetting \subseteq Members \X Members
      /\ setting.failing \subseteq Members
      /\ setting.restarting \subseteq Members
      /\ setting.selfConnect \in BOOLEAN
  BY ConstantsAssumption
<1> QED
  BY <1>1 DEF Program, Settled, SelfConnect, Forgetting, Failing, Restarting

LEMMA RankIsNatural ==
  ASSUME NEW S \in SUBSET Members, NEW p \in Nat
  PROVE  RankIn(S, p) \in Nat /\ Cardinality(S) \in Nat
<1>1. IsFiniteSet(S)
  BY ConstantsAssumption, FS_Subset
<1>2. IsFiniteSet({q \in S : q < p})
  BY <1>1, FS_Subset
<1> QED
  BY <1>1, <1>2, FS_CardinalityType DEF RankIn

LEMMA HungUp ==
  ASSUME TypeOK, NEW m \in Members
  PROVE  HangUp(m) \subseteq Exchanges
<1> SUFFICES ASSUME NEW h \in HangUp(m) PROVE h \in Exchanges
  OBVIOUS
<1>1. streams \subseteq Exchanges
  BY DEF TypeOK
<1>2. CASE h \in {s \in streams : s.from # m}
  BY <1>1, <1>2
<1>3. CASE h \in {[s EXCEPT !.open = FALSE] : s \in {t \in streams : t.from = m /\ t.stage \in {"sent", "admitted"}}}
  <2>1. PICK s \in streams : h = [s EXCEPT !.open = FALSE]
    BY <1>3
  <2> QED
    BY <1>1, <2>1 DEF Exchanges
<1> QED
  BY <1>2, <1>3 DEF HangUp

LEMMA TypesHold == Init => TInv
<1> SUFFICES ASSUME Init PROVE TInv
  OBVIOUS
<1>1. setting \in Settings
  BY DEF Init
<1>2. Len(Program) \in Nat
  BY <1>1, ProgramFacts
<1>3. TypeOK
  BY <1>1, <1>2 DEF Init, TypeOK
<1>4. \A m \in Members : Numbered(m)
  BY DEF Init, Numbered
<1> QED
  BY <1>3, <1>4 DEF TInv

\* The part of the types that a call writes.
CallTypes ==
  /\ pc \in [Members -> Places]
  /\ seq \in [Members -> 0 .. Len(Program)]
  /\ among \in [Members -> SUBSET Members]
  /\ rank \in [Members -> Nat]
  /\ left \in [Members -> SUBSET Members]
  /\ room \in [Members -> Nat]
  /\ inbound \in [Members -> Seq(Members)]
  /\ reduced \in [Members -> [Members -> Nat]]
  /\ parts \in [Members -> [Members -> Members \cup {None}]]
  /\ \A m \in Members : Numbered(m)

OtherTypes ==
  /\ setting \in Settings
  /\ known \in [Members -> SUBSET Members]
  /\ restarted \subseteq Members
  /\ streams \subseteq Exchanges
  /\ returned \in [Members -> Results \cup {None}]

LEMMA TypesSplit == TInv <=> CallTypes /\ OtherTypes
BY DEF TInv, TypeOK, CallTypes, OtherTypes, Places

LEMMA CallEnds ==
  ASSUME TInv, NEW m \in Members, Closed(m), setting' = setting, UNCHANGED seq
  PROVE  CallTypes'
<1>1. CallTypes /\ Program' = Program
  BY TypesSplit DEF Program
<1>2. \A p \in Members : Numbered(p)'
  BY <1>1 DEF CallTypes, Closed, Numbered
<1> QED
  BY <1>1, <1>2 DEF CallTypes, Closed, Places

LEMMA TypesStep ==
  ASSUME TInv, [Next]_vars
  PROVE  TInv'
<1> DEFINE Kept == CallTypes' /\ OtherTypes'
<1>0. SUFFICES ASSUME Next PROVE Kept
  <2>1. CASE Next
    BY <1>0, <2>1, TypesSplit DEF TInv, TypeOK, CallTypes, OtherTypes, Places, Numbered, Program, Exchanges, Results, Stages
  <2>2. CASE UNCHANGED vars
    BY <2>2 DEF vars, callVars, TInv, TypeOK, Numbered, Program, Exchanges, Results, Stages
  <2> QED
    BY <2>1, <2>2
<1>1. /\ setting' = setting /\ setting \in Settings
      /\ Program' = Program /\ Exchanges' = Exchanges /\ Results' = Results
  BY <1>0 DEF Next, Held, Program, Exchanges, Results, Stages, TInv, TypeOK
<1>2. /\ Len(Program) \in Nat /\ \A k \in 1 .. Len(Program) : Program[k] \in Collectives
      /\ CallTypes /\ OtherTypes /\ TypeOK
  BY <1>1, ProgramFacts, TypesSplit DEF TInv
<1>3. ASSUME UNCHANGED callVars PROVE CallTypes'
  BY <1>1, <1>2, <1>3 DEF callVars, CallTypes, Numbered
<1>4. ASSUME NEW m \in Members PROVE HangUp(m) \subseteq Exchanges
  BY <1>2, HungUp
<1>5. ASSUME NEW m \in Members, Learn(m) \/ Forget(m) PROVE Kept
  <2>1. CallTypes'
    BY <1>3, <1>5 DEF Learn, Forget
  <2>2. PICK K \in SUBSET Members : known' = [known EXCEPT ![m] = K]
    BY <1>2, <1>5 DEF OtherTypes, Learn, Forget
  <2>3. known' \in [Members -> SUBSET Members]
    BY <1>2, <2>2 DEF OtherTypes
  <2>4. UNCHANGED <<restarted, callVars, streams>>
    BY <1>5 DEF Learn, Forget
  <2> QED
    BY <1>1, <1>2, <2>1, <2>3, <2>4 DEF OtherTypes, callVars
<1>6. ASSUME NEW m \in Members, NEW s \in streams, NEW st \in Stages, Advance(s, st)
      PROVE  streams' \subseteq Exchanges
  BY <1>2, <1>6 DEF OtherTypes, Advance, Exchanges
<1>7. ASSUME NEW m \in Members, Admit(m) \/ Refuse(m) \/ Reply(m) PROVE Kept
  <2>1. CallTypes' /\ UNCHANGED <<known, restarted, callVars>>
    BY <1>3, <1>7 DEF Admit, Refuse, Reply
  <2>2. streams' \subseteq Exchanges
    BY <1>6, <1>7 DEF Admit, Refuse, Reply, Stages
  <2> QED
    BY <1>1, <1>2, <2>1, <2>2 DEF OtherTypes, callVars
<1>8. ASSUME NEW m \in Members, Deliver(m) PROVE Kept
  <2>1. PICK s \in streams : s.to = m /\ Advance(s, "held")
             /\ inbound' \in {inbound, [inbound EXCEPT ![m] = Append(@, s.from)]}
             /\ UNCHANGED <<known, restarted, pc, seq, among, rank, left, room, reduced, parts, returned>>
    BY <1>8 DEF Deliver
  <2>2. streams' \subseteq Exchanges
    BY <1>6, <2>1 DEF Stages
  <2>3. s.from \in Members
    BY <1>2 DEF OtherTypes, Exchanges
  <2>4. inbound' \in [Members -> Seq(Members)]
    <3>1. Append(inbound[m], s.from) \in Seq(Members)
      BY <1>2, <2>3 DEF CallTypes
    <3> QED
      BY <1>2, <2>1, <3>1 DEF CallTypes
  <2>5. CallTypes'
    BY <1>1, <1>2, <2>1, <2>4 DEF CallTypes, Numbered
  <2> QED
    BY <1>1, <1>2, <2>1, <2>2, <2>5 DEF OtherTypes
<1>9. ASSUME NEW m \in Members, ReturnError(m) PROVE Kept
  <2>1. CallTypes'
    BY <1>1, <1>9, CallEnds DEF ReturnError
  <2> QED
    BY <1>1, <1>2, <1>4, <1>9, <2>1 DEF OtherTypes, ReturnError
<1>10. ASSUME NEW m \in Members, Call(m) PROVE Kept
  BY <1>1, <1>2, <1>10 DEF CallTypes, OtherTypes, Call, Numbered, Places
<1>11. ASSUME NEW m \in Members, ReadRank(m) PROVE Kept
  <2>1. RankIn(known[m], m) \in Nat
    BY <1>2, RankIsNatural, ConstantsAssumption DEF OtherTypes
  <2> QED
    BY <1>1, <1>2, <1>11, <2>1 DEF CallTypes, OtherTypes, ReadRank, Numbered, Places
<1>12. ASSUME NEW m \in Members, PublishLocal(m) PROVE Kept
  <2>1. Cardinality(known[m]) \in Nat
    BY <1>2, RankIsNatural, ConstantsAssumption DEF OtherTypes
  <2>2. Place(m) \subseteq Members
    BY <1>2 DEF Place, CallTypes
  <2>3. /\ pc[m] = "ranked" /\ seq[m] < Len(Program)
        /\ \E q \in {"panicked", "looping"} : pc' = [pc EXCEPT ![m] = q]
        /\ seq' = [seq EXCEPT ![m] = @ + 1]
    BY <1>2, <1>12 DEF PublishLocal, CallTypes, Numbered
  <2>4. \A p \in Members : Numbered(p)'
    BY <1>1, <1>2, <2>3 DEF CallTypes, Numbered
  <2>5. pc' \in [Members -> Places] /\ seq' \in [Members -> 0 .. Len(Program)]
    BY <1>1, <1>2, <2>3 DEF CallTypes, Places
  <2>6. left' \in [Members -> SUBSET Members] /\ room' \in [Members -> Nat]
    BY <1>2, <1>12, <2>1 DEF CallTypes, PublishLocal
  <2>7. /\ inbound' \in [Members -> Seq(Members)]
        /\ reduced' \in [Members -> [Members -> Nat]]
    BY <1>2, <1>12 DEF CallTypes, PublishLocal
  <2>8. parts' \in [Members -> [Members -> Members \cup {None}]]
    BY <1>2, <1>12 DEF CallTypes, PublishLocal
  <2>9. UNCHANGED <<known, restarted, streams, among, rank, returned>>
    BY <1>12 DEF PublishLocal
  <2> QED
    BY <1>1, <1>2, <2>4, <2>5, <2>6, <2>7, <2>8, <2>9 DEF CallTypes, OtherTypes
<1>13. ASSUME NEW m \in Members, Dial(m) PROVE Kept
  <2>1. PICK p \in left[m] : pc[m] = "looping" /\ streams' = streams \cup {Exchange(m, p, seq[m])}
    BY <1>13 DEF Dial
  <2>2. Exchange(m, p, seq[m]) \in Exchanges
    BY <1>2, <2>1 DEF Exchange, Exchanges, CallTypes, Numbered, Stages
  <2>3. CallTypes'
    BY <1>1, <1>2, <1>13 DEF CallTypes, Dial, Numbered, Places
  <2> QED
    BY <1>1, <1>2, <1>13, <2>1, <2>2, <2>3 DEF OtherTypes, Dial
<1>14. ASSUME NEW m \in Members, NEW u \in Members, NEW p \in Members, Combine(m, u, p)
       PROVE  /\ left' \in [Members -> SUBSET Members]
              /\ reduced' \in [Members -> [Members -> Nat]]
              /\ parts' \in [Members -> [Members -> Members \cup {None}]]
  <2>1. left' \in [Members -> SUBSET Members]
    BY <1>2, <1>14 DEF CallTypes, Combine
  <2>2. reduced' \in [Members -> [Members -> Nat]]
    <3>1. reduced[m] \in [Members -> Nat]
      BY <1>2 DEF CallTypes
    <3>2. [reduced[m] EXCEPT ![p] = reduced[m][p] + 1] \in [Members -> Nat]
      BY <3>1
    <3>3. reduced' = [reduced EXCEPT ![m] = [reduced[m] EXCEPT ![p] = reduced[m][p] + 1]]
      BY <1>2, <1>14 DEF CallTypes, Combine
    <3> QED
      BY <1>2, <3>2, <3>3 DEF CallTypes
  <2>3. parts' \in [Members -> [Members -> Members \cup {None}]]
    BY <1>2, <1>14 DEF CallTypes, Combine
  <2> QED
    BY <2>1, <2>2, <2>3
<1>15. ASSUME NEW m \in Members, ReadReply(m) PROVE Kept
  <2>1. PICK s \in streams : pc[m] = "dialing" /\ Combine(m, s.to, s.to)
    BY <1>15 DEF ReadReply
  <2>2. s.to \in Members
    BY <1>2 DEF OtherTypes, Exchanges
  <2>3. /\ left' \in [Members -> SUBSET Members]
        /\ reduced' \in [Members -> [Members -> Nat]]
        /\ parts' \in [Members -> [Members -> Members \cup {None}]]
    BY <1>14, <2>1, <2>2
  <2>4. CallTypes'
    BY <1>1, <1>2, <1>15, <2>1, <2>3 DEF CallTypes, ReadReply, Numbered, Places
  <2> QED
    BY <1>1, <1>2, <1>15, <2>4 DEF OtherTypes, ReadReply
<1>16. ASSUME NEW m \in Members, TakeInbound(m) PROVE Kept
  <2>1. CASE ReturnError(m)
    BY <1>9, <2>1
  <2>2. CASE ~ReturnError(m)
    <3>1. PICK u \in left[m] :
            /\ inbound[m] # <<>>
            /\ inbound' = [inbound EXCEPT ![m] = Tail(@)]
            /\ Combine(m, u, Head(inbound[m]))
            /\ UNCHANGED <<known, restarted, pc, seq, among, rank, room, streams, returned>>
      BY <1>16, <2>2 DEF TakeInbound
    <3>2. u \in Members /\ Head(inbound[m]) \in Members
      BY <1>2, <3>1 DEF CallTypes
    <3>3. /\ left' \in [Members -> SUBSET Members]
          /\ reduced' \in [Members -> [Members -> Nat]]
          /\ parts' \in [Members -> [Members -> Members \cup {None}]]
      BY <1>14, <3>1, <3>2
    <3>4. inbound' \in [Members -> Seq(Members)]
      BY <1>2, <3>1 DEF CallTypes
    <3>5. CallTypes'
      BY <1>1, <1>2, <3>1, <3>3, <3>4 DEF CallTypes, Numbered
    <3> QED
      BY <1>1, <1>2, <3>1, <3>5 DEF OtherTypes
  <2> QED
    BY <2>1, <2>2
<1>17. ASSUME NEW m \in Members, LeaveReduce(m) PROVE Kept
  BY <1>1, <1>2, <1>17 DEF CallTypes, OtherTypes, LeaveReduce, Numbered, Places
<1>18. ASSUME NEW m \in Members, Return(m) PROVE Kept
  <2>1. CallTypes'
    BY <1>1, <1>18, CallEnds DEF Return
  <2>2. seq[m] \in 1 .. Len(Program) /\ Op(m) \in Collectives
    BY <1>2, <1>18 DEF Return, Ending, CallTypes, Numbered, Op
  <2>3. Result(m) \in Results
    BY <1>2, <2>2 DEF Result, Results, CallTypes
  <2> QED
    BY <1>1, <1>2, <1>18, <2>1, <2>3 DEF OtherTypes, Return
<1>19. ASSUME NEW m \in Members,
              ReturnIncomplete(m) \/ Refused(m) \/ FailToDialItself(m) \/ Fail(m)
       PROVE  Kept
  BY <1>9, <1>19 DEF ReturnIncomplete, Refused, FailToDialItself, Fail
<1>20. ASSUME NEW m \in Members, Restart(m) PROVE Kept
  <2>1. Closed(m) /\ seq' = [seq EXCEPT ![m] = 0]
    BY <1>20 DEF Restart
  <2>2. \A p \in Members : Numbered(p)'
    BY <1>1, <1>2, <2>1 DEF CallTypes, Closed, Numbered
  <2>3. CallTypes'
    BY <1>1, <1>2, <2>1, <2>2 DEF CallTypes, Closed, Places
  <2>4. streams' = {IF s.to = m THEN [s EXCEPT !.stage = "closed"] ELSE s : s \in HangUp(m)}
    BY <1>20 DEF Restart
  <2>5. streams' \subseteq Exchanges
    BY <1>4, <2>4 DEF Exchanges, Stages
  <2> QED
    BY <1>1, <1>2, <1>20, <2>3, <2>5 DEF OtherTypes, Restart
<1> HIDE DEF Kept
<1> QED
  <2>1. PICK m \in Members :
          \/ Learn(m) \/ Forget(m) \/ Step(m) \/ Fail(m) \/ Restart(m)
          \/ Admit(m) \/ Refuse(m) \/ Deliver(m) \/ Reply(m)
    BY <1>0 DEF Next
  <2>2. CASE Step(m)
    BY <1>10, <1>11, <1>12, <1>13, <1>15, <1>16, <1>17, <1>18, <1>19, <2>2 DEF Step
  <2> QED
    BY <1>5, <1>7, <1>8, <1>19, <1>20, <2>1, <2>2

(* The types of the variables, and that calls number as their program has. *)
THEOREM TypesInductive == Spec => []TInv
<1>1. Init => TInv
  BY TypesHold
<1>2. TInv /\ [Next]_vars => TInv'
  BY TypesStep
<1> QED
  BY <1>1, <1>2, PTL DEF Spec

(* Every variable of a group keeps its type: a call that has a sequence    *)
(* number has one of its program's (nextSeq, publishLocal, clearLocal).    *)
THEOREM Types == Spec => []TypeOK
<1>1. TInv => TypeOK
  BY DEF TInv
<1> QED
  BY <1>1, TypesInductive, PTL

-----------------------------------------------------------------------------
(* Steps *)

\* What one member does next.
Act(m) ==
  \/ Learn(m) \/ Forget(m)
  \/ Step(m)
  \/ Fail(m) \/ Restart(m)
  \/ Admit(m) \/ Refuse(m) \/ Deliver(m) \/ Reply(m)

LEMMA NextIsAct == Next <=> Held /\ (\E m \in Members : Act(m))
BY DEF Next, Act

\* A step leaves a member as it is, ...
Same(p) ==
  /\ known'[p] = known[p] /\ pc'[p] = pc[p] /\ seq'[p] = seq[p]
  /\ among'[p] = among[p] /\ rank'[p] = rank[p] /\ left'[p] = left[p]
  /\ room'[p] = room[p] /\ inbound'[p] = inbound[p] /\ reduced'[p] = reduced[p]
  /\ parts'[p] = parts[p] /\ returned'[p] = returned[p]

\* ... as the steps of the other members do.
LEMMA Elsewhere ==
  ASSUME TInv, NEW m \in Members, Act(m), NEW p \in Members, p # m
  PROVE  Same(p)
<1>0. /\ known \in [Members -> SUBSET Members]
      /\ pc \in [Members -> {"idle", "called", "ranked", "looping", "dialing", "counting", "panicked"}]
      /\ seq \in [Members -> 0 .. Len(Program)]
      /\ among \in [Members -> SUBSET Members]
      /\ rank \in [Members -> Nat]
      /\ left \in [Members -> SUBSET Members]
      /\ room \in [Members -> Nat]
      /\ inbound \in [Members -> Seq(Members)]
      /\ reduced \in [Members -> [Members -> Nat]]
      /\ parts \in [Members -> [Members -> Members \cup {None}]]
      /\ returned \in [Members -> Results \cup {None}]
  BY DEF TInv, TypeOK
<1>1. CASE ReturnError(m)
  BY <1>0, <1>1 DEF ReturnError, Closed, Same
<1>2. CASE Return(m)
  BY <1>0, <1>2 DEF Return, Closed, Same
<1>3. CASE Restart(m)
  BY <1>0, <1>3 DEF Restart, Closed, Same
<1>4. CASE Learn(m) \/ Forget(m)
  BY <1>0, <1>4 DEF Learn, Forget, callVars, Same
<1>5. CASE Admit(m) \/ Refuse(m) \/ Reply(m)
  BY <1>5 DEF Admit, Refuse, Reply, callVars, Same
<1>6. CASE Deliver(m)
  BY <1>0, <1>6 DEF Deliver, Same
<1>7. CASE Call(m) \/ ReadRank(m) \/ LeaveReduce(m) \/ Dial(m)
  BY <1>0, <1>7 DEF Call, ReadRank, LeaveReduce, Dial, Same
<1>8. CASE PublishLocal(m)
  BY <1>0, <1>8 DEF PublishLocal, Same
<1>9. CASE ReadReply(m)
  BY <1>0, <1>9 DEF ReadReply, Combine, Same
<1>10. CASE TakeInbound(m)
  BY <1>0, <1>1, <1>10 DEF TakeInbound, Combine, Same
<1>11. CASE ReturnIncomplete(m) \/ Refused(m) \/ FailToDialItself(m) \/ Fail(m)
  BY <1>1, <1>11 DEF ReturnIncomplete, Refused, FailToDialItself, Fail
<1> QED
  BY <1>2, <1>3, <1>4, <1>5, <1>6, <1>7, <1>8, <1>9, <1>10, <1>11 DEF Act, Step

(* Ranks *)

LEMMA RanksGrow ==
  ASSUME NEW S \in SUBSET Members, NEW p \in S, NEW q \in Nat, p < q
  PROVE  RankIn(S, p) < RankIn(S, q)
<1> DEFINE Lower == {r \in S : r < p}
           Upper == {r \in S : r < q}
<1>1. IsFiniteSet(S) /\ p \in Nat /\ \A r \in S : r \in Nat
  BY ConstantsAssumption, FS_Subset
<1>2. IsFiniteSet(Lower) /\ IsFiniteSet(Upper)
  BY <1>1, FS_Subset
<1>3. p \notin Lower /\ Lower \cup {p} \subseteq Upper
  <2>1. \A r \in S : r < p => r < q
    BY <1>1
  <2>2. ~(p < p)
    BY <1>1
  <2> QED
    BY <2>1, <2>2
<1> HIDE DEF Lower, Upper
<1>4. IsFiniteSet(Lower \cup {p}) /\ Cardinality(Lower \cup {p}) = Cardinality(Lower) + 1
  BY <1>2, <1>3, FS_AddElement
<1>5. Cardinality(Lower \cup {p}) <= Cardinality(Upper)
  BY <1>2, <1>3, FS_Subset
<1>6. Cardinality(Lower) \in Nat /\ Cardinality(Upper) \in Nat
  BY <1>2, FS_CardinalityType
<1>7. Cardinality(Lower) < Cardinality(Upper)
  BY <1>4, <1>5, <1>6
<1> QED
  BY <1>7 DEF RankIn, Lower, Upper

LEMMA RanksDiffer ==
  ASSUME NEW S \in SUBSET Members, NEW p \in S, NEW q \in S
  PROVE  /\ RankIn(S, p) = RankIn(S, q) => p = q
         /\ RankIn(S, p) < RankIn(S, q) <=> p < q
<1>1. p \in Nat /\ q \in Nat
  BY ConstantsAssumption
<1>2. RankIn(S, p) \in Nat /\ RankIn(S, q) \in Nat
  BY <1>1, RankIsNatural
<1>3. CASE p < q
  BY <1>1, <1>2, <1>3, RanksGrow
<1>4. CASE q < p
  BY <1>1, <1>2, <1>4, RanksGrow
<1> QED
  BY <1>1, <1>2, <1>3, <1>4

-----------------------------------------------------------------------------
(* Gatherings *)

(* A place holds the vector of its own member, or that of the caller where *)
(* the caller's rank pointed; before the call opens, nothing.              *)
Placed(m) ==
  /\ \A p \in Members : parts[m][p] \in {None, p} \/ (p \in Place(m) /\ parts[m][p] = m)
  /\ pc[m] \in {"idle", "called", "ranked"} => \A p \in Members : parts[m][p] = None

(* Where no endpoint dials itself, a caller whose own place is another's   *)
(* never fills its own.                                                    *)
Selfless == ~SelfConnect /\ \A m \in Members : <<m, m>> \notin Forgetting

NoSelfCall == \A s \in streams : s.from # s.to

OwnPlace(m) ==
  /\ m \in known[m]
  /\ pc[m] # "idle" => m \in among[m]
  /\ \A k \in 1 .. Len(inbound[m]) : inbound[m][k] # m
  /\ m \notin Place(m) => parts[m][m] = None

(* With settled membership the snapshot is the group, and the rank is the  *)
(* caller's own in it.                                                     *)
Membership(m) ==
  /\ known[m] = Members
  /\ pc[m] # "idle" => among[m] = Members
  /\ pc[m] \in {"ranked", "looping", "dialing", "counting"} => rank[m] = RankIn(Members, m)
  /\ pc[m] # "panicked"

Gathered(m) == returned[m] # None /\ returned[m].op = "AllGather" =>
  \A p \in returned[m].among : returned[m].parts[p] = p

Gathering(m) ==
  /\ Placed(m)
  /\ Selfless => OwnPlace(m)
  /\ Steady => Membership(m)
  /\ Selfless \/ Steady => Gathered(m)

GInv ==
  /\ TInv
  /\ Selfless => NoSelfCall
  /\ \A m \in Members : Gathering(m)

LEMMA GatheringInit == Init => GInv
<1> SUFFICES ASSUME Init PROVE GInv
  OBVIOUS
<1>1. TInv /\ NoSelfCall
  BY TypesHold DEF Init, NoSelfCall
<1>2. ASSUME NEW m \in Members PROVE Gathering(m)
  BY DEF Init, Gathering, Placed, OwnPlace, Membership, Gathered, Steady
<1> QED
  BY <1>1, <1>2 DEF GInv

LEMMA OnePlace ==
  ASSUME TInv, NEW m \in Members, NEW p \in Place(m), NEW q \in Place(m)
  PROVE  p = q
<1>1. among[m] \in SUBSET Members
  BY DEF TInv, TypeOK
<1> QED
  BY <1>1, RanksDiffer DEF Place

LEMMA GatheringStands ==
  ASSUME NEW m \in Members, Same(m), setting' = setting, Gathering(m)
  PROVE  Gathering(m)'
<1>1. /\ Selfless' = Selfless /\ Steady' = Steady
      /\ Place(m)' = Place(m)
  BY DEF Same, Selfless, SelfConnect, Forgetting, Steady, Settled, Restarting, Place
<1> QED
  BY <1>1 DEF Gathering, Placed, OwnPlace, Membership, Gathered, Same

LEMMA NoSelfCallStep ==
  ASSUME TInv, Next, Selfless, NoSelfCall
  PROVE  NoSelfCall'
<1>1. PICK m \in Members : Act(m)
  BY NextIsAct
<1>2. \A h \in HangUp(m) : h.from # h.to
  <2> SUFFICES ASSUME NEW h \in HangUp(m) PROVE h.from # h.to
    OBVIOUS
  <2>1. \E s \in streams : h.from = s.from /\ h.to = s.to
    <3>1. CASE h \in streams
      BY <3>1
    <3>2. CASE h \notin streams
      <4>1. PICK s \in streams : h = [s EXCEPT !.open = FALSE]
        BY <3>2 DEF HangUp
      <4>2. s \in Exchanges
        BY DEF TInv, TypeOK
      <4> QED
        BY <4>1, <4>2 DEF Exchanges
    <3> QED
      BY <3>1, <3>2
  <2> QED
    BY <2>1 DEF NoSelfCall
<1>3. ASSUME NEW s \in streams, NEW st \in Stages, Advance(s, st) PROVE NoSelfCall'
  <2>1. s \in Exchanges
    BY DEF TInv, TypeOK
  <2> QED
    BY <1>3, <2>1 DEF Advance, NoSelfCall, Exchanges
<1>4. CASE ReturnError(m)
  BY <1>2, <1>4 DEF ReturnError, NoSelfCall
<1>5. CASE Restart(m)
  <2>1. streams' = {IF s.to = m THEN [s EXCEPT !.stage = "closed"] ELSE s : s \in HangUp(m)}
    BY <1>5 DEF Restart
  <2>2. HangUp(m) \subseteq Exchanges
    BY HungUp DEF TInv
  <2> QED
    BY <1>2, <2>1, <2>2 DEF NoSelfCall, Exchanges
<1>6. CASE Dial(m)
  BY <1>6 DEF Dial, Exchange, NoSelfCall, Selfless
<1>7. CASE ReadReply(m)
  BY <1>7 DEF ReadReply, NoSelfCall
<1>8. CASE Admit(m) \/ Refuse(m) \/ Reply(m) \/ Deliver(m)
  BY <1>3, <1>8 DEF Admit, Refuse, Reply, Deliver, Stages
<1>9. CASE UNCHANGED streams
  BY <1>9 DEF NoSelfCall
<1>10. CASE ReturnIncomplete(m) \/ Refused(m) \/ FailToDialItself(m) \/ Fail(m)
  BY <1>4, <1>10 DEF ReturnIncomplete, Refused, FailToDialItself, Fail
<1>11. CASE TakeInbound(m)
  BY <1>4, <1>9, <1>11 DEF TakeInbound
<1>12. CASE Learn(m) \/ Forget(m) \/ Call(m) \/ ReadRank(m) \/ PublishLocal(m) \/ LeaveReduce(m) \/ Return(m)
  BY <1>9, <1>12 DEF Learn, Forget, Call, ReadRank, PublishLocal, LeaveReduce, Return
<1> QED
  BY <1>1, <1>5, <1>6, <1>7, <1>8, <1>10, <1>11, <1>12 DEF Act, Step

LEMMA Unqueued ==
  ASSUME NEW q \in Seq(Members), q # <<>>
  PROVE  /\ Head(q) = q[1] /\ 1 \in 1 .. Len(q) /\ q[1] \in Members
         /\ Tail(q) \in Seq(Members) /\ Len(Tail(q)) = Len(q) - 1
         /\ \A k \in 1 .. Len(Tail(q)) :
              k + 1 \in 1 .. Len(q) /\ Tail(q)[k] = q[k + 1]
<1>1. Len(q) \in Nat /\ Len(q) # 0 /\ Head(q) = q[1]
  OBVIOUS
<1>2. 1 \in 1 .. Len(q)
  BY <1>1
<1>3. q[1] \in Members
  BY <1>2
<1>4. Len(Tail(q)) = Len(q) - 1 /\ Tail(q) \in Seq(Members)
  OBVIOUS
<1>5. ASSUME NEW k \in 1 .. Len(Tail(q)) PROVE k + 1 \in 1 .. Len(q) /\ Tail(q)[k] = q[k + 1]
  BY <1>1, <1>4
<1> QED
  BY <1>1, <1>2, <1>3, <1>4, <1>5

\* A call that ends leaves its member nothing to be wrong about.
LEMMA GatheringEnds ==
  ASSUME TInv, NEW m \in Members, Gathering(m), setting' = setting,
         Closed(m), UNCHANGED <<known, returned>>
  PROVE  Gathering(m)'
<1>1. Selfless' = Selfless /\ Steady' = Steady
  BY DEF Selfless, SelfConnect, Forgetting, Steady, Settled, Restarting
<1>2. /\ pc'[m] = "idle" /\ inbound'[m] = <<>> /\ known'[m] = known[m] /\ returned'[m] = returned[m]
      /\ \A p \in Members : parts'[m][p] = None
  BY DEF TInv, TypeOK, Closed
<1>3. Placed(m)'
  BY <1>2 DEF Placed
<1>4. Selfless => OwnPlace(m)'
  BY <1>2 DEF Gathering, OwnPlace
<1>5. Steady => Membership(m)'
  BY <1>2 DEF Gathering, Membership
<1>6. Selfless \/ Steady => Gathered(m)'
  BY <1>2 DEF Gathering, Gathered
<1> QED
  BY <1>1, <1>3, <1>4, <1>5, <1>6 DEF Gathering

\* A result that AllGather gives out is exact.
LEMMA GatherEnds ==
  ASSUME GInv, NEW m \in Members, Return(m), Selfless \/ Steady, Op(m) = "AllGather"
  PROVE  \A p \in among[m] : parts[m][p] = p
<1>1. /\ Gathering(m) /\ TInv /\ pc[m] \in {"counting", "looping"}
      /\ \A p \in among[m] : parts[m][p] # None
  BY DEF GInv, Return, Complete, Ending
<1>2. among[m] \in SUBSET Members /\ m \in among[m]
  BY <1>1 DEF TInv, TypeOK, Gathering, OwnPlace, Membership
<1>3. m \in Place(m)
  BY <1>1, <1>2 DEF Gathering, OwnPlace, Membership, Place
<1>4. \A p \in Place(m) : p = m
  BY <1>1, <1>3, OnePlace
<1> QED
  BY <1>1, <1>2, <1>4 DEF Gathering, Placed

LEMMA GatheringMoves ==
  ASSUME GInv, Next, NEW m \in Members, Act(m)
  PROVE  Gathering(m)'
<1>1. /\ TInv /\ setting' = setting /\ Gathering(m) /\ (Selfless => NoSelfCall)
      /\ Selfless' = Selfless /\ Steady' = Steady
  BY DEF GInv, Next, Held, Selfless, SelfConnect, Forgetting, Steady, Settled, Restarting
<1>2. /\ known \in [Members -> SUBSET Members]
      /\ pc \in [Members -> {"idle", "called", "ranked", "looping", "dialing", "counting", "panicked"}]
      /\ among \in [Members -> SUBSET Members]
      /\ rank \in [Members -> Nat]
      /\ inbound \in [Members -> Seq(Members)]
      /\ parts \in [Members -> [Members -> Members \cup {None}]]
      /\ returned \in [Members -> Results \cup {None}]
      /\ streams \subseteq Exchanges
  BY <1>1 DEF TInv, TypeOK
<1>3. CASE Same(m)
  BY <1>1, <1>3, GatheringStands
<1>4. CASE Admit(m) \/ Refuse(m) \/ Reply(m)
  BY <1>3, <1>4 DEF Admit, Refuse, Reply, callVars, Same
<1>5. CASE ReturnError(m)
  BY <1>1, <1>5, GatheringEnds DEF ReturnError
<1>6. CASE ReturnIncomplete(m) \/ Refused(m) \/ FailToDialItself(m) \/ Fail(m)
  BY <1>5, <1>6 DEF ReturnIncomplete, Refused, FailToDialItself, Fail
<1>7. CASE Learn(m) \/ Forget(m)
  <2>1. UNCHANGED callVars
    BY <1>7 DEF Learn, Forget
  <2>2. Place(m)' = Place(m)
    BY <2>1 DEF Place, callVars
  <2>3. Placed(m)' /\ (Selfless \/ Steady => Gathered(m)')
    BY <1>1, <2>1, <2>2 DEF Placed, Gathered, Gathering, callVars
  <2>4. Selfless => m \in known'[m]
    BY <1>1, <1>2, <1>7 DEF Learn, Forget, Gathering, OwnPlace, Selfless
  <2>5. Steady => known'[m] = Members
    BY <1>1, <1>2, <1>7 DEF Learn, Forget, Gathering, Membership, Steady
  <2>6. Selfless => OwnPlace(m)'
    BY <1>1, <2>1, <2>2, <2>4 DEF Gathering, OwnPlace, callVars
  <2>7. Steady => Membership(m)'
    BY <1>1, <2>1, <2>5 DEF Gathering, Membership, callVars
  <2> QED
    BY <1>1, <2>3, <2>6, <2>7 DEF Gathering
<1>8. CASE Call(m)
  <2>1. /\ pc[m] = "idle" /\ pc'[m] = "called" /\ among'[m] = known[m]
        /\ UNCHANGED <<known, inbound, parts, returned>>
    BY <1>2, <1>8 DEF Call
  <2>2. \A p \in Members : parts[m][p] = None
    BY <1>1, <2>1 DEF Gathering, Placed
  <2> QED
    BY <1>1, <2>1, <2>2 DEF Gathering, Placed, OwnPlace, Membership, Gathered
<1>9. CASE ReadRank(m)
  <2>1. /\ pc[m] = "called" /\ pc'[m] = "ranked" /\ rank'[m] = RankIn(known[m], m)
        /\ UNCHANGED <<known, among, inbound, parts, returned>>
    BY <1>2, <1>9 DEF ReadRank
  <2>2. \A p \in Members : parts[m][p] = None
    BY <1>1, <2>1 DEF Gathering, Placed
  <2> QED
    BY <1>1, <2>1, <2>2 DEF Gathering, Placed, OwnPlace, Membership, Gathered
<1>10. CASE PublishLocal(m)
  <2>1. /\ pc[m] = "ranked" /\ pc'[m] \in {"panicked", "looping"}
        /\ pc'[m] = "panicked" => Place(m) = {}
        /\ inbound'[m] = <<>>
        /\ \A p \in Members : parts'[m][p] = IF p \in Place(m) THEN m ELSE None
        /\ UNCHANGED <<known, among, rank, returned>>
    BY <1>2, <1>10 DEF PublishLocal
  <2>2. Place(m)' = Place(m)
    BY <2>1 DEF Place
  <2>3. Placed(m)'
    BY <2>1, <2>2 DEF Placed
  <2>4. Selfless => OwnPlace(m)'
    BY <1>1, <2>1, <2>2 DEF Gathering, OwnPlace
  <2>5. Steady => m \in Place(m)
    BY <1>1, <2>1 DEF Gathering, Membership, Place
  <2>6. Steady => Membership(m)'
    BY <1>1, <2>1, <2>5 DEF Gathering, Membership
  <2> QED
    BY <1>1, <2>1, <2>3, <2>4, <2>6 DEF Gathering, Gathered
<1>11. CASE Dial(m) \/ LeaveReduce(m)
  <2>1. /\ pc[m] = "looping" /\ pc'[m] \in {"dialing", "counting"}
        /\ inbound'[m] \in {inbound[m], <<>>}
        /\ UNCHANGED <<known, among, rank, parts, returned>>
    BY <1>2, <1>11 DEF Dial, LeaveReduce
  <2>2. Place(m)' = Place(m)
    BY <2>1 DEF Place
  <2>3. Placed(m)' /\ (Steady => Membership(m)') /\ (Selfless \/ Steady => Gathered(m)')
    BY <1>1, <2>1, <2>2 DEF Gathering, Placed, Membership, Gathered
  <2>4. Selfless => OwnPlace(m)'
    BY <1>1, <2>1, <2>2 DEF Gathering, OwnPlace
  <2> QED
    BY <1>1, <2>3, <2>4 DEF Gathering
\* The loop's body, for the vector of p.
<1>12. ASSUME NEW u \in Members, NEW p \in Members, Combine(m, u, p), Selfless => p # m,
              pc[m] \in {"looping", "dialing"}, pc'[m] \in {"looping", "dialing"},
              Selfless => \A k \in 1 .. Len(inbound'[m]) : inbound'[m][k] # m,
              UNCHANGED <<known, among, rank, returned>>
       PROVE  Gathering(m)'
  <2>1. Place(m)' = Place(m)
    BY <1>12 DEF Place
  <2>2. \A q \in Members : parts'[m][q] = IF q = p THEN p ELSE parts[m][q]
    BY <1>2, <1>12 DEF Combine
  <2>3. Placed(m)'
    BY <1>1, <1>12, <2>1, <2>2 DEF Gathering, Placed
  <2>4. Selfless => OwnPlace(m)'
    BY <1>1, <1>12, <2>1, <2>2 DEF Gathering, OwnPlace
  <2>5. (Steady => Membership(m)') /\ (Selfless \/ Steady => Gathered(m)')
    BY <1>1, <1>12 DEF Gathering, Membership, Gathered
  <2> QED
    BY <1>1, <2>3, <2>4, <2>5 DEF Gathering
<1>13. CASE ReadReply(m)
  <2>1. PICK s \in streams :
          /\ pc[m] = "dialing" /\ s.from = m /\ pc' = [pc EXCEPT ![m] = "looping"]
          /\ Combine(m, s.to, s.to)
          /\ UNCHANGED <<known, restarted, seq, among, rank, room, inbound, returned>>
    BY <1>13 DEF ReadReply
  <2>2. s.to \in Members /\ (Selfless => s.to # m)
    BY <1>1, <1>2, <2>1 DEF Exchanges, NoSelfCall
  <2>3. Selfless => \A k \in 1 .. Len(inbound'[m]) : inbound'[m][k] # m
    BY <1>1, <2>1 DEF Gathering, OwnPlace
  <2> QED
    BY <1>2, <1>12, <2>1, <2>2, <2>3
<1>14. CASE TakeInbound(m)
  <2>1. CASE ~ReturnError(m)
    <3>1. PICK u \in left[m] :
            /\ pc[m] = "looping" /\ inbound[m] # <<>>
            /\ inbound' = [inbound EXCEPT ![m] = Tail(@)]
            /\ Combine(m, u, Head(inbound[m]))
            /\ UNCHANGED <<known, restarted, pc, seq, among, rank, room, streams, returned>>
      BY <1>14, <2>1 DEF TakeInbound
    <3>2. inbound[m] \in Seq(Members) /\ inbound'[m] = Tail(inbound[m])
      BY <1>2, <3>1
    <3>3. /\ Head(inbound[m]) = inbound[m][1] /\ 1 \in 1 .. Len(inbound[m])
          /\ inbound[m][1] \in Members
          /\ \A k \in 1 .. Len(inbound'[m]) :
               k + 1 \in 1 .. Len(inbound[m]) /\ inbound'[m][k] = inbound[m][k + 1]
      BY <3>1, <3>2, Unqueued
    <3>4. Selfless => \A k \in 1 .. Len(inbound[m]) : inbound[m][k] # m
      BY <1>1 DEF Gathering, OwnPlace
    <3>5. u \in Members
      BY <1>1 DEF TInv, TypeOK
    <3>6. Selfless => \A k \in 1 .. Len(inbound'[m]) : inbound'[m][k] # m
      BY <3>3, <3>4
    <3>7. Head(inbound[m]) \in Members /\ (Selfless => Head(inbound[m]) # m)
      BY <3>3, <3>4
    <3> QED
      BY <1>12, <3>1, <3>5, <3>6, <3>7
  <2> QED
    BY <1>5, <2>1
<1>15. CASE Deliver(m)
  <2>1. PICK s \in streams : s.to = m
             /\ inbound' \in {inbound, [inbound EXCEPT ![m] = Append(@, s.from)]}
             /\ UNCHANGED <<known, pc, among, rank, parts, returned>>
    BY <1>15 DEF Deliver
  <2>2. s.from \in Members /\ (Selfless => s.from # m)
    BY <1>1, <1>2, <2>1 DEF Exchanges, NoSelfCall
  <2>3. inbound'[m] = inbound[m] \/ inbound'[m] = Append(inbound[m], s.from)
    BY <1>2, <2>1
  <2>4. ASSUME Selfless PROVE \A k \in 1 .. Len(inbound'[m]) : inbound'[m][k] # m
    <3>1. \A k \in 1 .. Len(inbound[m]) : inbound[m][k] # m
      BY <1>1, <2>4 DEF Gathering, OwnPlace
    <3>2. inbound[m] \in Seq(Members)
      BY <1>2
    <3> QED
      BY <2>2, <2>3, <2>4, <3>1, <3>2
  <2>5. Place(m)' = Place(m)
    BY <2>1 DEF Place
  <2>6. Placed(m)' /\ (Steady => Membership(m)') /\ (Selfless \/ Steady => Gathered(m)')
    BY <1>1, <2>1, <2>5 DEF Gathering, Placed, Membership, Gathered
  <2>7. Selfless => OwnPlace(m)'
    BY <1>1, <2>1, <2>4, <2>5 DEF Gathering, OwnPlace
  <2> QED
    BY <1>1, <2>6, <2>7 DEF Gathering
<1>16. CASE Return(m)
  <2>1. Closed(m) /\ UNCHANGED known /\ returned'[m] = Result(m)
    BY <1>2, <1>16 DEF Return
  <2>2. /\ pc'[m] = "idle" /\ inbound'[m] = <<>> /\ known'[m] = known[m]
        /\ \A p \in Members : parts'[m][p] = None
    BY <1>2, <2>1 DEF Closed
  <2>3. Placed(m)' /\ (Selfless => OwnPlace(m)') /\ (Steady => Membership(m)')
    BY <1>1, <2>2 DEF Gathering, Placed, OwnPlace, Membership
  <2>4. Selfless \/ Steady => Gathered(m)'
    BY <1>16, <2>1, GatherEnds DEF Gathered, Result
  <2> QED
    BY <1>1, <2>3, <2>4 DEF Gathering
<1>17. CASE Restart(m)
  <2>1. Closed(m) /\ known'[m] = {m} /\ returned'[m] = None /\ ~Steady
    BY <1>2, <1>17 DEF Restart, Steady
  <2>2. /\ pc'[m] = "idle" /\ inbound'[m] = <<>>
        /\ \A p \in Members : parts'[m][p] = None
    BY <1>2, <2>1 DEF Closed
  <2> QED
    BY <1>1, <2>1, <2>2 DEF Gathering, Placed, OwnPlace, Gathered
<1> QED
  BY <1>4, <1>6, <1>7, <1>8, <1>9, <1>10, <1>11, <1>13, <1>14, <1>15, <1>16, <1>17 DEF Act, Step

(* Where a gathering owes anything, it returns every vector in its place.  *)
THEOREM GatheringInductive == Spec => []GInv
<1>1. ASSUME GInv, [Next]_vars PROVE GInv'
  <2>1. CASE Next
    <3>1. PICK m \in Members : Act(m)
      BY <2>1, NextIsAct
    <3>2. TInv /\ TInv' /\ setting' = setting /\ Selfless' = Selfless
      BY <1>1, <2>1, TypesStep DEF GInv, Next, Held, Selfless, SelfConnect, Forgetting
    <3>3. ASSUME NEW p \in Members PROVE Gathering(p)'
      <4>1. CASE p = m
        BY <1>1, <2>1, <3>1, <4>1, GatheringMoves
      <4>2. CASE p # m
        <5>1. Same(p) /\ Gathering(p)
          BY <1>1, <3>1, <3>2, <4>2, Elsewhere DEF GInv
        <5> QED
          BY <3>2, <5>1, GatheringStands
      <4> QED
        BY <4>1, <4>2
    <3>4. Selfless => NoSelfCall'
      BY <1>1, <2>1, <3>2, NoSelfCallStep DEF GInv
    <3> QED
      BY <3>2, <3>3, <3>4 DEF GInv
  <2>2. CASE UNCHANGED vars
    <3>1. TInv' /\ setting' = setting
      BY <1>1, <2>2, TypesStep DEF GInv, vars
    <3>2. ASSUME NEW p \in Members PROVE Gathering(p)'
      <4>1. Same(p) /\ Gathering(p)
        BY <1>1, <2>2 DEF GInv, Same, vars, callVars
      <4> QED
        BY <3>1, <4>1, GatheringStands
    <3> QED
      BY <1>1, <2>2, <3>1, <3>2 DEF GInv, vars, NoSelfCall, Selfless, SelfConnect, Forgetting
  <2> QED
    BY <1>1, <2>1, <2>2
<1> QED
  BY <1>1, GatheringInit, PTL DEF Spec

-----------------------------------------------------------------------------
(* Settled membership: vectors travel once *)

Above(m) == {p \in Members : p > m}

(* A call may yet dial a member of its snapshot, ...                       *)
ToDial(p, m) ==
  /\ m \in left[p]
  /\ pc[p] = "looping" \/ (pc[p] = "dialing" /\ ~IsNext(p, m))

(* ... or it has done so under the number n, or never will.                *)
Dialed(p, m, n) == seq[p] > n \/ (seq[p] = n /\ ~ToDial(p, m))

(* Whose vectors a call has taken, or has in its channel.                  *)
Taken(m) == {p \in Above(m) : reduced[m][p] # 0}
Queued(m) == {inbound[m][k] : k \in 1 .. Len(inbound[m])}
Got(m) == Taken(m) \cup Queued(m)

SameCall(s, t) == s.from = t.from /\ s.to = t.to /\ s.seq = t.seq

Sole(S) == \A s, t \in S : SameCall(s, t) => s = t

Stream(s) ==
  /\ s.to < s.from
  /\ s.open => pc[s.from] = "dialing" /\ s.seq = seq[s.from] /\ IsNext(s.from, s.to)
  /\ Dialed(s.from, s.to, s.seq)
  /\ s.stage = "replied" => seq[s.to] >= s.seq
  /\ s.stage \in {"sent", "admitted"} /\ seq[s.to] = s.seq => s.from \notin Got(s.to)

Channel(m) == \A p \in Got(m) : p > m /\ Dialed(p, m, seq[m])

Once(m) ==
  /\ \A j, k \in 1 .. Len(inbound[m]) : inbound[m][j] = inbound[m][k] => j = k
  /\ Queued(m) \cap Taken(m) = {}

Travel ==
  /\ Sole(streams)
  /\ \A s \in streams : Stream(s)
  /\ \A m \in Members : Channel(m) /\ Once(m)

LEMMA NextIsOne ==
  ASSUME TInv, NEW m \in Members, NEW p, NEW q, IsNext(m, p), IsNext(m, q)
  PROVE  p = q
<1>1. left[m] \in SUBSET Members
  BY DEF TInv, TypeOK
<1>2. p \in Nat /\ q \in Nat /\ p <= q /\ q <= p
  BY <1>1, ConstantsAssumption DEF IsNext
<1> QED
  BY <1>2

\* A step with settled membership is one of the calls or of the servers.
Quietly(m) == Step(m) \/ Fail(m) \/ Admit(m) \/ Refuse(m) \/ Deliver(m) \/ Reply(m)

LEMMA Quiet ==
  ASSUME GInv, Steady, NEW m \in Members, Act(m)
  PROVE  Quietly(m)
<1>1. known[m] = Members /\ Forgetting = {} /\ Restarting = {}
  BY DEF GInv, Gathering, Membership, Steady
<1> QED
  BY <1>1 DEF Act, Quietly, Learn, Forget, Restart

\* What the calls of settled members may do to one's own variables.
Ends(m) == pc'[m] = "idle" /\ Closed(m) /\ UNCHANGED seq

Waits(m) ==
  /\ pc[m] \in {"idle", "called"} /\ pc'[m] \in {"called", "ranked"}
  /\ UNCHANGED <<seq, left, inbound, reduced, streams, returned>>

Opens(m) ==
  /\ pc[m] = "ranked" /\ pc'[m] = "looping"
  /\ seq' = [seq EXCEPT ![m] = @ + 1]
  /\ left'[m] = Members \ {m} /\ inbound'[m] = <<>>
  /\ \A p \in Members : reduced'[m][p] = IF p = m THEN 1 ELSE 0
  /\ UNCHANGED <<streams, returned>>

Dials(m, p) ==
  /\ pc[m] = "looping" /\ pc'[m] = "dialing"
  /\ IsNext(m, p) /\ p \in Members /\ p < m
  /\ streams' = streams \cup {Exchange(m, p, seq[m])}
  /\ UNCHANGED <<seq, left, inbound, reduced, returned>>

Adds(m, u, p) ==
  /\ left'[m] = left[m] \ {u}
  /\ \A q \in Members : reduced'[m][q] = IF q = p THEN reduced[m][q] + 1 ELSE reduced[m][q]

Reads(m, s) ==
  /\ pc[m] = "dialing" /\ pc'[m] = "looping"
  /\ s \in streams /\ s.from = m /\ s.open /\ s.stage = "replied"
  /\ Adds(m, s.to, s.to)
  /\ streams' = streams \ {s}
  /\ UNCHANGED <<seq, inbound, returned>>

Takes(m, u) ==
  /\ pc[m] = "looping" /\ pc'[m] = "looping"
  /\ u \in left[m] /\ u >= m
  /\ inbound[m] # <<>> /\ inbound'[m] = Tail(inbound[m])
  /\ Adds(m, u, Head(inbound[m]))
  /\ UNCHANGED <<seq, streams, returned>>

Leaves(m) ==
  /\ pc[m] = "looping" /\ pc'[m] = "counting" /\ left[m] = {}
  /\ inbound'[m] = <<>>
  /\ UNCHANGED <<seq, left, reduced, streams, returned>>

Serves(m, s, stage) ==
  /\ s \in streams /\ s.to = m
  /\ stage \in Stages /\ Advance(s, stage)
  /\ UNCHANGED <<pc, seq, left, reduced, returned>>

Serving(m) ==
  \/ \E s \in streams : \E stage \in {"admitted", "closed"} :
       Serves(m, s, stage) /\ s.stage = "sent" /\ UNCHANGED inbound
  \/ \E s \in streams :
       Serves(m, s, "replied") /\ s.stage = "held" /\ seq[m] = s.seq /\ UNCHANGED inbound

Delivers(m, s) ==
  /\ Serves(m, s, "held") /\ s.stage = "admitted"
  /\ \/ UNCHANGED inbound
     \/ seq[m] = s.seq /\ inbound'[m] = Append(inbound[m], s.from)

Fails(m) == Ends(m) /\ streams' = HangUp(m) /\ UNCHANGED returned

Moves(m) ==
  \/ Fails(m)
  \/ Ends(m) /\ UNCHANGED streams /\ Return(m)
  \/ Waits(m) \/ Opens(m) \/ Leaves(m)
  \/ \E p \in Members : Dials(m, p) \/ Takes(m, p)
  \/ \E s \in streams : Reads(m, s) \/ Delivers(m, s)
  \/ Serving(m)

LEMMA SteadyMoves ==
  ASSUME GInv, Steady, NEW m \in Members, Act(m)
  PROVE  Moves(m)
<1>1. /\ known \in [Members -> SUBSET Members]
      /\ pc \in [Members -> {"idle", "called", "ranked", "looping", "dialing", "counting", "panicked"}]
      /\ seq \in [Members -> 0 .. Len(Program)]
      /\ left \in [Members -> SUBSET Members]
      /\ inbound \in [Members -> Seq(Members)]
      /\ reduced \in [Members -> [Members -> Nat]]
      /\ streams \subseteq Exchanges
      /\ TInv
  BY DEF GInv, TInv, TypeOK
<1>2. /\ pc[m] # "idle" => among[m] = Members
      /\ pc[m] \in {"ranked", "looping", "dialing", "counting"} => rank[m] = RankIn(Members, m)
  BY DEF GInv, Gathering, Membership
<1>3. ASSUME ReturnError(m) PROVE Moves(m)
  BY <1>1, <1>3 DEF ReturnError, Closed, Ends, Fails, Moves
<1>4. ASSUME Return(m) PROVE Moves(m)
  BY <1>1, <1>4 DEF Return, Closed, Ends, Moves
<1>5. ASSUME Call(m) \/ ReadRank(m) PROVE Moves(m)
  BY <1>1, <1>5 DEF Call, ReadRank, Waits, Moves
<1>6. ASSUME PublishLocal(m) PROVE Moves(m)
  <2>1. pc[m] = "ranked"
    BY <1>6 DEF PublishLocal
  <2>2. m \in Place(m)
    BY <1>2, <2>1 DEF Place
  <2>3. Place(m) = {m}
    BY <1>1, <2>2, OnePlace
  <2>4. among[m] \ Place(m) = Members \ {m}
    BY <1>2, <2>1, <2>3
  <2>5. pc'[m] = "looping" /\ seq' = [seq EXCEPT ![m] = @ + 1] /\ UNCHANGED <<streams, returned>>
    BY <1>1, <1>6, <2>2 DEF PublishLocal
  <2>6. left'[m] = Members \ {m} /\ inbound'[m] = <<>>
    BY <1>1, <1>6, <2>4 DEF PublishLocal
  <2>7. \A p \in Members : reduced'[m][p] = IF p = m THEN 1 ELSE 0
    BY <1>1, <1>6 DEF PublishLocal
  <2> QED
    BY <2>1, <2>5, <2>6, <2>7 DEF Opens, Moves
<1>7. ASSUME Dial(m) PROVE Moves(m)
  <2>1. PICK p \in left[m] :
          /\ pc[m] = "looping" /\ IsNext(m, p) /\ RankIn(among[m], p) < rank[m]
          /\ pc' = [pc EXCEPT ![m] = "dialing"]
          /\ streams' = streams \cup {Exchange(m, p, seq[m])}
          /\ UNCHANGED <<seq, left, inbound, reduced, returned>>
    BY <1>7 DEF Dial
  <2>2. p \in Members /\ RankIn(Members, p) < RankIn(Members, m)
    BY <1>1, <1>2, <2>1
  <2>3. p < m
    BY <2>2, RanksDiffer
  <2> QED
    BY <1>1, <2>1, <2>2, <2>3 DEF Dials, Moves
<1>8. ASSUME NEW u \in Members, NEW p \in Members, Combine(m, u, p) PROVE Adds(m, u, p)
  BY <1>1, <1>8 DEF Combine, Adds
<1>9. ASSUME ReadReply(m) PROVE Moves(m)
  <2>1. PICK s \in streams :
          /\ pc[m] = "dialing" /\ s.from = m /\ s.open /\ s.stage = "replied"
          /\ pc' = [pc EXCEPT ![m] = "looping"]
          /\ Combine(m, s.to, s.to)
          /\ streams' = streams \ {s}
          /\ UNCHANGED <<seq, inbound, returned>>
    BY <1>9 DEF ReadReply
  <2>2. s.to \in Members
    BY <1>1 DEF Exchanges
  <2>3. Adds(m, s.to, s.to)
    BY <1>8, <2>1, <2>2
  <2> QED
    BY <1>1, <2>1, <2>3 DEF Reads, Moves
<1>10. ASSUME TakeInbound(m) PROVE Moves(m)
  <2>1. CASE ~ReturnError(m)
    <3>1. PICK u \in left[m] :
            /\ pc[m] = "looping" /\ inbound[m] # <<>> /\ RankIn(among[m], u) >= rank[m]
            /\ inbound' = [inbound EXCEPT ![m] = Tail(@)]
            /\ Combine(m, u, Head(inbound[m]))
            /\ UNCHANGED <<pc, seq, streams, returned>>
      BY <1>10, <2>1 DEF TakeInbound
    <3>2. u \in Members /\ RankIn(Members, u) >= RankIn(Members, m)
      BY <1>1, <1>2, <3>1
    <3>3. u \in Nat /\ m \in Nat /\ RankIn(Members, u) \in Nat /\ RankIn(Members, m) \in Nat
      BY <3>2, RankIsNatural, ConstantsAssumption
    <3>4. ~(u < m)
      BY <3>2, <3>3, RanksDiffer
    <3>5. u >= m
      BY <3>3, <3>4
    <3>6. inbound[m] \in Seq(Members) /\ Head(inbound[m]) \in Members
      BY <1>1, <3>1, Unqueued
    <3>7. Adds(m, u, Head(inbound[m]))
      BY <1>8, <3>1, <3>2, <3>6
    <3>8. inbound'[m] = Tail(inbound[m])
      BY <1>1, <3>1
    <3> QED
      BY <3>1, <3>2, <3>5, <3>7, <3>8 DEF Takes, Moves
  <2> QED
    BY <1>3, <2>1
<1>11. ASSUME LeaveReduce(m) PROVE Moves(m)
  BY <1>1, <1>11 DEF LeaveReduce, Leaves, Moves
<1>12. ASSUME ReturnIncomplete(m) \/ Refused(m) \/ FailToDialItself(m) \/ Fail(m) PROVE Moves(m)
  BY <1>3, <1>12 DEF ReturnIncomplete, Refused, FailToDialItself, Fail
<1>13. ASSUME Admit(m) \/ Refuse(m) \/ Reply(m) PROVE Moves(m)
  <2>1. Serving(m)
    BY <1>13 DEF Admit, Refuse, Reply, Serving, Serves, Stages, callVars
  <2> QED
    BY <2>1 DEF Moves
<1>14. ASSUME Deliver(m) PROVE Moves(m)
  <2>1. PICK s \in streams : s.to = m /\ s.stage = "admitted" /\ Advance(s, "held")
             /\ \/ UNCHANGED inbound
                \/ seq[m] = s.seq /\ inbound' = [inbound EXCEPT ![m] = Append(@, s.from)]
             /\ UNCHANGED <<pc, seq, left, reduced, returned>>
    BY <1>14 DEF Deliver
  <2>2. Delivers(m, s)
    BY <1>1, <2>1 DEF Delivers, Serves, Stages
  <2> QED
    BY <2>2 DEF Moves
<1>15. Quietly(m)
  BY Quiet
<1> QED
  BY <1>4, <1>5, <1>6, <1>7, <1>9, <1>10, <1>11, <1>12, <1>13, <1>14, <1>15 DEF Quietly, Step

LEMMA SeqTypes ==
  ASSUME TInv
  PROVE  \A p \in Members : seq[p] \in Nat
<1>1. setting \in Settings /\ seq \in [Members -> 0 .. Len(Program)]
  BY DEF TInv, TypeOK
<1>2. Len(Program) \in Nat
  BY <1>1, ProgramFacts
<1> QED
  BY <1>1, <1>2

\* Sequence numbers only grow, ...
LEMMA SeqGrows ==
  ASSUME TInv, NEW m \in Members, Act(m), Moves(m), NEW p \in Members
  PROVE  seq'[p] = seq[p] \/ (p = m /\ Opens(m) /\ seq'[p] = seq[p] + 1)
<1>1. seq \in [Members -> 0 .. Len(Program)]
  BY DEF TInv, TypeOK
<1>2. CASE p # m
  BY <1>2, Elsewhere DEF Same
<1>3. CASE p = m /\ ~Opens(m)
  BY <1>3 DEF Moves, Fails, Ends, Waits, Dials, Reads, Takes, Leaves, Serving, Serves, Delivers
<1>4. CASE p = m /\ Opens(m)
  BY <1>1, <1>4 DEF Opens
<1> QED
  BY <1>2, <1>3, <1>4

\* ... so what a call has dialed, it has dialed for good.
LEMMA DialedStays ==
  ASSUME TInv, Sole(streams), \A s \in streams : Stream(s),
         NEW m \in Members, Act(m), Moves(m),
         NEW p \in Members, NEW q \in Members, NEW n \in Nat, Dialed(p, q, n)
  PROVE  Dialed(p, q, n)'
<1>1. seq[p] \in Nat /\ left[p] \in SUBSET Members
  BY SeqTypes DEF TInv, TypeOK
<1>2. ASSUME ToDial(p, q)', ~Opens(m) \/ p # m PROVE ToDial(p, q)
  <2>1. CASE p # m
    BY <1>2, <2>1, Elsewhere DEF Same, ToDial, IsNext
  <2>2. CASE p = m /\ (Fails(m) \/ Ends(m) \/ Waits(m) \/ Leaves(m))
    BY <1>2, <2>2 DEF Fails, Ends, Waits, Leaves, ToDial
  <2>3. CASE p = m /\ (\E r \in Members : Dials(m, r))
    BY <1>2, <2>3 DEF Dials, ToDial
  <2>4. CASE p = m /\ (\E r \in Members : Takes(m, r))
    BY <1>2, <2>4 DEF Takes, Adds, ToDial
  <2>5. ASSUME p = m, NEW s \in streams, Reads(m, s) PROVE ToDial(p, q)
    <3>1. IsNext(m, s.to) /\ pc[m] = "dialing" /\ left'[m] = left[m] \ {s.to}
      BY <2>5 DEF Reads, Adds, Stream
    <3>2. q \in left[m] /\ q # s.to
      BY <1>2, <2>5, <3>1 DEF ToDial
    <3>3. ~IsNext(m, q)
      BY <3>1, <3>2, NextIsOne
    <3> QED
      BY <2>5, <3>1, <3>2, <3>3 DEF ToDial
  <2>6. CASE UNCHANGED <<pc, left>>
    BY <1>2, <2>6 DEF ToDial, IsNext
  <2> QED
    BY <1>2, <2>1, <2>2, <2>3, <2>4, <2>5, <2>6 DEF Moves, Serving, Serves, Delivers
<1>3. seq'[p] = seq[p] \/ (p = m /\ Opens(m) /\ seq'[p] = seq[p] + 1)
  BY SeqGrows
<1>4. CASE seq'[p] = seq[p] + 1
  BY <1>1, <1>4 DEF Dialed
<1>5. CASE seq'[p] = seq[p]
  <2>1. ~Opens(m) \/ p # m
    <3>1. seq \in [Members -> 0 .. Len(Program)]
      BY DEF TInv, TypeOK
    <3> QED
      BY <1>1, <1>5, <3>1 DEF Opens
  <2> QED
    BY <1>2, <1>5, <2>1 DEF Dialed
<1> QED
  BY <1>3, <1>4, <1>5

\* A vector that a member has got is one it had, or one that is delivered.
LEMMA GotGrows ==
  ASSUME TInv, NEW m \in Members, Act(m), Moves(m),
         \A s \in streams : Stream(s),
         NEW p \in Members, NEW q \in Got(p)'
  PROVE  \/ q \in Got(p) /\ seq'[p] = seq[p]
         \/ p = m /\ seq'[p] = seq[p] /\ \E s \in streams : Delivers(m, s) /\ q = s.from /\ seq[m] = s.seq
<1>1. /\ inbound[p] \in Seq(Members)
      /\ reduced[p] \in [Members -> Nat]
      /\ p \in Nat /\ \A r \in Members : r \in Nat
  BY ConstantsAssumption DEF TInv, TypeOK
<1>2. CASE p # m
  BY <1>2, Elsewhere DEF Same, Got, Taken, Queued
<1>3. ASSUME p = m, inbound'[m] \in {inbound[m], <<>>}, seq'[m] = seq[m],
             \A r \in Above(m) : reduced'[m][r] \in {0, reduced[m][r]}
      PROVE  q \in Got(p) /\ seq'[p] = seq[p]
  BY <1>3 DEF Got, Taken, Queued, Above
<1>4. CASE p = m /\ Ends(m)
  <2>1. inbound'[m] = <<>> /\ \A r \in Members : reduced'[m][r] = 0
    BY <1>4 DEF Ends, Closed, TInv, TypeOK
  <2> QED
    BY <1>3, <1>4, <2>1 DEF Ends, Above
<1>5. CASE p = m /\ (Waits(m) \/ Leaves(m) \/ \E r \in Members : Dials(m, r))
  BY <1>3, <1>5 DEF Waits, Leaves, Dials
<1>6. CASE p = m /\ Opens(m)
  <2>1. Queued(m)' = {}
    BY <1>6 DEF Opens, Queued
  <2>2. \A r \in Above(m) : r \in Members /\ r # m
    BY <1>1 DEF Above
  <2>3. \A r \in Above(m) : reduced'[m][r] = 0
    BY <1>6, <2>2 DEF Opens
  <2>4. Taken(m)' = {}
    BY <2>3 DEF Taken, Above
  <2> QED
    BY <1>6, <2>1, <2>4 DEF Got
<1>7. ASSUME p = m, NEW s \in streams, Reads(m, s) PROVE q \in Got(p) /\ seq'[p] = seq[p]
  <2>1. s.to < m /\ s.to \in Members
    BY <1>7 DEF Stream, Reads, TInv, TypeOK, Exchanges
  <2>2. \A r \in Above(m) : r \in Members /\ r # s.to
    BY <1>1, <2>1 DEF Above
  <2>3. \A r \in Above(m) : reduced'[m][r] = reduced[m][r]
    BY <1>7, <2>2 DEF Reads, Adds
  <2> QED
    BY <1>3, <1>7, <2>3 DEF Reads
<1>8. ASSUME p = m, NEW u \in Members, Takes(m, u) PROVE q \in Got(p) /\ seq'[p] = seq[p]
  <2>1. /\ Head(inbound[m]) = inbound[m][1] /\ 1 \in 1 .. Len(inbound[m])
        /\ \A k \in 1 .. Len(Tail(inbound[m])) :
              k + 1 \in 1 .. Len(inbound[m]) /\ Tail(inbound[m])[k] = inbound[m][k + 1]
    BY <1>1, <1>8, Unqueued DEF Takes
  <2>2. Queued(m)' \subseteq Queued(m)
    BY <1>8, <2>1 DEF Takes, Queued
  <2>3. Taken(m)' \subseteq Taken(m) \cup {Head(inbound[m])}
    BY <1>8 DEF Takes, Adds, Taken, Above
  <2>4. Head(inbound[m]) \in Queued(m)
    BY <2>1 DEF Queued
  <2> QED
    BY <1>8, <2>2, <2>3, <2>4 DEF Got, Takes
<1>9. CASE p = m /\ Serving(m)
  BY <1>3, <1>9 DEF Serving, Serves
<1>10. ASSUME p = m, NEW s \in streams, Delivers(m, s)
       PROVE  \/ q \in Got(p) /\ seq'[p] = seq[p]
              \/ p = m /\ seq'[p] = seq[p] /\ Delivers(m, s) /\ q = s.from /\ seq[m] = s.seq
  <2>1. CASE UNCHANGED inbound
    BY <1>3, <1>10, <2>1 DEF Delivers, Serves
  <2>2. CASE ~UNCHANGED inbound
    <3>1. seq[m] = s.seq /\ inbound'[m] = Append(inbound[m], s.from) /\ UNCHANGED <<seq, reduced>>
      BY <1>10, <2>2 DEF Delivers, Serves
    <3>2. Queued(m)' \subseteq Queued(m) \cup {s.from}
      BY <1>1, <1>10, <3>1 DEF Queued
    <3>3. Taken(m)' = Taken(m)
      BY <3>1 DEF Taken
    <3> QED
      BY <1>10, <3>1, <3>2, <3>3 DEF Got
  <2> QED
    BY <2>1, <2>2
<1> QED
  BY <1>2, <1>4, <1>5, <1>6, <1>7, <1>8, <1>9, <1>10 DEF Moves, Fails

\* No two streams carry the same vector to the same member.
LEMMA SoleStays ==
  ASSUME TInv, Sole(streams), \A s \in streams : Stream(s),
         NEW m \in Members, Act(m), Moves(m)
  PROVE  Sole(streams')
<1>1. streams \subseteq Exchanges
  BY DEF TInv, TypeOK
<1>2. ASSUME NEW s \in streams, NEW stage \in Stages, Advance(s, stage) PROVE Sole(streams')
  <2> DEFINE h == [s EXCEPT !.stage = stage]
  <2>1. SameCall(h, s)
    BY <1>1 DEF SameCall, Exchanges
  <2>2. streams' = {h} \cup (streams \ {s})
    BY <1>2 DEF Advance
  <2> HIDE DEF h
  <2>3. \A r \in streams \ {s} : ~SameCall(r, h) /\ ~SameCall(h, r)
    BY <2>1 DEF Sole, SameCall
  <2> QED
    BY <2>2, <2>3 DEF Sole
<1>3. CASE Fails(m)
  <2>1. SUFFICES ASSUME NEW g \in HangUp(m), NEW h \in HangUp(m), SameCall(g, h) PROVE g = h
    BY <1>3 DEF Fails, Sole
  <2>2. CASE g.from # m
    <3>1. ASSUME NEW r \in HangUp(m), r.from # m PROVE r \in streams
      BY <1>1, <3>1 DEF HangUp, Exchanges
    <3> QED
      BY <2>1, <2>2, <3>1 DEF Sole, SameCall
  <2>3. CASE g.from = m
    <3>1. ASSUME NEW r \in HangUp(m), r.from = m
          PROVE  \E s \in streams : r = [s EXCEPT !.open = FALSE]
      BY <3>1 DEF HangUp
    <3>2. PICK s \in streams : g = [s EXCEPT !.open = FALSE]
      BY <2>3, <3>1
    <3>3. PICK r \in streams : h = [r EXCEPT !.open = FALSE]
      BY <2>1, <2>3, <3>1 DEF SameCall
    <3>4. SameCall(s, r)
      BY <1>1, <2>1, <3>2, <3>3 DEF SameCall, Exchanges
    <3> QED
      BY <3>2, <3>3, <3>4 DEF Sole
  <2> QED
    BY <2>2, <2>3
<1>4. ASSUME NEW p \in Members, Dials(m, p) PROVE Sole(streams')
  <2> DEFINE h == Exchange(m, p, seq[m])
  <2>1. streams' = streams \cup {h}
    BY <1>4 DEF Dials
  <2>2. h.from = m /\ h.to = p /\ h.seq = seq[m]
    BY DEF Exchange
  <2>3. p \in left[m] /\ pc[m] = "looping"
    BY <1>4 DEF Dials, IsNext
  <2>4. ~Dialed(m, p, seq[m])
    BY <2>3, SeqTypes DEF Dialed, ToDial
  <2>5. \A r \in streams : ~SameCall(r, h) /\ ~SameCall(h, r)
    <3> HIDE DEF h
    <3> QED
      BY <2>2, <2>4 DEF Stream, SameCall
  <2> HIDE DEF h
  <2> QED
    BY <2>1, <2>5 DEF Sole
<1>5. CASE UNCHANGED streams
  BY <1>5 DEF Sole
<1>6. ASSUME NEW s \in streams, Reads(m, s) PROVE Sole(streams')
  BY <1>6 DEF Reads, Sole
<1>7. CASE Serving(m)
  BY <1>2, <1>7 DEF Serving, Serves
<1>8. ASSUME NEW s \in streams, Delivers(m, s) PROVE Sole(streams')
  BY <1>2, <1>8 DEF Delivers, Serves
<1>9. ASSUME NEW p \in Members, Takes(m, p) PROVE Sole(streams')
  BY <1>5, <1>9 DEF Takes
<1> QED
  BY <1>3, <1>4, <1>5, <1>6, <1>7, <1>8, <1>9 DEF Moves, Waits, Opens, Leaves

\* A stream after a step is a new one, or was there: open only while its call
\* stays where it is, and at its stage or the next.
Onward(m, s, h) ==
  /\ SameCall(h, s)
  /\ h.open => s.open /\ pc'[s.from] = pc[s.from] /\ left'[s.from] = left[s.from] /\ seq'[s.from] = seq[s.from]
  /\ \/ h.stage = s.stage
     \/ h.stage = "admitted" /\ s.stage = "sent"
     \/ h.stage = "replied" /\ s.to = m /\ seq[m] = s.seq
     \/ h.stage \in {"held", "closed"}

LEMMA StreamsGoOn ==
  ASSUME TInv, Sole(streams), \A s \in streams : Stream(s),
         NEW m \in Members, Act(m), Moves(m), NEW h \in streams'
  PROVE  \/ \E p \in Members : Dials(m, p) /\ h = Exchange(m, p, seq[m])
         \/ \E s \in streams : Onward(m, s, h)
<1>1. streams \subseteq Exchanges
  BY DEF TInv, TypeOK
<1> DEFINE Goal == \/ \E p \in Members : Dials(m, p) /\ h = Exchange(m, p, seq[m])
                   \/ \E s \in streams : Onward(m, s, h)
<1> SUFFICES Goal
  OBVIOUS
\* A stream that stays, and is not an open one of the member's.
<1>2. ASSUME h \in streams, h.from # m \/ ~h.open PROVE Goal
  <2>1. h.from \in Members
    BY <1>1, <1>2 DEF Exchanges
  <2>2. h.from # m => Same(h.from)
    BY <2>1, Elsewhere
  <2>3. Onward(m, h, h)
    BY <1>2, <2>2 DEF Onward, SameCall, Same
  <2> QED
    BY <1>2, <2>3
<1>3. ASSUME NEW s \in streams, NEW stage \in Stages, Serves(m, s, stage),
             \/ stage = "admitted" /\ s.stage = "sent"
             \/ stage = "replied" /\ seq[m] = s.seq
             \/ stage \in {"held", "closed"}
      PROVE  Goal
  <2>1. h \in streams \/ h = [s EXCEPT !.stage = stage]
    BY <1>3 DEF Serves, Advance
  <2>2. UNCHANGED <<pc, left, seq>> /\ s.to = m
    BY <1>3 DEF Serves
  <2>3. CASE h \in streams
    BY <2>2, <2>3 DEF Onward, SameCall
  <2>4. CASE h = [s EXCEPT !.stage = stage]
    <3>1. SameCall(h, s) /\ h.open = s.open /\ h.stage = stage
      BY <1>1, <2>4 DEF SameCall, Exchanges
    <3>2. Onward(m, s, h)
      BY <1>3, <2>2, <3>1 DEF Onward
    <3> QED
      BY <3>2
  <2> QED
    BY <2>1, <2>3, <2>4
<1>4. CASE Fails(m)
  <2>1. h \in HangUp(m)
    BY <1>4 DEF Fails
  <2>2. CASE h \in streams /\ h.from # m
    BY <1>2, <2>2
  <2>3. CASE ~(h \in streams /\ h.from # m)
    <3>1. PICK s \in streams : h = [s EXCEPT !.open = FALSE]
      BY <2>1, <2>3 DEF HangUp
    <3>2. SameCall(h, s) /\ ~h.open /\ h.stage = s.stage
      BY <1>1, <3>1 DEF SameCall, Exchanges
    <3> QED
      BY <3>2 DEF Onward
  <2> QED
    BY <2>2, <2>3
\* The member's own open streams are those of a call that dials.
<1>5. ASSUME h \in streams, pc[m] # "dialing" PROVE Goal
  <2>1. h.from # m \/ ~h.open
    BY <1>5 DEF Stream
  <2> QED
    BY <1>2, <1>5, <2>1
<1>6. CASE Ends(m) /\ UNCHANGED streams /\ Return(m)
  BY <1>5, <1>6 DEF Return, Ending
<1>7. CASE Waits(m) \/ Opens(m) \/ Leaves(m)
  BY <1>5, <1>7 DEF Waits, Opens, Leaves
<1>8. ASSUME NEW p \in Members, Dials(m, p) PROVE Goal
  BY <1>5, <1>8 DEF Dials
<1>9. ASSUME NEW p \in Members, Takes(m, p) PROVE Goal
  BY <1>5, <1>9 DEF Takes
<1>10. ASSUME NEW s \in streams, Reads(m, s) PROVE Goal
  <2>1. h \in streams /\ h # s
    BY <1>10 DEF Reads
  <2>2. ASSUME h.from = m, h.open PROVE FALSE
    <3>1. IsNext(m, h.to) /\ IsNext(m, s.to) /\ h.seq = s.seq /\ s.from = m
      BY <1>10, <2>1, <2>2 DEF Stream, Reads
    <3>2. h.to = s.to
      BY <3>1, NextIsOne
    <3> QED
      BY <2>1, <2>2, <3>1, <3>2 DEF Sole, SameCall
  <2> QED
    BY <1>2, <2>1, <2>2
<1>11. CASE Serving(m)
  <2> HIDE DEF Goal
  <2>1. ASSUME NEW s \in streams, NEW stage \in {"admitted", "closed"}, Serves(m, s, stage), s.stage = "sent"
        PROVE  Goal
    BY <1>3, <2>1 DEF Stages
  <2>2. ASSUME NEW s \in streams, Serves(m, s, "replied"), seq[m] = s.seq PROVE Goal
    BY <1>3, <2>2 DEF Stages
  <2> QED
    BY <1>11, <2>1, <2>2 DEF Serving
<1>12. ASSUME NEW s \in streams, Delivers(m, s) PROVE Goal
  <2> HIDE DEF Goal
  <2> QED
    BY <1>3, <1>12 DEF Delivers, Stages
<1> HIDE DEF Goal
<1> QED
  BY <1>4, <1>6, <1>7, <1>8, <1>9, <1>10, <1>11, <1>12 DEF Moves

LEMMA StreamsStay ==
  ASSUME TInv, TInv', Travel, NEW m \in Members, Act(m), Moves(m), NEW h \in streams'
  PROVE  Stream(h)'
<1>1. Sole(streams) /\ (\A s \in streams : Stream(s)) /\ (\A p \in Members : Channel(p))
  BY DEF Travel
<1>2. /\ h.from \in Members /\ h.to \in Members /\ h.seq \in Nat
      /\ \A p \in Members : seq[p] \in Nat
  <2>1. setting' \in Settings /\ streams' \subseteq Exchanges'
    BY DEF TInv, TypeOK
  <2>2. PICK L : L = Program'
    OBVIOUS
  <2>3. h.from \in Members /\ h.to \in Members /\ h.seq \in 1 .. Len(L)
    BY <2>1, <2>2 DEF Exchanges
  <2>4. Program' \in Seq(Collectives)
    BY <2>1, ConstantsAssumption DEF Program
  <2>5. Len(L) \in Nat
    BY <2>2, <2>4
  <2> QED
    BY <2>3, <2>5, SeqTypes
<1>3. Sole(streams')
  BY <1>1, SoleStays
<1>4. \A p \in Members : seq'[p] \in Nat /\ seq'[p] >= seq[p]
  <2>1. ASSUME NEW p \in Members PROVE seq'[p] = seq[p] \/ seq'[p] = seq[p] + 1
    BY SeqGrows
  <2> QED
    BY <1>2, <2>1
\* Its member has the vector only when it is delivered.
<1>5. ASSUME NEW q \in Got(h.to)', q = h.from, seq'[h.to] = h.seq,
             h.stage \in {"sent", "admitted"},
             ~(h.from \in Got(h.to) /\ seq[h.to] = h.seq)
      PROVE  FALSE
  <2>1. PICK s \in streams : h.to = m /\ seq'[m] = seq[m] /\ Delivers(m, s) /\ q = s.from /\ seq[m] = s.seq
    BY <1>1, <1>2, <1>5, GotGrows
  <2> DEFINE g == [s EXCEPT !.stage = "held"]
  <2>2. s.to = m /\ streams' = (streams \ {s}) \cup {g} /\ s \in Exchanges
    BY <2>1 DEF Delivers, Serves, Advance, TInv, TypeOK
  <2>3. SameCall(g, h) /\ g.stage = "held"
    BY <1>5, <2>1, <2>2 DEF SameCall, Exchanges
  <2> HIDE DEF g
  <2>4. g = h
    BY <1>3, <2>2, <2>3 DEF Sole
  <2> QED
    BY <1>5, <2>3, <2>4
<1>6. CASE \E p \in Members : Dials(m, p) /\ h = Exchange(m, p, seq[m])
  <2>1. PICK p \in Members : Dials(m, p) /\ h = Exchange(m, p, seq[m])
    BY <1>6
  <2>2. h.from = m /\ h.to = p /\ h.seq = seq[m] /\ h.stage = "sent"
    BY <2>1 DEF Exchange
  <2>3. /\ pc'[m] = "dialing" /\ IsNext(m, p) /\ p < m /\ left' = left /\ seq' = seq /\ inbound' = inbound
        /\ reduced' = reduced /\ pc[m] = "looping"
    BY <2>1 DEF Dials
  <2>4. IsNext(m, p)' /\ Dialed(m, p, seq[m])'
    BY <2>3 DEF IsNext, Dialed, ToDial
  <2>5. ~Dialed(m, p, seq[m])
    BY <1>2, <2>3 DEF Dialed, ToDial, IsNext
  <2>6. seq'[p] = seq[m] => m \notin Got(p)'
    BY <1>1, <2>3, <2>5 DEF Channel, Got, Taken, Queued
  <2> QED
    BY <2>2, <2>3, <2>4, <2>6 DEF Stream
<1>7. ASSUME NEW s \in streams, Onward(m, s, h) PROVE Stream(h)'
  <2>1. h.from = s.from /\ h.to = s.to /\ h.seq = s.seq
    BY <1>7 DEF Onward, SameCall
  <2>2. Stream(s)
    BY <1>1
  <2>3. Dialed(h.from, h.to, h.seq)'
    BY <1>1, <1>2, <2>1, <2>2, DialedStays DEF Stream
  <2>4. h.open => pc'[h.from] = "dialing" /\ h.seq = seq'[h.from] /\ IsNext(h.from, h.to)'
    BY <1>7, <2>1, <2>2 DEF Stream, Onward, IsNext
  <2>5. h.stage = "replied" => seq'[h.to] >= h.seq
    <3>1. h.stage = "replied" => seq[h.to] >= h.seq
      BY <1>2, <1>7, <2>1, <2>2 DEF Stream, Onward
    <3> QED
      BY <1>2, <1>4, <3>1
  <2>6. h.stage \in {"sent", "admitted"} /\ seq'[h.to] = h.seq => h.from \notin Got(h.to)'
    <3>1. h.stage \in {"sent", "admitted"} => ~(h.from \in Got(h.to) /\ seq[h.to] = h.seq)
      BY <1>7, <2>1, <2>2 DEF Stream, Onward
    <3> QED
      BY <1>5, <3>1
  <2>7. h.to < h.from
    BY <2>1, <2>2 DEF Stream
  <2> QED
    BY <2>3, <2>4, <2>5, <2>6, <2>7 DEF Stream
<1> QED
  BY <1>1, <1>6, <1>7, StreamsGoOn

LEMMA ChannelsStay ==
  ASSUME TInv, Travel, NEW m \in Members, Act(m), Moves(m), NEW p \in Members
  PROVE  Channel(p)'
<1>1. Sole(streams) /\ (\A s \in streams : Stream(s)) /\ Channel(p)
  BY DEF Travel
<1>2. SUFFICES ASSUME NEW q \in Got(p)' PROVE q > p /\ Dialed(q, p, seq[p])'
  BY DEF Channel
<1>3. PICK n \in Nat : n = seq[p]
  BY SeqTypes
<1>4. CASE q \in Got(p) /\ seq'[p] = seq[p]
  <2>1. q > p /\ Dialed(q, p, n)
    BY <1>1, <1>3, <1>4 DEF Channel
  <2>2. q \in Members
    <3>1. inbound[p] \in Seq(Members)
      BY DEF TInv, TypeOK
    <3> QED
      BY <1>4, <3>1 DEF Got, Taken, Above, Queued
  <2>3. Dialed(q, p, n)'
    BY <1>1, <2>1, <2>2, DialedStays
  <2> QED
    BY <1>3, <1>4, <2>1, <2>3 DEF Dialed
<1>5. CASE p = m /\ seq'[p] = seq[p] /\ \E s \in streams : Delivers(m, s) /\ q = s.from /\ seq[m] = s.seq
  <2>1. PICK s \in streams : Delivers(m, s) /\ q = s.from /\ seq[m] = s.seq
    BY <1>5
  <2>2. s.to = m /\ s.from \in Members
    BY <2>1 DEF Delivers, Serves, TInv, TypeOK, Exchanges
  <2>3. q \in Members /\ q > p /\ Dialed(q, p, n)
    BY <1>1, <1>3, <1>5, <2>1, <2>2, ConstantsAssumption DEF Stream
  <2>4. Dialed(q, p, n)'
    BY <1>1, <2>3, DialedStays
  <2> QED
    BY <1>3, <1>5, <2>3, <2>4 DEF Dialed
<1> QED
  BY <1>1, <1>4, <1>5, GotGrows

\* Whatever a member takes or is delivered, it has of each only one vector.
LEMMA OnceStays ==
  ASSUME TInv, Travel, NEW m \in Members, Act(m), Moves(m), NEW p \in Members
  PROVE  Once(p)'
<1>1. /\ Sole(streams) /\ (\A s \in streams : Stream(s)) /\ Once(p)
      /\ inbound[p] \in Seq(Members)
      /\ reduced[p] \in [Members -> Nat]
      /\ p \in Nat /\ \A r \in Members : r \in Nat
  BY ConstantsAssumption DEF Travel, TInv, TypeOK
<1>2. CASE p # m
  BY <1>1, <1>2, Elsewhere DEF Same, Once, Taken, Queued
<1>3. CASE p = m /\ inbound'[m] = <<>>
  BY <1>3 DEF Once, Queued
<1>4. CASE p = m /\ inbound'[m] = inbound[m] /\ \A r \in Above(m) : reduced'[m][r] = reduced[m][r]
  BY <1>1, <1>4 DEF Once, Queued, Taken, Above
<1>5. CASE p = m /\ Ends(m)
  <2>1. inbound'[m] = <<>>
    BY <1>5 DEF Ends, Closed, TInv, TypeOK
  <2> QED
    BY <1>3, <1>5, <2>1
<1>6. CASE p = m /\ (Opens(m) \/ Leaves(m))
  BY <1>3, <1>6 DEF Opens, Leaves
<1>7. CASE p = m /\ (Waits(m) \/ (\E r \in Members : Dials(m, r)) \/ Serving(m))
  BY <1>4, <1>7 DEF Waits, Dials, Serving, Serves
<1>8. ASSUME p = m, NEW s \in streams, Reads(m, s) PROVE Once(p)'
  <2>1. s.to < m /\ s.to \in Members
    BY <1>1, <1>8 DEF Stream, Reads, TInv, TypeOK, Exchanges
  <2>2. \A r \in Above(m) : r \in Members /\ r # s.to
    BY <1>1, <2>1 DEF Above
  <2>3. \A r \in Above(m) : reduced'[m][r] = reduced[m][r]
    BY <1>8, <2>2 DEF Reads, Adds
  <2> QED
    BY <1>4, <1>8, <2>3 DEF Reads
<1>9. ASSUME p = m, NEW u \in Members, Takes(m, u) PROVE Once(p)'
  <2> DEFINE q == inbound[m]
             r == inbound'[m]
  <2>1. /\ Head(q) = q[1] /\ 1 \in 1 .. Len(q) /\ Len(r) = Len(q) - 1
        /\ \A k \in 1 .. Len(r) : k + 1 \in 1 .. Len(q) /\ r[k] = q[k + 1]
    BY <1>1, <1>9, Unqueued DEF Takes
  <2>2. \A j, k \in 1 .. Len(q) : q[j] = q[k] => j = k
    BY <1>1, <1>9 DEF Once
  <2>3. Taken(m)' \subseteq Taken(m) \cup {Head(q)}
    BY <1>9 DEF Takes, Adds, Taken, Above
  <2>4. Queued(m) = {q[k] : k \in 1 .. Len(q)} /\ Queued(m)' = {r[k] : k \in 1 .. Len(r)}
    BY DEF Queued
  <2>5. Queued(m) \cap Taken(m) = {} /\ Len(q) \in Nat
    BY <1>1, <1>9 DEF Once
  <2> HIDE DEF q, r
  <2>6. \A j, k \in 1 .. Len(r) : r[j] = r[k] => j = k
    BY <2>1, <2>2, <2>5
  <2>7. \A k \in 1 .. Len(r) : r[k] # Head(q)
    BY <2>1, <2>2, <2>5
  <2>8. \A k \in 1 .. Len(r) : r[k] \in Queued(m)
    BY <2>1, <2>4
  <2>9. Queued(m)' \cap Taken(m)' = {}
    BY <2>3, <2>4, <2>5, <2>7, <2>8
  <2> QED
    BY <1>9, <2>6, <2>9 DEF Once, r
<1>10. ASSUME p = m, NEW s \in streams, Delivers(m, s) PROVE Once(p)'
  <2>1. CASE UNCHANGED inbound
    BY <1>4, <1>10, <2>1 DEF Delivers, Serves
  <2>2. CASE ~UNCHANGED inbound
    <3> DEFINE q == inbound[m]
               r == inbound'[m]
    <3>1. seq[m] = s.seq /\ r = Append(q, s.from) /\ UNCHANGED <<seq, reduced>>
          /\ s.to = m /\ s.stage = "admitted"
      BY <1>10, <2>2 DEF Delivers, Serves
    <3>2. s.from \notin Got(m)
      BY <1>1, <3>1 DEF Stream
    <3>3. s.from \notin Taken(m) /\ s.from \notin Queued(m) /\ Taken(m)' = Taken(m)
      BY <3>1, <3>2 DEF Got, Taken
    <3>4. \A j, k \in 1 .. Len(q) : q[j] = q[k] => j = k
      BY <1>1, <1>10 DEF Once
    <3>5. Queued(m) = {q[k] : k \in 1 .. Len(q)} /\ Queued(m)' = {r[k] : k \in 1 .. Len(r)}
      BY DEF Queued
    <3>6. Queued(m) \cap Taken(m) = {} /\ q \in Seq(Members)
      BY <1>1, <1>10 DEF Once
    <3> HIDE DEF q, r
    <3>7. /\ Len(q) \in Nat /\ Len(r) = Len(q) + 1
          /\ \A k \in 1 .. Len(r) : r[k] = IF k = Len(q) + 1 THEN s.from ELSE q[k]
      BY <3>1, <3>6
    <3>8. \A k \in 1 .. Len(r) : k # Len(q) + 1 => k \in 1 .. Len(q)
      BY <3>7
    <3>9. \A k \in 1 .. Len(q) : q[k] # s.from
      BY <3>3, <3>5
    <3>10. ASSUME NEW j \in 1 .. Len(r), NEW k \in 1 .. Len(r), r[j] = r[k] PROVE j = k
      BY <3>4, <3>7, <3>8, <3>9, <3>10
    <3>11. Queued(m)' \subseteq Queued(m) \cup {s.from}
      BY <3>5, <3>7, <3>8
    <3>12. Queued(m)' \cap Taken(m)' = {}
      BY <3>3, <3>6, <3>11
    <3> QED
      BY <1>10, <3>10, <3>12 DEF Once, r
  <2> QED
    BY <2>1, <2>2
<1> QED
  BY <1>2, <1>5, <1>6, <1>7, <1>8, <1>9, <1>10 DEF Moves, Fails

LEMMA TravelStays ==
  ASSUME TInv, TInv', Travel, NEW m \in Members, Act(m), Moves(m)
  PROVE  Travel'
<1>1. \A h \in streams' : Stream(h)'
  BY StreamsStay
<1>2. \A p \in Members : Channel(p)' /\ Once(p)'
  BY ChannelsStay, OnceStays
<1>3. Sole(streams')
  BY SoleStays DEF Travel
<1> QED
  BY <1>1, <1>2, <1>3 DEF Travel

-----------------------------------------------------------------------------
(* Settled membership: turns                                               *)

Working(m) == pc[m] \in {"looping", "dialing", "counting"}

(* What a call has summed so far: each lower member's vector when its turn *)
(* is over, and as many of the higher ones as turns of theirs are.         *)
Turns(m) == Working(m) =>
  /\ m \notin left[m] /\ reduced[m][m] = 1
  /\ \A p \in Members : p < m =>
       /\ reduced[m][p] = IF p \in left[m] THEN 0 ELSE 1
       /\ p \notin left[m] => seq[p] >= seq[m]
  /\ \A p \in Members : p > m => reduced[m][p] \in {0, 1}
  /\ Cardinality(Taken(m)) + Cardinality(left[m] \cap Above(m)) = Cardinality(Above(m))
  /\ pc[m] = "counting" => left[m] = {}

(* A result is of an earlier call, or of the last one that has ended.      *)
Past(m) == returned[m] # None =>
  /\ returned[m].seq <= seq[m]
  /\ Working(m) => returned[m].seq < seq[m]
  /\ \A p \in Members : returned[m].reduced[p] = 1
  /\ returned[m].among = Members

(* A result is of one of the program's collectives.                        *)
Issued(m) == returned[m] # None => \E k \in 1 .. Len(Program) : returned[m].op = Program[k]

SInv ==
  /\ GInv
  /\ \A m \in Members : Issued(m)
  /\ Steady => Travel /\ \A m \in Members : Turns(m) /\ Past(m)

LEMMA AboveIsFinite ==
  ASSUME TInv, NEW m \in Members
  PROVE  /\ IsFiniteSet(Above(m)) /\ IsFiniteSet(Taken(m)) /\ IsFiniteSet(left[m] \cap Above(m))
         /\ Cardinality(Above(m)) \in Nat /\ Cardinality(Taken(m)) \in Nat
         /\ Cardinality(left[m] \cap Above(m)) \in Nat
<1>1. IsFiniteSet(Above(m))
  BY ConstantsAssumption, FS_Subset DEF Above
<1>2. Taken(m) \subseteq Above(m) /\ left[m] \cap Above(m) \subseteq Above(m)
  BY DEF Taken
<1>3. IsFiniteSet(Taken(m)) /\ IsFiniteSet(left[m] \cap Above(m))
  BY <1>1, <1>2, FS_Subset
<1> QED
  BY <1>1, <1>3, FS_CardinalityType

\* When no turn is to come, every vector has gone in once, and every member
\* has reached the call.
LEMMA AllTurnsTaken ==
  ASSUME TInv, NEW m \in Members, Channel(m), Turns(m), Working(m), left[m] = {}
  PROVE  \A p \in Members : reduced[m][p] = 1 /\ seq[p] >= seq[m]
<1>1. /\ \A p \in Members : p \in Nat /\ seq[p] \in Nat
      /\ reduced[m][m] = 1
      /\ \A p \in Members : p < m => reduced[m][p] = 1 /\ seq[p] >= seq[m]
      /\ \A p \in Members : p > m => reduced[m][p] \in {0, 1}
      /\ Cardinality(Taken(m)) + Cardinality({}) = Cardinality(Above(m))
  <2>1. left[m] \cap Above(m) = {}
    OBVIOUS
  <2> QED
    BY <2>1, SeqTypes, ConstantsAssumption DEF Turns
<1>2. Cardinality({}) = 0
  BY FS_EmptySet
<1>3. /\ IsFiniteSet(Above(m)) /\ Taken(m) \subseteq Above(m)
      /\ Cardinality(Taken(m)) \in Nat
  BY AboveIsFinite DEF Taken
<1>4. Cardinality(Taken(m)) = Cardinality(Above(m))
  BY <1>1, <1>2, <1>3
<1>5. Taken(m) = Above(m)
  BY <1>3, <1>4, FS_Subset
<1>6. ASSUME NEW p \in Members, p > m PROVE reduced[m][p] = 1 /\ seq[p] >= seq[m]
  <2>1. p \in Taken(m)
    BY <1>5, <1>6 DEF Above
  <2>2. reduced[m][p] = 1
    BY <1>1, <1>6, <2>1 DEF Taken
  <2>3. Dialed(p, m, seq[m])
    BY <2>1 DEF Channel, Got
  <2> QED
    BY <1>1, <2>2, <2>3 DEF Dialed
<1>7. ASSUME NEW p \in Members, p = m PROVE reduced[m][p] = 1 /\ seq[p] >= seq[m]
  BY <1>1, <1>7
<1>8. \A p \in Members : p < m \/ p = m \/ p > m
  BY <1>1
<1> QED
  BY <1>1, <1>6, <1>7, <1>8

LEMMA TurnsStay ==
  ASSUME TInv, Travel, NEW m \in Members, Act(m), Moves(m),
         NEW p \in Members, Turns(p)
  PROVE  Turns(p)'
<1>1. /\ (\A s \in streams : Stream(s)) /\ Once(p) /\ Channel(p)
      /\ inbound[p] \in Seq(Members)
      /\ reduced[p] \in [Members -> Nat]
      /\ left[p] \in SUBSET Members
      /\ \A r \in Members : r \in Nat
  BY ConstantsAssumption DEF Travel, TInv, TypeOK
<1>2. \A q \in Members : seq[q] \in Nat /\ seq'[q] >= seq[q]
  <2>1. ASSUME NEW q \in Members PROVE seq'[q] = seq[q] \/ seq'[q] = seq[q] + 1
    BY SeqGrows
  <2> QED
    BY <2>1, SeqTypes
\* The member's turns go on as they were.
<1>3. ASSUME Working(p), seq'[p] = seq[p], left'[p] = left[p],
             \A q \in Members : reduced'[p][q] = reduced[p][q],
             pc'[p] = "counting" => left[p] = {}
      PROVE  Turns(p)'
  <2>1. Taken(p)' = Taken(p)
    BY <1>3 DEF Taken, Above
  <2>2. Above(p)' = Above(p)
    BY DEF Above
  <2>3. left'[p] \cap Above(p)' = left[p] \cap Above(p)
    BY <1>3, <2>2
  <2>4. ASSUME NEW q \in Members, q < p, q \notin left[p] PROVE seq'[q] >= seq'[p]
    <3>1. seq[q] >= seq[p]
      BY <1>3, <2>4 DEF Turns
    <3>2. seq[q] \in Nat /\ seq[p] \in Nat /\ seq'[q] >= seq[q] /\ seq'[p] = seq[p]
      BY <1>2, <1>3
    <3>3. seq'[q] \in Nat
      BY <3>2, SeqGrows
    <3> QED
      BY <3>1, <3>2, <3>3
  <2> QED
    BY <1>3, <2>1, <2>2, <2>3, <2>4 DEF Turns, Working
<1>4. CASE p # m
  <2>1. Same(p)
    BY <1>4, Elsewhere
  <2>2. CASE Working(p)
    BY <1>3, <2>1, <2>2 DEF Same, Turns
  <2>3. CASE ~Working(p)
    BY <2>1, <2>3 DEF Same, Turns, Working
  <2> QED
    BY <2>2, <2>3
<1>5. CASE p = m /\ (Ends(m) \/ Waits(m))
  BY <1>5 DEF Ends, Waits, Turns, Working
<1>6. CASE p = m /\ Opens(m)
  <2>1. /\ pc'[m] = "looping" /\ left'[m] = Members \ {m}
        /\ \A q \in Members : reduced'[m][q] = IF q = m THEN 1 ELSE 0
    BY <1>6 DEF Opens
  <2>2. \A q \in Above(m) : q \in Members /\ q # m
    BY <1>1 DEF Above
  <2>3. Taken(m)' = {} /\ left'[m] \cap Above(m)' = Above(m)' /\ Above(m)' = Above(m)
    BY <2>1, <2>2 DEF Taken, Above
  <2>4. Cardinality({}) = 0 /\ Cardinality(Above(m)) \in Nat
    BY FS_EmptySet, AboveIsFinite
  <2>5. Cardinality(Taken(m)') + Cardinality(left'[m] \cap Above(m)') = Cardinality(Above(m)')
    BY <2>3, <2>4
  <2>6. \A q \in Members : q < m \/ q > m => q # m
    BY <1>1
  <2> QED
    BY <1>6, <2>1, <2>5, <2>6 DEF Turns
<1>7. CASE p = m /\ (Leaves(m) \/ \E r \in Members : Dials(m, r))
  BY <1>3, <1>7 DEF Leaves, Dials, Working
<1>8. CASE p = m /\ UNCHANGED <<pc, seq, left, reduced>>
  <2>1. CASE Working(p)
    BY <1>3, <1>8, <2>1 DEF Turns
  <2>2. CASE ~Working(p)
    BY <1>8, <2>2 DEF Turns, Working
  <2> QED
    BY <2>1, <2>2
<1>9. CASE p = m /\ Serving(m)
  BY <1>8, <1>9 DEF Serving, Serves
<1>10. ASSUME p = m, NEW s \in streams, Delivers(m, s) PROVE Turns(p)'
  BY <1>8, <1>10 DEF Delivers, Serves
<1>11. ASSUME p = m, NEW s \in streams, Reads(m, s) PROVE Turns(p)'
  <2> DEFINE u == s.to
  <2>1. /\ u < m /\ IsNext(m, u) /\ seq[u] >= s.seq /\ s.seq = seq[m] /\ u \in Members
        /\ Working(m)
    BY <1>1, <1>11 DEF Stream, Reads, TInv, TypeOK, Exchanges, Working
  <2>2. /\ left'[m] = left[m] \ {u} /\ u \in left[m] /\ seq' = seq /\ pc'[m] = "looping"
        /\ \A q \in Members : reduced'[m][q] = IF q = u THEN reduced[m][q] + 1 ELSE reduced[m][q]
    BY <1>11, <2>1 DEF Reads, Adds, IsNext
  <2> HIDE DEF u
  <2>3. \A r \in Above(m) : r \in Members /\ r # u
    BY <1>1, <2>1 DEF Above
  <2>4. Above(m)' = Above(m)
    BY DEF Above
  <2>5. Taken(m)' = Taken(m) /\ left'[m] \cap Above(m)' = left[m] \cap Above(m)
    BY <2>2, <2>3, <2>4 DEF Taken
  <2>6. /\ m \notin left'[m] /\ reduced'[m][m] = 1
        /\ \A q \in Members : q > m => reduced'[m][q] \in {0, 1}
    BY <1>1, <1>11, <2>1, <2>2 DEF Turns
  <2>7. ASSUME NEW q \in Members, q < m
        PROVE  /\ reduced'[m][q] = IF q \in left'[m] THEN 0 ELSE 1
               /\ q \notin left'[m] => seq'[q] >= seq'[m]
    BY <1>11, <2>1, <2>2, <2>7 DEF Turns
  <2>8. Cardinality(Taken(m)') + Cardinality(left'[m] \cap Above(m)') = Cardinality(Above(m)')
    BY <1>11, <2>1, <2>4, <2>5 DEF Turns
  <2> QED
    BY <1>11, <2>2, <2>6, <2>7, <2>8 DEF Turns
<1>12. ASSUME p = m, NEW u \in Members, Takes(m, u) PROVE Turns(p)'
  <2> DEFINE h == Head(inbound[m])
  <2>1. /\ u \in left[m] /\ u >= m /\ seq' = seq /\ pc'[m] = "looping" /\ Working(m)
        /\ left'[m] = left[m] \ {u} /\ inbound[m] # <<>>
        /\ \A q \in Members : reduced'[m][q] = IF q = h THEN reduced[m][q] + 1 ELSE reduced[m][q]
    BY <1>12 DEF Takes, Adds, Working
  <2>2. h \in Members /\ h \in Queued(m)
    BY <1>1, <1>12, <2>1, Unqueued DEF Queued
  <2> HIDE DEF h
  <2>3. h > m /\ h \notin Taken(m)
    BY <1>1, <1>12, <2>2 DEF Channel, Once, Got
  <2>4. h \in Above(m) /\ reduced[m][h] = 0 /\ h \in Nat /\ m \in Nat /\ u \in Nat
    BY <1>1, <2>2, <2>3 DEF Taken, Above
  <2>5. u \in Above(m)
    BY <1>12, <2>1, <2>4 DEF Turns, Above
  <2>6. Above(m)' = Above(m)
    BY DEF Above
  <2>7. \A r \in Above(m) : r \in Members
    BY DEF Above
  <2>8. Taken(m)' = Taken(m) \cup {h}
    <3>1. reduced'[m][h] = 1
      BY <2>1, <2>2, <2>4
    <3>2. ASSUME NEW r \in Above(m), r # h PROVE reduced'[m][r] = reduced[m][r]
      BY <2>1, <2>7, <3>2
    <3>3. Taken(m) = {r \in Above(m) : reduced[m][r] # 0} /\ Taken(m)' = {r \in Above(m) : reduced'[m][r] # 0}
      BY <2>6 DEF Taken
    <3>4. reduced'[m][h] # 0 /\ h \in Above(m)
      BY <2>4, <3>1
    <3>5. \A r \in Above(m) : r # h => (reduced'[m][r] # 0 <=> reduced[m][r] # 0)
      BY <3>2
    <3> QED
      BY <3>3, <3>4, <3>5
  <2>9. left'[m] \cap Above(m)' = (left[m] \cap Above(m)) \ {u} /\ u \in left[m] \cap Above(m)
    BY <2>1, <2>5, <2>6
  <2>10. Cardinality(Taken(m)') = Cardinality(Taken(m)) + 1
    BY <2>3, <2>8, AboveIsFinite, FS_AddElement
  <2>11. Cardinality(left'[m] \cap Above(m)') = Cardinality(left[m] \cap Above(m)) - 1
    BY <2>9, AboveIsFinite, FS_RemoveElement
  <2>12. Cardinality(Taken(m)') + Cardinality(left'[m] \cap Above(m)') = Cardinality(Above(m)')
    <3>1. Cardinality(Taken(m)) + Cardinality(left[m] \cap Above(m)) = Cardinality(Above(m))
      BY <1>12, <2>1 DEF Turns
    <3>2. /\ Cardinality(Above(m)) \in Nat /\ Cardinality(Taken(m)) \in Nat
          /\ Cardinality(left[m] \cap Above(m)) \in Nat
      BY AboveIsFinite
    <3>3. Cardinality(Above(m)') = Cardinality(Above(m))
      BY <2>6
    <3> QED
      BY <2>10, <2>11, <3>1, <3>2, <3>3
  <2>13. /\ m \notin left'[m] /\ reduced'[m][m] = 1
    BY <1>12, <2>1, <2>3, <2>4 DEF Turns
  <2>14. ASSUME NEW q \in Members, q > m PROVE reduced'[m][q] \in {0, 1}
    <3>1. CASE q = h
      BY <2>1, <2>4, <3>1
    <3>2. CASE q # h
      BY <1>12, <2>1, <2>14, <3>2 DEF Turns
    <3> QED
      BY <3>1, <3>2
  <2>15. ASSUME NEW q \in Members, q < m
        PROVE  /\ reduced'[m][q] = IF q \in left'[m] THEN 0 ELSE 1
               /\ q \notin left'[m] => seq'[q] >= seq'[m]
    <3>1. q # h /\ q # u
      BY <1>1, <2>1, <2>3, <2>4, <2>15
    <3> QED
      BY <1>12, <2>1, <2>15, <3>1 DEF Turns
  <2> QED
    BY <1>12, <2>1, <2>12, <2>13, <2>14, <2>15 DEF Turns
<1> QED
  BY <1>4, <1>5, <1>6, <1>7, <1>9, <1>10, <1>11, <1>12 DEF Moves, Fails

LEMMA ResultsMove ==
  ASSUME TInv, NEW m \in Members, Act(m), NEW p \in Members
  PROVE  \/ returned'[p] = returned[p]
         \/ p = m /\ returned'[m] = None
         \/ p = m /\ Return(m) /\ returned' = [returned EXCEPT ![m] = Result(m)] /\ returned'[m] = Result(m)
<1>1. returned \in [Members -> Results \cup {None}]
  BY DEF TInv, TypeOK
<1>2. CASE p # m
  BY <1>2, Elsewhere DEF Same
<1>3. CASE p = m /\ Return(m)
  BY <1>1, <1>3 DEF Return
<1>4. CASE p = m /\ Restart(m)
  BY <1>1, <1>4 DEF Restart
<1>5. CASE p = m /\ UNCHANGED returned
  BY <1>5
<1>6. CASE ReturnError(m)
  BY <1>2, <1>5, <1>6 DEF ReturnError
<1>7. CASE Call(m) \/ ReadRank(m) \/ PublishLocal(m) \/ Dial(m) \/ LeaveReduce(m) \/ Deliver(m)
  BY <1>2, <1>5, <1>7 DEF Call, ReadRank, PublishLocal, Dial, LeaveReduce, Deliver
<1>8. CASE ReadReply(m)
  BY <1>2, <1>5, <1>8 DEF ReadReply
<1>9. CASE TakeInbound(m)
  BY <1>2, <1>5, <1>6, <1>9 DEF TakeInbound
<1>10. CASE Admit(m) \/ Refuse(m) \/ Reply(m) \/ Learn(m) \/ Forget(m)
  BY <1>2, <1>5, <1>10 DEF Admit, Refuse, Reply, Learn, Forget, callVars
<1>11. CASE ReturnIncomplete(m) \/ Refused(m) \/ FailToDialItself(m) \/ Fail(m)
  BY <1>6, <1>11 DEF ReturnIncomplete, Refused, FailToDialItself, Fail
<1> QED
  BY <1>2, <1>3, <1>4, <1>7, <1>8, <1>9, <1>10, <1>11 DEF Act, Step

LEMMA IssuedStays ==
  ASSUME TInv, setting' = setting, NEW m \in Members, Act(m), NEW p \in Members, Issued(p)
  PROVE  Issued(p)'
<1>1. Program' = Program
  BY DEF Program
<1>2. CASE returned'[p] = returned[p]
  BY <1>1, <1>2 DEF Issued
<1>3. CASE p = m /\ returned'[m] = None
  BY <1>3 DEF Issued
<1>4. CASE p = m /\ Return(m) /\ returned'[m] = Result(m)
  <2>1. seq[m] \in 1 .. Len(Program)
    BY <1>4 DEF Return, Ending, TInv, Numbered
  <2>2. returned'[m].op = Program[seq[m]]
    BY <1>4 DEF Result, Op
  <2> QED
    BY <1>1, <1>4, <2>1, <2>2 DEF Issued
<1> QED
  BY <1>2, <1>3, <1>4, ResultsMove

\* A member that is given a result has waited for every other one's vector.
LEMMA ReturnsLast ==
  ASSUME GInv, Steady, NEW m \in Members, Channel(m), Turns(m), Return(m)
  PROVE  /\ \A p \in Members : reduced[m][p] = 1 /\ seq[p] >= seq[m]
         /\ among[m] = Members /\ Working(m)
<1>1. TInv /\ Working(m) /\ left[m] = {}
  BY DEF GInv, Return, Ending, Working, Turns
<1>2. among[m] = Members
  BY <1>1 DEF GInv, Gathering, Membership, Working
<1> QED
  BY <1>1, <1>2, AllTurnsTaken

LEMMA PastStays ==
  ASSUME GInv, Steady, NEW m \in Members, Act(m), Moves(m), Channel(m), Turns(m),
         NEW p \in Members, Past(p)
  PROVE  Past(p)'
<1>1. TInv /\ returned \in [Members -> Results \cup {None}] /\ setting \in Settings
  BY DEF GInv, TInv, TypeOK
<1>2. \A q \in Members : seq[q] \in Nat
  BY <1>1, SeqTypes
<1>3. returned[p] # None => returned[p].seq \in Nat
  BY <1>1, ProgramFacts DEF Results
<1>4. seq'[p] = seq[p] \/ (p = m /\ Opens(m) /\ seq'[p] = seq[p] + 1)
  BY <1>1, SeqGrows
<1>5. CASE returned'[p] = returned[p]
  <2>1. CASE seq'[p] = seq[p] + 1
    BY <1>2, <1>3, <1>5, <2>1 DEF Past
  <2>2. CASE seq'[p] = seq[p] /\ (Working(p)' => Working(p))
    BY <1>5, <2>2 DEF Past
  <2>3. CASE p # m
    BY <1>1, <2>2, <2>3, Elsewhere DEF Same, Working
  <2>4. CASE p = m /\ seq'[p] = seq[p]
    <3>1. ~Opens(m)
      <4>1. seq \in [Members -> 0 .. Len(Program)]
        BY <1>1 DEF TInv, TypeOK
      <4> QED
        BY <1>2, <2>4, <4>1 DEF Opens
    <3>2. Working(m)' => Working(m)
      BY <3>1 DEF Moves, Fails, Ends, Waits, Leaves, Dials, Takes, Reads, Delivers, Serving, Serves, Working
    <3> QED
      BY <2>2, <2>4, <3>2
  <2> QED
    BY <1>4, <2>1, <2>3, <2>4
<1>6. CASE p = m /\ returned'[m] = None
  BY <1>6 DEF Past
<1>7. CASE p = m /\ Return(m) /\ returned'[m] = Result(m)
  <2>1. /\ returned'[m].seq = seq[m] /\ returned'[m].among = among[m]
        /\ returned'[m].reduced = reduced[m]
    BY <1>7 DEF Result
  <2>2. seq' = seq /\ pc'[m] = "idle"
    BY <1>1, <1>7 DEF Return, Closed, TInv, TypeOK
  <2> QED
    BY <1>2, <1>7, <2>1, <2>2, ReturnsLast DEF Past, Working
<1> QED
  BY <1>1, <1>5, <1>6, <1>7, ResultsMove

LEMMA SettledInit == Init => SInv
<1> SUFFICES ASSUME Init PROVE SInv
  OBVIOUS
<1>1. GInv
  BY GatheringInit
<1>2. \A m \in Members : Got(m) = {} /\ Queued(m) = {} /\ Taken(m) = {}
  BY DEF Init, Got, Queued, Taken, Above
<1>3. streams = {} /\ \A m \in Members : inbound[m] = <<>> /\ pc[m] = "idle" /\ returned[m] = None
  BY DEF Init
<1>4. Travel
  BY <1>2, <1>3 DEF Travel, Sole, Channel, Once
<1>5. \A m \in Members : Turns(m) /\ Past(m) /\ Issued(m)
  BY <1>3 DEF Turns, Past, Issued, Working
<1> QED
  BY <1>1, <1>4, <1>5 DEF SInv

LEMMA SettledStep ==
  ASSUME SInv, [Next]_vars
  PROVE  GInv' => SInv'
<1> SUFFICES ASSUME GInv' PROVE SInv'
  OBVIOUS
<1>1. CASE Next
  <2>1. PICK m \in Members : Act(m)
    BY <1>1, NextIsAct
  <2>2. GInv /\ TInv /\ TInv' /\ setting' = setting /\ Steady' = Steady
    BY <1>1 DEF SInv, GInv, Next, Held, Steady, Settled, Forgetting, Restarting
  <2>3. \A p \in Members : Issued(p)'
    BY <2>1, <2>2, IssuedStays DEF SInv
  <2>4. ASSUME Steady PROVE Travel' /\ \A p \in Members : Turns(p)' /\ Past(p)'
    <3>1. Travel /\ Moves(m) /\ \A p \in Members : Turns(p) /\ Past(p) /\ Channel(p)
      BY <2>1, <2>2, <2>4, SteadyMoves DEF SInv, Travel
    <3>2. Travel'
      BY <2>1, <2>2, <3>1, TravelStays
    <3>3. \A p \in Members : Turns(p)'
      BY <2>1, <2>2, <3>1, TurnsStay
    <3>4. \A p \in Members : Past(p)'
      BY <2>1, <2>2, <2>4, <3>1, PastStays
    <3> QED
      BY <3>2, <3>3, <3>4
  <2> QED
    BY <2>2, <2>3, <2>4 DEF SInv
<1>2. CASE UNCHANGED vars
  <2>1. \A p \in Members : Same(p)
    BY <1>2 DEF vars, callVars, Same
  <2>2. streams' = streams /\ setting' = setting
    BY <1>2 DEF vars
  <2>3. Steady' = Steady /\ Program' = Program
    BY <2>2 DEF Steady, Settled, Forgetting, Restarting, Program
  <2>4. UNCHANGED <<pc, seq, left, inbound, reduced>>
    BY <1>2 DEF vars, callVars
  <2>5. ASSUME Travel PROVE Travel'
    BY <2>2, <2>5, <2>4 DEF Travel, Sole, SameCall, Stream, Channel, Once, Dialed, ToDial, IsNext,
       Got, Taken, Queued, Above
  <2>6. \A p \in Members : Taken(p)' = Taken(p) /\ Above(p)' = Above(p)
    BY <2>4 DEF Taken, Above
  <2>7. ASSUME NEW p \in Members
        PROVE  /\ Turns(p) => Turns(p)'
               /\ Past(p) => Past(p)'
               /\ Issued(p) => Issued(p)'
    BY <2>1, <2>3, <2>4, <2>6 DEF Same, Turns, Past, Working, Issued
  <2>8. \A p \in Members : Issued(p)'
    BY <2>7 DEF SInv
  <2>9. ASSUME Steady PROVE Travel' /\ \A p \in Members : Turns(p)' /\ Past(p)'
    <3>1. Travel /\ \A p \in Members : Turns(p) /\ Past(p)
      BY <2>9 DEF SInv
    <3> QED
      BY <2>5, <2>7, <3>1
  <2> QED
    BY <2>3, <2>8, <2>9 DEF SInv
<1> QED
  BY <1>1, <1>2

(* With settled membership each vector travels once, and a call has summed *)
(* as many of the higher members' vectors as turns of theirs are over.     *)
THEOREM SettledInductive == Spec => []SInv
<1>1. SInv /\ GInv' /\ [Next]_vars => SInv'
  BY SettledStep
<1> QED
  BY <1>1, SettledInit, GatheringInductive, PTL DEF Spec

LEMMA ExactNow ==
  ASSUME SInv
  PROVE  (Steady => ResultsAreExact) /\ (Selfless => GatherIsExact)
<1>1. \A m \in Members : Gathering(m)
  BY DEF SInv, GInv
<1>2. Selfless \/ Steady => GatherIsExact
  BY <1>1 DEF Gathering, Gathered, GatherIsExact, Returned
<1>3. Steady => ExactReduction
  BY DEF SInv, Past, ExactReduction, Returned
<1> QED
  BY <1>2, <1>3 DEF ResultsAreExact

(* Whatever the other groups of an instance do, each owes this much by     *)
(* itself: results are exact while its membership is settled, and its      *)
(* gatherings are, whatever else it runs, if no endpoint dials itself and  *)
(* gossip takes none for its own lost neighbour (AllReduce, AllGather).    *)
THEOREM ExactWhereOwed == Spec => [](Steady => ResultsAreExact) /\ [](Selfless => GatherIsExact)
BY ExactNow, SettledInductive, PTL

(* What a collective returns is exact: a gathering has every member's      *)
(* vector in that member's place, a reduction has each member's vector     *)
(* once, if the group's membership is settled, or if it only gathers and   *)
(* no endpoint dials itself (AllReduce, AllGather, Barrier).               *)
THEOREM ExactResults ==
  ASSUME Exacting
  PROVE  Spec => []ResultsAreExact
<1>1. ASSUME SInv PROVE ResultsAreExact
  <2>1. TInv /\ setting \in Settings /\ \A m \in Members : Gathering(m) /\ Issued(m)
    BY <1>1 DEF SInv, GInv, TInv, TypeOK
  <2>2. CASE Steady
    BY <1>1, <2>2, ExactNow
  <2>3. CASE ~Steady
    <3>1. (\A k \in DOMAIN Program : Program[k] = "AllGather") /\ Selfless
      BY <2>1, <2>3, Exacting DEF Exacting, Steady, Settled, Forgetting, Restarting, Selfless, SelfConnect, Program
    <3>2. \A k \in 1 .. Len(Program) : Program[k] = "AllGather"
      BY <2>1, <3>1, ProgramFacts
    <3>3. GatherIsExact
      BY <1>1, <3>1, ExactNow
    <3>4. \A m \in Members : returned[m] # None => returned[m].op = "AllGather"
      BY <2>1, <3>2 DEF Issued
    <3>5. ExactReduction
      BY <3>4 DEF ExactReduction, Returned
    <3> QED
      BY <3>3, <3>5 DEF ResultsAreExact
  <2> QED
    BY <2>2, <2>3
<1> QED
  BY <1>1, SettledInductive, PTL

-----------------------------------------------------------------------------
(* The refinement                                                          *)

Entered == [m \in Members |-> IF Steady THEN seq[m] ELSE 0]
Passed == [m \in Members |-> IF Steady /\ returned[m] # None THEN returned[m].seq ELSE 0]

LEMMA MeetingInit == Init => Meeting!Init
BY DEF Init, Meeting!Init

LEMMA MeetingStep ==
  ASSUME SInv, [Next]_vars
  PROVE  [Meeting!Next]_(Meeting!vars)
<1>1. setting' = setting
  BY DEF Next, Held, vars
<1>2. Steady' = Steady
  BY <1>1 DEF Steady, Settled, Forgetting, Restarting
<1>3. CASE ~Steady
  BY <1>2, <1>3 DEF Meeting!vars
<1>4. CASE UNCHANGED <<seq, returned>>
  BY <1>2, <1>4 DEF Meeting!vars
<1>5. CASE Steady /\ Next
  <2>1. PICK m \in Members : Act(m)
    BY <1>5, NextIsAct
  <2>2. /\ GInv /\ TInv /\ Travel /\ Channel(m) /\ \A p \in Members : Turns(p) /\ Past(p)
        /\ seq \in [Members -> 0 .. Len(Program)]
        /\ returned \in [Members -> Results \cup {None}]
    BY <1>5 DEF SInv, GInv, TInv, TypeOK, Travel
  <2>3. Moves(m)
    BY <1>5, <2>1, <2>2, SteadyMoves
  <2>4. /\ Entered = [p \in Members |-> seq[p]] /\ Entered' = [p \in Members |-> seq'[p]]
        /\ Passed = [p \in Members |-> IF returned[p] # None THEN returned[p].seq ELSE 0]
        /\ Passed' = [p \in Members |-> IF returned'[p] # None THEN returned'[p].seq ELSE 0]
    BY <1>2, <1>5 DEF Entered, Passed
  <2>5. CASE Opens(m)
    <3>1. seq' = [seq EXCEPT ![m] = @ + 1] /\ returned' = returned
      BY <2>5 DEF Opens
    <3>2. Entered' = [Entered EXCEPT ![m] = Entered[m] + 1] /\ Passed' = Passed
      BY <2>2, <2>4, <3>1
    <3>3. Meeting!Enter(m)
      BY <3>2 DEF Meeting!Enter, Entered, Passed
    <3> QED
      BY <3>3 DEF Meeting!Next
  <2>6. CASE Return(m)
    <3>1. (\A p \in Members : seq[p] >= seq[m]) /\ Working(m)
      BY <1>5, <2>2, <2>6, ReturnsLast
    <3>2. returned' = [returned EXCEPT ![m] = Result(m)] /\ seq' = seq
      BY <2>6 DEF Return
    <3>3. Result(m).seq = seq[m]
      BY DEF Result
    <3>4. seq[m] \in 1 .. Len(Program) /\ Len(Program) \in Nat
      BY <2>2, <3>1, ProgramFacts DEF TInv, TypeOK, Numbered, Working
    <3>5. Result(m) # None
      <4>1. Result(m) \in [op : Collectives, seq : Nat, among : SUBSET Members,
                           reduced : [Members -> Nat], parts : [Members -> Members \cup {None}]]
        <5>1. Op(m) \in Collectives
          BY <2>2, <3>4, ProgramFacts DEF Op, TInv, TypeOK
        <5> QED
          BY <2>2, <3>4, <5>1 DEF Result, TInv, TypeOK
      <4> QED
        BY <4>1, NoneAssumption
    <3>6. Passed' = [Passed EXCEPT ![m] = Entered[m]] /\ Entered' = Entered
      BY <2>2, <2>4, <3>2, <3>3, <3>5
    <3>7. Passed[m] < Entered[m] /\ \A p \in Members : Entered[p] >= Entered[m]
      BY <2>2, <2>4, <3>1, <3>4 DEF Past
    <3>8. Meeting!Pass(m)
      BY <3>6, <3>7 DEF Meeting!Pass, Entered, Passed
    <3> QED
      BY <3>8 DEF Meeting!Next
  <2> QED
    BY <1>4, <2>3, <2>5, <2>6 DEF Moves, Fails, Ends, Waits, Leaves, Dials, Takes, Reads, Delivers, Serving, Serves
<1> QED
  BY <1>3, <1>4, <1>5 DEF vars, callVars

(* With settled membership a member is given a result only when every      *)
(* member has reached the call, whatever fails (AllReduce, AllGather,      *)
(* Barrier).                                                               *)
THEOREM RendezvousHolds == Spec => IsRendezvous
<1>1. SInv /\ [Next]_vars => [Meeting!Next]_(Meeting!vars)
  BY MeetingStep
<1> QED
  BY <1>1, MeetingInit, SettledInductive, PTL DEF Spec, IsRendezvous, Meeting!Spec

-----------------------------------------------------------------------------
(* Settled membership, and no exchange fails: no collective does           *)

Smooth == Steady /\ Failing = {}

(* A call that has ended gave its result, and the first one is to come or  *)
(* each before it gave one.                                                *)
Unfailed(m) == pc[m] = "idle" =>
  IF seq[m] = 0 THEN returned[m] = None ELSE returned[m] # None /\ returned[m].seq = seq[m]

(* Every vector that went in has its place.                                *)
Filled(m) == Working(m) => \A p \in Members : reduced[m][p] # 0 => parts[m][p] # None

(* No server turned an exchange away.                                      *)
Unclosed == \A s \in streams : s.stage # "closed"

FInv == SInv /\ (Smooth => Unclosed /\ (\A m \in Members : Unfailed(m) /\ Filled(m)))

NoneFails == Smooth => \A m \in Members : pc[m] # "panicked" /\ Unfailed(m)

LEMMA OnesOfOne ==
  ASSUME TInv, NEW m \in Members, \A p \in Members : reduced[m][p] = 1
  PROVE  Ones(m) = Cardinality(Members)
<1> DEFINE U == UNION {{p} \X (1 .. reduced[m][p]) : p \in Members}
<1>1. U = Members \X {1}
  <2>1. \A p \in Members : 1 .. reduced[m][p] = {1}
    OBVIOUS
  <2>2. \A x : x \in U <=> \E p \in Members : x \in {p} \X {1}
    BY <2>1
  <2> HIDE DEF U
  <2>3. \A x : x \in U <=> x \in Members \X {1}
    BY <2>2
  <2> QED
    BY <2>3
<1>2. IsFiniteSet({1}) /\ Cardinality({1}) = 1
  BY FS_Singleton
<1>3. Cardinality(Members \X {1}) = Cardinality(Members) * Cardinality({1})
  BY <1>2, ConstantsAssumption, FS_Product
<1>4. Cardinality(Members) \in Nat
  BY ConstantsAssumption, FS_CardinalityType
<1>5. Cardinality(Members \X {1}) = Cardinality(Members)
  BY <1>2, <1>3, <1>4
<1> QED
  BY <1>1, <1>5 DEF Ones

(* A call whose turns are over has what its collective asks for.           *)
LEMMA AllComplete ==
  ASSUME SInv, Steady, NEW m \in Members, Filled(m), Ending(m)
  PROVE  Complete(m)
<1>1. GInv /\ TInv /\ Channel(m) /\ Turns(m)
  BY DEF SInv, GInv, Travel
<1>2. Working(m) /\ left[m] = {}
  BY <1>1 DEF Ending, Working, Turns
<1>3. \A p \in Members : reduced[m][p] = 1
  BY <1>1, <1>2, AllTurnsTaken
<1>4. known[m] = Members /\ among[m] = Members
  BY <1>1, <1>2 DEF GInv, Gathering, Membership, Working
<1>5. Ones(m) = Cardinality(known[m])
  BY <1>1, <1>3, <1>4, OnesOfOne
<1>6. \A p \in among[m] : parts[m][p] # None
  BY <1>2, <1>3, <1>4 DEF Filled
<1> QED
  BY <1>5, <1>6 DEF Complete

\* What members do when no call fails.
Adding(m) == \E p \in Members, u \in left[m] : Combine(m, u, p) /\ UNCHANGED <<pc, seq, streams, returned>>

Well(m) ==
  \/ Call(m) \/ ReadRank(m) \/ PublishLocal(m) \/ Dial(m) \/ ReadReply(m)
  \/ Adding(m) \/ LeaveReduce(m) \/ Return(m) \/ Admit(m) \/ Deliver(m) \/ Reply(m)

LEMMA AllGoWell ==
  ASSUME SInv, Smooth, Unclosed, NEW m \in Members, Filled(m), Act(m)
  PROVE  Well(m)
<1>1. GInv /\ TInv /\ Turns(m) /\ Quietly(m) /\ known[m] = Members
  BY Quiet DEF SInv, GInv, Smooth, Steady, Gathering, Membership
<1>2. ~ReturnIncomplete(m)
  BY AllComplete DEF Smooth, ReturnIncomplete
<1>3. ~Refused(m) /\ ~Fail(m)
  BY DEF Unclosed, Refused, Smooth, Fail
<1>4. ~FailToDialItself(m)
  BY <1>1 DEF FailToDialItself, IsNext, Turns, Working
<1>5. ~Refuse(m)
  BY <1>1 DEF Refuse, TInv, TypeOK, Exchanges
<1>6. TakeInbound(m) => Adding(m)
  <2> SUFFICES ASSUME TakeInbound(m) PROVE Adding(m)
    OBVIOUS
  <2>1. pc[m] = "looping" /\ inbound[m] # <<>>
    BY DEF TakeInbound
  <2>2. Head(inbound[m]) \in Members
    <3>1. inbound[m] \in Seq(Members)
      BY <1>1 DEF TInv, TypeOK
    <3> QED
      BY <2>1, <3>1
  <2>3. among[m] = Members
    BY <1>1, <2>1 DEF GInv, Gathering, Membership, Smooth
  <2>4. PICK u \in left[m] : Combine(m, u, Head(inbound[m])) /\ UNCHANGED <<pc, seq, streams, returned>>
    BY <2>2, <2>3 DEF TakeInbound
  <2> QED
    BY <2>2, <2>4 DEF Adding
<1> QED
  BY <1>1, <1>2, <1>3, <1>4, <1>5, <1>6 DEF Quietly, Step, Well

LEMMA UnclosedStays ==
  ASSUME TInv, Unclosed, NEW m \in Members, Well(m)
  PROVE  Unclosed'
<1>1. ASSUME UNCHANGED streams PROVE Unclosed'
  BY <1>1 DEF Unclosed
<1>2. ASSUME NEW s \in streams, NEW st \in {"admitted", "held", "replied"}, Advance(s, st)
      PROVE  Unclosed'
  <2>1. [s EXCEPT !.stage = st].stage = st
    BY DEF TInv, TypeOK, Exchanges
  <2> QED
    BY <1>2, <2>1 DEF Advance, Unclosed
<1>3. CASE Admit(m) \/ Deliver(m) \/ Reply(m)
  BY <1>2, <1>3 DEF Admit, Deliver, Reply
<1>4. CASE Dial(m)
  BY <1>4 DEF Dial, Exchange, Unclosed
<1>5. CASE ReadReply(m)
  BY <1>5 DEF ReadReply, Unclosed
<1>6. CASE Call(m) \/ ReadRank(m) \/ PublishLocal(m) \/ Adding(m) \/ LeaveReduce(m) \/ Return(m)
  BY <1>1, <1>6 DEF Call, ReadRank, PublishLocal, Adding, LeaveReduce, Return
<1> QED
  BY <1>3, <1>4, <1>5, <1>6 DEF Well

LEMMA UnfailedStays ==
  ASSUME TInv, NEW m \in Members, Act(m), Well(m), NEW p \in Members, Unfailed(p)
  PROVE  Unfailed(p)'
<1>0. /\ pc \in [Members -> {"idle", "called", "ranked", "looping", "dialing", "counting", "panicked"}]
      /\ seq \in [Members -> 0 .. Len(Program)]
      /\ returned \in [Members -> Results \cup {None}]
  BY DEF TInv, TypeOK
<1>1. CASE p # m
  BY <1>1, Elsewhere DEF Same, Unfailed
<1>2. CASE p = m /\ (Admit(m) \/ Deliver(m) \/ Reply(m))
  BY <1>2 DEF Admit, Deliver, Reply, callVars, Unfailed
<1>3. CASE p = m /\ (Call(m) \/ ReadRank(m) \/ PublishLocal(m) \/ Dial(m) \/ ReadReply(m) \/ LeaveReduce(m))
  <2>1. pc'[m] # "idle"
    BY <1>0, <1>3 DEF Call, ReadRank, PublishLocal, Dial, ReadReply, LeaveReduce
  <2> QED
    BY <1>3, <2>1 DEF Unfailed
<1>4. CASE p = m /\ Adding(m)
  BY <1>4 DEF Adding, Unfailed
<1>5. CASE p = m /\ Return(m)
  <2>1. seq' = seq /\ returned' = [returned EXCEPT ![m] = Result(m)] /\ Ending(m)
    BY <1>5 DEF Return
  <2>2. seq[m] \in 1 .. Len(Program) /\ Len(Program) \in Nat
    BY <1>0, <2>1, ProgramFacts DEF TInv, TypeOK, Numbered, Ending
  <2>3. Result(m) # None
    <3>1. Op(m) \in Collectives
      BY <2>2, ProgramFacts DEF Op, TInv, TypeOK
    <3>2. Result(m) \in [op : Collectives, seq : Nat, among : SUBSET Members,
                         reduced : [Members -> Nat], parts : [Members -> Members \cup {None}]]
      BY <2>2, <3>1 DEF Result, TInv, TypeOK
    <3> QED
      BY <3>2, NoneAssumption
  <2>4. Result(m).seq = seq[m]
    BY DEF Result
  <2>5. returned'[m] = Result(m)
    BY <1>0, <2>1
  <2> QED
    BY <1>5, <2>1, <2>2, <2>3, <2>4, <2>5 DEF Unfailed
<1> QED
  BY <1>1, <1>2, <1>3, <1>4, <1>5 DEF Well

LEMMA FilledStays ==
  ASSUME GInv, Steady, NEW m \in Members, Act(m), Well(m), NEW p \in Members, Filled(p)
  PROVE  Filled(p)'
<1>0. /\ TInv
      /\ pc \in [Members -> {"idle", "called", "ranked", "looping", "dialing", "counting", "panicked"}]
      /\ reduced \in [Members -> [Members -> Nat]]
      /\ parts \in [Members -> [Members -> Members \cup {None}]]
      /\ streams \subseteq Exchanges
  BY DEF GInv, TInv, TypeOK
<1>1. CASE p # m
  BY <1>0, <1>1, Elsewhere DEF Same, Filled, Working
<1>2. CASE p = m /\ (Admit(m) \/ Deliver(m) \/ Reply(m))
  BY <1>2 DEF Admit, Deliver, Reply, callVars, Filled, Working
<1>3. CASE p = m /\ (Call(m) \/ ReadRank(m))
  BY <1>0, <1>3 DEF Call, ReadRank, Filled, Working
<1>4. CASE p = m /\ (Dial(m) \/ LeaveReduce(m))
  BY <1>0, <1>4 DEF Dial, LeaveReduce, Filled, Working
<1>5. CASE p = m /\ Return(m)
  BY <1>0, <1>5 DEF Return, Closed, Filled, Working
<1>6. CASE p = m /\ PublishLocal(m)
  <2>1. pc[m] = "ranked"
    BY <1>6 DEF PublishLocal
  <2>2. m \in Place(m)
    BY <2>1 DEF GInv, Gathering, Membership, Place
  <2>3. parts'[m][m] = m /\ \A q \in Members : reduced'[m][q] = IF q = m THEN 1 ELSE 0
    BY <1>0, <1>6, <2>2 DEF PublishLocal
  <2>4. m # None
    BY ConstantsAssumption
  <2> QED
    BY <1>6, <2>3, <2>4 DEF Filled
<1>7. ASSUME p = m, Working(m), NEW q \in Members, NEW u, Combine(m, u, q) PROVE Filled(p)'
  <2>1. \A r \in Members : /\ r # q => reduced'[m][r] = reduced[m][r] /\ parts'[m][r] = parts[m][r]
                           /\ r = q => parts'[m][r] = q
    BY <1>0, <1>7 DEF Combine
  <2>2. q # None
    BY ConstantsAssumption
  <2> QED
    BY <1>7, <2>1, <2>2 DEF Filled
<1>8. CASE p = m /\ ReadReply(m)
  <2>1. Working(m)
    BY <1>8 DEF ReadReply, Working
  <2>2. PICK s \in streams : Combine(m, s.to, s.to)
    BY <1>8 DEF ReadReply
  <2>3. s.to \in Members
    BY <1>0 DEF Exchanges
  <2> QED
    BY <1>7, <1>8, <2>1, <2>2, <2>3
<1>9. CASE p = m /\ Adding(m)
  <2>1. PICK q \in Members, u \in left[m] : Combine(m, u, q) /\ UNCHANGED pc
    BY <1>9 DEF Adding
  <2>2. CASE Working(m)
    BY <1>7, <1>9, <2>1, <2>2
  <2>3. CASE ~Working(m)
    BY <1>9, <2>1, <2>3 DEF Filled, Working
  <2> QED
    BY <2>2, <2>3
<1> QED
  BY <1>1, <1>2, <1>3, <1>4, <1>5, <1>6, <1>8, <1>9 DEF Well

LEMMA WellInit == Init => FInv
<1> SUFFICES ASSUME Init PROVE FInv
  OBVIOUS
<1>1. SInv
  BY SettledInit
<1>2. streams = {} /\ \A m \in Members : pc[m] = "idle" /\ seq[m] = 0 /\ returned[m] = None
  BY DEF Init
<1> QED
  BY <1>1, <1>2 DEF FInv, Unclosed, Unfailed, Filled, Working

LEMMA WellStep ==
  ASSUME FInv, SInv', [Next]_vars
  PROVE  FInv'
<1>1. setting' = setting
  BY DEF Next, Held, vars
<1>2. Smooth' = Smooth
  BY <1>1 DEF Smooth, Steady, Settled, Forgetting, Restarting, Failing
<1>3. CASE UNCHANGED vars
  BY <1>2, <1>3 DEF FInv, vars, callVars, Unclosed, Unfailed, Filled, Working
<1>4. CASE Next /\ Smooth
  <2>1. PICK m \in Members : Act(m)
    BY <1>4, NextIsAct
  <2>2. SInv /\ GInv /\ TInv /\ Steady /\ Unclosed /\ \A p \in Members : Unfailed(p) /\ Filled(p)
    BY <1>4 DEF FInv, SInv, GInv, Smooth
  <2>3. Well(m)
    BY <1>4, <2>1, <2>2, AllGoWell
  <2>4. Unclosed'
    BY <2>2, <2>3, UnclosedStays
  <2>5. \A p \in Members : Unfailed(p)' /\ Filled(p)'
    BY <2>1, <2>2, <2>3, UnfailedStays, FilledStays
  <2> QED
    BY <2>4, <2>5 DEF FInv
<1> QED
  BY <1>2, <1>3, <1>4 DEF FInv

(* In a group that knows all its members, loses none, and has no exchange  *)
(* fail, no collective returns an error or panics: a call gives its result *)
(* or does not end (AllReduce, AllGather, and Barrier, whose count against *)
(* the members of now never fails).                                        *)
THEOREM SmoothGroupsSucceed == Spec => []NoneFails
<1>1. FInv /\ SInv' /\ [Next]_vars => FInv'
  BY WellStep
<1>2. FInv => NoneFails
  BY DEF FInv, SInv, GInv, Gathering, Membership, NoneFails, Smooth
<1> QED
  BY <1>1, <1>2, WellInit, SettledInductive, PTL DEF Spec

=============================================================================
