------------------------------- MODULE Dtrain -------------------------------
(***************************************************************************)
(* The collectives of dtrain: AllReduce, AllGather and Barrier over a      *)
(* group whose membership gossip keeps.  Of each two members the higher    *)
(* rank dials the lower and both vectors travel on that stream; a server   *)
(* goroutine of the lower one hands the inbound vector to the collective   *)
(* with the same sequence number and answers with the local vector.        *)
(*                                                                         *)
(* Abstractions.  Endpoint IDs are naturals, in the order of their         *)
(* strings.  A vector is the member that contributed it; a reduction is    *)
(* the number of times each member's vector went into it.  The other ways  *)
(* an exchange may fail (no address, no connection, a wrong identity, a    *)
(* deadline) are one: the call returns an error.                           *)
(***************************************************************************)
EXTENDS Naturals, FiniteSets, Sequences

CONSTANTS
  Members,   \* endpoint IDs
  Settings,  \* what the group runs, and what may befall it
  None

Collectives == {"AllReduce", "AllGather", "Barrier"}

ASSUME ConstantsAssumption ==
  /\ Members \subseteq Nat
  /\ IsFiniteSet(Members)
  /\ \A s \in Settings :
       /\ s.program \in Seq(Collectives)
       /\ s.settled \in BOOLEAN
       /\ s.forgetting \subseteq Members \X Members
       /\ s.failing \subseteq Members
       /\ s.restarting \subseteq Members
       /\ s.selfConnect \in BOOLEAN
  /\ None \notin Members

\* None is no result either.
ASSUME NoneAssumption ==
  None \notin [op : Collectives, seq : Nat, among : SUBSET Members,
               reduced : [Members -> Nat], parts : [Members -> Members \cup {None}]]

VARIABLES
  setting,   \* one of Settings, for good
  known,     \* members: the IDs a member's gossip handler has recorded
  restarted, \* the members that restarted
  pc,        \* where a member's current call is
  seq,       \* the sequence number of its last collective
  among,     \* the call's snapshot of the membership
  rank,      \* the call's own rank, read after the snapshot
  left,      \* the snapshot's members whose turn is to come
  room,      \* the capacity of the inbound channel
  inbound,   \* the senders of the vectors in the inbound channel
  reduced,   \* how often each member's vector went into the result
  parts,     \* AllGather: whose vector is in a member's place, or None
  streams,   \* the exchanges under way
  returned   \* the last result a member's program was given, or None

callVars == <<pc, seq, among, rank, left, room, inbound, reduced, parts, returned>>
vars == <<setting, known, restarted, callVars, streams>>

Program == setting.program          \* the collectives that every member issues, in order
Settled == setting.settled          \* do the members know one another before the first call?
Forgetting == setting.forgetting    \* pairs <<m, p>>: m may lose p as a gossip neighbour
Failing == setting.failing          \* members whose exchanges may fail
Restarting == setting.restarting    \* members that may restart, once, under their endpoint ID
SelfConnect == setting.selfConnect  \* does the transport let an endpoint dial itself?

\* The channels of a sequence number exist from publishLocal to clearLocal.
Calling(m) == pc[m] \in {"looping", "dialing"}
Op(m) == Program[seq[m]]

RankIn(S, p) == Cardinality({q \in S : q < p})

\* The next member of the snapshot, in rank order.
IsNext(m, p) == p \in left[m] /\ \A q \in left[m] : p <= q

\* Variation: the frame carries the number before the increment.
ExchangeBefore(from, to, n) ==
  [from |-> from, to |-> to, seq |-> n - 1, stage |-> "sent", open |-> TRUE]

Exchange(from, to, n) ==
  [from |-> from, to |-> to, seq |-> n, stage |-> "sent", open |-> TRUE]

\* Of a caller's streams, a server still delivers those whose frame was written.
HangUp(m) ==
  {s \in streams : s.from # m} \cup
  {[s EXCEPT !.open = FALSE] : s \in {t \in streams : t.from = m /\ t.stage \in {"sent", "admitted"}}}

-----------------------------------------------------------------------------
Init ==
  /\ setting \in Settings
  /\ known = [m \in Members |-> IF Settled THEN Members ELSE {m}]
  /\ restarted = {}
  /\ pc = [m \in Members |-> "idle"]
  /\ seq = [m \in Members |-> 0]
  /\ among = [m \in Members |-> {}]
  /\ rank = [m \in Members |-> 0]
  /\ left = [m \in Members |-> {}]
  /\ room = [m \in Members |-> 0]
  /\ inbound = [m \in Members |-> <<>>]
  /\ reduced = [m \in Members |-> [p \in Members |-> 0]]
  /\ parts = [m \in Members |-> [p \in Members |-> None]]
  /\ streams = {}
  /\ returned = [m \in Members |-> None]

(* Membership *)

\* An announcement of p, or NeighborUp.
Learn(m) == \E p \in Members \ known[m] :
  /\ known' = [known EXCEPT ![m] = @ \cup {p}]
  /\ UNCHANGED <<restarted, callVars, streams>>

\* NeighborDown
Forget(m) == \E p \in known[m] :
  /\ <<m, p>> \in Forgetting
  /\ known' = [known EXCEPT ![m] = @ \ {p}]
  /\ UNCHANGED <<restarted, callVars, streams>>

(* The caller *)

\* The next call of the program reads g.Members(), ...
Call(m) ==
  /\ pc[m] = "idle"
  /\ seq[m] < Len(Program)
  /\ pc' = [pc EXCEPT ![m] = "called"]
  /\ among' = [among EXCEPT ![m] = known[m]]
  /\ UNCHANGED <<known, restarted, streams, seq, rank, left, room, inbound, reduced, parts, returned>>

\* ... then, under the lock again, g.Rank(), ...
ReadRank(m) ==
  /\ pc[m] = "called"
  /\ pc' = [pc EXCEPT ![m] = "ranked"]
  /\ rank' = [rank EXCEPT ![m] = RankIn(known[m], m)]
  /\ UNCHANGED <<known, restarted, streams, seq, among, left, room, inbound, reduced, parts, returned>>

\* The place in the gathered vectors that the rank stands for, if any.
Place(m) == {p \in among[m] : RankIn(among[m], p) = rank[m]}

\* ... takes a sequence number and opens its channels.  AllGather then fills
\* its own place: an index out of range if the snapshot has no such rank.
PublishLocal(m) ==
  LET op == Program[seq[m] + 1]
      panics == op = "AllGather" /\ Place(m) = {}
  IN
  /\ pc[m] = "ranked"
  /\ pc' = [pc EXCEPT ![m] = IF panics THEN "panicked" ELSE "looping"]
  /\ seq' = [seq EXCEPT ![m] = @ + 1]
  /\ left' = [left EXCEPT ![m] = among[m] \ Place(m)]
  /\ room' = [room EXCEPT ![m] = Cardinality(known[m])]
  /\ inbound' = [inbound EXCEPT ![m] = <<>>]
  /\ reduced' = [reduced EXCEPT ![m] = [p \in Members |-> IF p = m THEN 1 ELSE 0]]
  /\ parts' = [parts EXCEPT ![m] = [p \in Members |-> IF p \in Place(m) THEN m ELSE None]]
  /\ UNCHANGED <<known, restarted, streams, among, rank, returned>>

\* exchange writes the local vector to a lower rank: to itself, when its rank
\* has grown since the snapshot.
Dial(m) == \E p \in left[m] :
  /\ pc[m] = "looping"
  /\ IsNext(m, p)
  /\ RankIn(among[m], p) < rank[m]
  /\ p # m \/ SelfConnect
  /\ pc' = [pc EXCEPT ![m] = "dialing"]
  /\ streams' = streams \cup {Exchange(m, p, seq[m])}
  /\ UNCHANGED <<known, restarted, seq, among, rank, left, room, inbound, reduced, parts, returned>>

\* The loop's body with the vector of member p for the turn of member t.
Combine(m, t, p) ==
  /\ left' = [left EXCEPT ![m] = @ \ {t}]
  /\ reduced' = [reduced EXCEPT ![m][p] = @ + 1]
  /\ parts' = [parts EXCEPT ![m][p] = p]

ReadReply(m) == \E s \in streams :
  /\ pc[m] = "dialing"
  /\ s.from = m /\ s.open /\ s.stage = "replied"
  /\ pc' = [pc EXCEPT ![m] = "looping"]
  /\ Combine(m, s.to, s.to)
  /\ streams' = streams \ {s}
  /\ UNCHANGED <<known, restarted, seq, among, rank, room, inbound, returned>>

\* The call ends: its locals die, and clearLocal drops its channels.
Closed(m) ==
  /\ pc' = [pc EXCEPT ![m] = "idle"]
  /\ among' = [among EXCEPT ![m] = {}]
  /\ rank' = [rank EXCEPT ![m] = 0]
  /\ left' = [left EXCEPT ![m] = {}]
  /\ room' = [room EXCEPT ![m] = 0]
  /\ inbound' = [inbound EXCEPT ![m] = <<>>]
  /\ reduced' = [reduced EXCEPT ![m] = [p \in Members |-> 0]]
  /\ parts' = [parts EXCEPT ![m] = [p \in Members |-> None]]

\* The call returns an error.
ReturnError(m) ==
  /\ Closed(m)
  /\ streams' = HangUp(m)
  /\ UNCHANGED <<known, restarted, seq, returned>>

\* waitInbound for the turn of a higher rank takes whatever vector is first;
\* AllGather refuses one from outside its snapshot.
TakeInbound(m) == \E t \in left[m] :
  LET p == Head(inbound[m]) IN
  /\ pc[m] = "looping"
  /\ IsNext(m, t)
  /\ RankIn(among[m], t) >= rank[m]
  /\ inbound[m] # <<>>
  /\ IF Op(m) = "AllGather" /\ p \notin among[m]
     THEN ReturnError(m)
     ELSE /\ inbound' = [inbound EXCEPT ![m] = Tail(@)]
          /\ Combine(m, t, p)
          /\ UNCHANGED <<known, restarted, pc, seq, among, rank, room, streams, returned>>

\* What Barrier has summed, each vector being a one: how often any went in.
Ones(m) == Cardinality(UNION {{p} \X (1 .. reduced[m][p]) : p \in Members})

\* Barrier compares the sum with the members of now; AllGather wants every
\* place filled.
Complete(m) ==
  CASE Op(m) = "Barrier"   -> Ones(m) = Cardinality(known[m])
    [] Op(m) = "AllGather" -> \A p \in among[m] : parts[m][p] # None
    [] OTHER               -> TRUE

Result(m) ==
  [op |-> Op(m), seq |-> seq[m], among |-> among[m],
   reduced |-> reduced[m], parts |-> parts[m]]

\* AllReduce returns to Barrier: it has cleared its channels by the time
\* Barrier reads g.Members() to compare.
LeaveReduce(m) ==
  /\ pc[m] = "looping"
  /\ left[m] = {}
  /\ Op(m) = "Barrier"
  /\ pc' = [pc EXCEPT ![m] = "counting"]
  /\ room' = [room EXCEPT ![m] = 0]
  /\ inbound' = [inbound EXCEPT ![m] = <<>>]
  /\ UNCHANGED <<known, restarted, streams, seq, among, rank, left, reduced, parts, returned>>

Ending(m) ==
  \/ pc[m] = "counting"
  \/ pc[m] = "looping" /\ left[m] = {} /\ Op(m) # "Barrier"

Return(m) ==
  /\ Ending(m)
  /\ Complete(m)
  /\ Closed(m)
  /\ returned' = [returned EXCEPT ![m] = Result(m)]
  /\ UNCHANGED <<known, restarted, seq, streams>>

ReturnIncomplete(m) ==
  /\ Ending(m)
  /\ ~ Complete(m)
  /\ ReturnError(m)

\* The peer's server closed the stream, or is gone.
Refused(m) == \E s \in streams :
  /\ pc[m] = "dialing"
  /\ s.from = m /\ s.open /\ s.stage = "closed"
  /\ ReturnError(m)

\* Variation: a failed exchange is tried again.
FailAndRetry(m) ==
  /\ m \in Failing
  /\ pc[m] = "dialing"
  /\ pc' = [pc EXCEPT ![m] = "looping"]
  /\ streams' = HangUp(m)
  /\ UNCHANGED <<known, restarted, seq, among, rank, left, room, inbound, reduced, parts, returned>>

\* The deadline passes, or the connection or the dial fails.
Fail(m) ==
  /\ m \in Failing
  /\ Calling(m)
  /\ ReturnError(m)

\* The transport refuses to dial its own endpoint.
FailToDialItself(m) ==
  /\ ~ SelfConnect
  /\ pc[m] = "looping"
  /\ IsNext(m, m)
  /\ RankIn(among[m], m) < rank[m]
  /\ ReturnError(m)

\* A new process joins with the same ID; its program starts afresh.
Restart(m) ==
  /\ m \in Restarting \ restarted
  /\ restarted' = restarted \cup {m}
  /\ known' = [known EXCEPT ![m] = {m}]
  /\ seq' = [seq EXCEPT ![m] = 0]
  /\ Closed(m)
  /\ returned' = [returned EXCEPT ![m] = None]
  /\ streams' = {IF s.to = m THEN [s EXCEPT !.stage = "closed"] ELSE s : s \in HangUp(m)}

(* The server *)

Advance(s, stage) == streams' = (streams \ {s}) \cup {[s EXCEPT !.stage = stage]}

\* Handler.serve reads a frame and finds its sender among the members, ...
Admit(m) == \E s \in streams :
  /\ s.to = m /\ s.stage = "sent"
  /\ s.from \in known[m]
  /\ Advance(s, "admitted")
  /\ UNCHANGED <<known, restarted, callVars>>

\* ... then, under the lock again, finds the channel of its collective: the
\* vector is lost if that is not open, or full.
Deliver(m) == \E s \in streams :
  /\ s.to = m /\ s.stage = "admitted"
  /\ Advance(s, "held")
  /\ inbound' =
       IF Calling(m) /\ seq[m] = s.seq /\ Len(inbound[m]) < room[m]
       THEN [inbound EXCEPT ![m] = Append(@, s.from)]
       ELSE inbound
  /\ UNCHANGED <<known, restarted, pc, seq, among, rank, left, room, reduced, parts, returned>>

\* The sender is no member: the stream is closed.
Refuse(m) == \E s \in streams :
  /\ s.to = m /\ s.stage = "sent"
  /\ s.from \notin known[m]
  /\ Advance(s, "closed")
  /\ UNCHANGED <<known, restarted, callVars>>

\* Variation: the server does not wait for the local vector.
ReplyAtOnce(m) == \E s \in streams :
  /\ s.to = m /\ s.stage = "held"
  /\ Advance(s, "replied")
  /\ UNCHANGED <<known, restarted, callVars>>

\* waitLocal finds the local vector published, and the server answers.
Reply(m) == \E s \in streams :
  /\ s.to = m /\ s.stage = "held"
  /\ Calling(m) /\ seq[m] = s.seq
  /\ Advance(s, "replied")
  /\ UNCHANGED <<known, restarted, callVars>>

Held == UNCHANGED setting

Step(m) ==
  \/ Call(m) \/ ReadRank(m) \/ PublishLocal(m)
  \/ Dial(m) \/ ReadReply(m) \/ TakeInbound(m)
  \/ LeaveReduce(m) \/ Return(m) \/ ReturnIncomplete(m) \/ Refused(m) \/ FailToDialItself(m)

Next ==
  /\ Held
  /\ \E m \in Members :
       \/ Learn(m) \/ Forget(m)
       \/ Step(m)
       \/ Fail(m) \/ Restart(m)
       \/ Admit(m) \/ Refuse(m) \/ Deliver(m) \/ Reply(m)

Spec == Init /\ [][Next]_vars

-----------------------------------------------------------------------------
Stages == {"sent", "admitted", "held", "replied", "closed"}
Exchanges == [from : Members, to : Members, seq : 1 .. Len(Program),
              stage : Stages, open : BOOLEAN]
Results == [op : Collectives, seq : 1 .. Len(Program), among : SUBSET Members,
            reduced : [Members -> Nat], parts : [Members -> Members \cup {None}]]

TypeOK ==
  /\ setting \in Settings
  /\ known \in [Members -> SUBSET Members]
  /\ restarted \subseteq Members
  /\ pc \in [Members -> {"idle", "called", "ranked", "looping", "dialing", "counting", "panicked"}]
  /\ seq \in [Members -> 0 .. Len(Program)]
  /\ among \in [Members -> SUBSET Members]
  /\ rank \in [Members -> Nat]
  /\ left \in [Members -> SUBSET Members]
  /\ room \in [Members -> Nat]
  /\ inbound \in [Members -> Seq(Members)]
  /\ reduced \in [Members -> [Members -> Nat]]
  /\ parts \in [Members -> [Members -> Members \cup {None}]]
  /\ streams \subseteq Exchanges
  /\ returned \in [Members -> Results \cup {None}]

-----------------------------------------------------------------------------
(* Safety *)

Returned(op) == {m \in Members : returned[m] # None /\ returned[m].op \in op}

\* "AllReduce exchanges one vector with every peer" (group.go): each vector of
\* the snapshot's members goes into the result once, and no other does.
ExactReduction == \A m \in Returned({"AllReduce", "Barrier"}) :
  \A p \in Members :
    returned[m].reduced[p] = IF p \in returned[m].among THEN 1 ELSE 0

\* AllGather returns each member's vector in that member's place, whatever the
\* membership does meanwhile and whoever restarts, or it returns an error.
GatherIsExact == \A m \in Returned({"AllGather"}) :
  \A p \in returned[m].among : returned[m].parts[p] = p

\* Groups whose collectives owe one another that much: membership stays as it
\* is; or there are only gatherings, no endpoint dials itself, and gossip does
\* not take a member for its own lost neighbour.
Exacting == \A s \in Settings :
  \/ s.settled /\ s.forgetting = {} /\ s.restarting = {}
  \/ /\ \A k \in DOMAIN s.program : s.program[k] = "AllGather"
     /\ ~ s.selfConnect
     /\ \A m \in Members : <<m, m>> \notin s.forgetting

\* What a collective returns is exact, whatever failed, left or came back
\* meanwhile (AllReduce, AllGather, Barrier).
ResultsAreExact == ExactReduction /\ GatherIsExact

\* With settled membership every collective is a rendezvous: a member is given
\* a result only when every member has reached the call, though calls fail at
\* some members and others go on.
Steady == Settled /\ Forgetting = {} /\ Restarting = {}
Meeting == INSTANCE Rendezvous WITH
  entered <- [m \in Members |-> IF Steady THEN seq[m] ELSE 0],
  passed <- [m \in Members |-> IF Steady /\ returned[m] # None THEN returned[m].seq ELSE 0]

IsRendezvous == Meeting!Spec

-----------------------------------------------------------------------------
(* Liveness *)

\* Goroutines are scheduled, streams deliver, gossip tells members of members.
Fairness == \A m \in Members :
  /\ WF_vars(Held /\ Learn(m))
  /\ WF_vars(Held /\ Step(m))
  /\ WF_vars(Held /\ Admit(m)) /\ WF_vars(Held /\ Refuse(m))
  /\ WF_vars(Held /\ Deliver(m)) /\ WF_vars(Held /\ Reply(m))

FairSpec == Spec /\ Fairness

\* Every member reaches every collective and is given its result.
AllReturn == \A m \in Members :
  <>(returned[m] # None /\ returned[m].seq = Len(Program))

=============================================================================
