-------------------------- MODULE DiscoveryProofs --------------------------
(***************************************************************************)
(* Proofs about Discovery: the types, that a call which returns without an *)
(* error has done what it says at every tracker, that trackers keep what   *)
(* has not expired and a careful host's newest word, and that a call never *)
(* waits for what nobody will report.                                      *)
(***************************************************************************)
EXTENDS Discovery, FiniteSetTheorems, TLAPS

Stages == {"none", "ready", "asked", "answered", "lost"}
Announcing == {q \in {p[c] : p \in Plans, c \in Calls} : q # None /\ q.op = "announce"}
Announcements ==
  [host : {q.host : q \in Announcing}, kind : {q.kind : q \in Announcing}, time : Nat]
Tasks == [at : Stages, time : Nat, reply : SUBSET Announcements]
CallStates ==
  [at : {"idle", "running", "ok", "failed"}, out : SUBSET (Trackers \X Announcements), left : Int]

Typed ==
  /\ plan \in Plans
  /\ clock \in Nat
  /\ store \in [Trackers -> SUBSET Announcements]
  /\ call \in [Calls -> CallStates]
  /\ task \in [Calls -> [Trackers -> Tasks]]
  /\ results \in [Calls -> Seq(BOOLEAN)]
  /\ steady \in [Calls -> SUBSET (Trackers \X Announcements)]
  /\ seen \in [Calls -> SUBSET (Trackers \X Announcements)]

Busy(c) == {t \in Trackers : task[c][t].at # "none"}

(* A goroutine belongs to a call that was made and to a tracker it asks;   *)
(* only a running call has results to read.                                *)
Belongs(c) ==
  /\ \A t \in Trackers :
       /\ task[c][t].at = "none" => task[c][t] = Rests
       /\ task[c][t].at # "none" => t \in Asked(c)
  /\ call[c].at = "idle" => Busy(c) = {}
  /\ call[c].at # "idle" => plan[c] # None
  /\ ~Running(c) => results[c] = <<>>

(* The results that a running call has yet to read are those in its        *)
(* channel and those of its goroutines; none of these outlives a success.  *)
Counted(c) ==
  /\ Running(c) => call[c].left = Len(results[c]) + Cardinality(Busy(c))
  /\ call[c].at = "ok" => Busy(c) = {}

CInv == Typed /\ (\A c \in Calls : Belongs(c) /\ Counted(c))

(* What is in a store, and what is on its way there, is of the past.       *)
Past ==
  /\ \A t \in Trackers : \A a, b \in store[t] : SameKey(a, b) => a = b
  /\ \A t \in Trackers : \A a \in store[t] : a.time \in 0 .. clock
  /\ \A c \in Calls, t \in Trackers : task[c][t].time \in 0 .. clock

Failing(c) == \E k \in 1 .. Len(results[c]) : ~results[c][k]
Unanswered(c, t) == task[c][t].at \in {"ready", "asked", "lost"}

(* Of a running announcement, a tracker has put it into its store unless   *)
(* its goroutine has yet to be answered, or has reported an error.         *)
Announced(c) == Running(c) /\ Announces(c) =>
  \A t \in Asked(c) : Unanswered(c, t) \/ Failing(c) \/ <<c, t>> \in put

(* Of a running query, what trackers hold was seen; what they have held    *)
(* all the time is what they hold still.                                   *)
Watched(c) == c \in Asking =>
  /\ Matching(store, c) \subseteq seen[c]
  /\ steady[c] \subseteq Matching(store, c)

(* What was gathered, or is in an answer on its way, was seen; what was    *)
(* held all the time was gathered, or is in such an answer, unless its     *)
(* goroutine has yet to be answered, or has reported an error.             *)
Gathered(c) == c \in Asking =>
  /\ call[c].out \subseteq seen[c]
  /\ \A t \in Trackers : task[c][t].at = "answered" =>
       \A a \in task[c][t].reply : <<t, a>> \in seen[c]
  /\ \A q \in steady[c] :
       \/ Unanswered(c, q[1]) \/ Failing(c)
       \/ task[c][q[1]].at = "answered" /\ q[2] \in task[c][q[1]].reply
       \/ q \in call[c].out

AInv == CInv /\ (\A c \in Calls : Announced(c) /\ Watched(c) /\ Gathered(c))

(* Calls that were made had those before them return.                      *)
InTurn == \A before \in SUBSET (Calls \X Calls) : Sequential(plan, before) =>
  \A c, d \in Calls : <<c, d>> \in before /\ call[d].at # "idle" => Returned(c)

(* An announcement that is on its way from a host none of whose calls      *)
(* failed is at least as new as what trackers hold of that host.           *)
Failed(h) == \E c \in Calls : Announces(c) /\ plan[c].host = h /\ call[c].at = "failed"
Newer == \A c \in Calls, t \in Trackers : Announces(c) /\ task[c][t].at = "asked" =>
  \A a \in store[t] : a.host = plan[c].host => a.time <= task[c][t].time \/ Failed(a.host)

NInv == CInv /\ Past /\ InTurn /\ Newer

-----------------------------------------------------------------------------
(* What the operators return *)

LEMMA MatchingIs ==
  ASSUME NEW s, NEW c, NEW t, NEW a
  PROVE  <<t, a>> \in Matching(s, c) <=> t \in Asked(c) /\ a \in s[t] /\ Matches(c, a)
BY DEF Matching

LEMMA MatchingType ==
  ASSUME NEW s \in [Trackers -> SUBSET Announcements], NEW c \in Calls, Asked(c) \subseteq Trackers
  PROVE  Matching(s, c) \subseteq Trackers \X Announcements
BY DEF Matching

LEMMA AskedTrackers ==
  ASSUME Typed, NEW c \in Calls, plan[c] # None
  PROVE  Asked(c) \subseteq Trackers
BY DiscoveryAssumption DEF Typed, Asked

LEMMA AnnouncementType ==
  ASSUME Typed, NEW c \in Calls, NEW t \in Trackers, Announces(c)
  PROVE  [host |-> plan[c].host, kind |-> plan[c].kind, time |-> task[c][t].time] \in Announcements
<1>1. plan[c] \in Announcing BY DEF Typed, Announces, Announcing
<1>2. task[c][t].time \in Nat BY DEF Typed, Tasks
<1> QED BY <1>1, <1>2 DEF Announcements

LEMMA BusyFinite ==
  ASSUME NEW c
  PROVE  IsFiniteSet(Busy(c)) /\ Cardinality(Busy(c)) \in Nat
<1>1. Busy(c) \subseteq Trackers BY DEF Busy
<1>2. IsFiniteSet(Busy(c)) BY <1>1, DiscoveryAssumption, FS_Subset
<1> QED BY <1>2, FS_CardinalityType

LEMMA StoresType ==
  ASSUME Typed, \A c \in Calls : Belongs(c),
         NEW s \in [Trackers -> SUBSET Announcements], Stores(s)
  PROVE  /\ store' = s
         /\ steady' \in [Calls -> SUBSET (Trackers \X Announcements)]
         /\ seen' \in [Calls -> SUBSET (Trackers \X Announcements)]
<1>1. \A c \in Asking : Matching(s, c) \subseteq Trackers \X Announcements
  <2> SUFFICES ASSUME NEW c \in Asking PROVE Matching(s, c) \subseteq Trackers \X Announcements
    OBVIOUS
  <2>1. c \in Calls /\ plan[c] # None BY DEF Asking, Running, Belongs
  <2> QED BY <2>1, AskedTrackers, MatchingType
<1> HIDE DEF Asking, Matching
<1>2. steady \in [Calls -> SUBSET (Trackers \X Announcements)] /\ seen \in [Calls -> SUBSET (Trackers \X Announcements)]
  BY DEF Typed
<1>3. steady' = [c \in Calls |-> IF c \in Asking THEN steady[c] \cap Matching(s, c) ELSE steady[c]]
  BY DEF Stores
<1>4. seen' = [c \in Calls |-> IF c \in Asking THEN seen[c] \cup Matching(s, c) ELSE seen[c]]
  BY DEF Stores
<1>5. \A c \in Calls : steady'[c] \subseteq Trackers \X Announcements BY <1>2, <1>3
<1>6. \A c \in Calls : seen'[c] \subseteq Trackers \X Announcements BY <1>1, <1>2, <1>4
<1>7. store' = s BY DEF Stores
<1> QED BY <1>3, <1>4, <1>5, <1>6, <1>7

-----------------------------------------------------------------------------
(* Types *)

LEMMA RestsTask == Rests \in Tasks /\ Rests.at = "none" /\ Rests.time = 0 /\ Rests.reply = {}
BY DEF Rests, Tasks, Stages

LEMMA TypedInit == Init => Typed
<1> SUFFICES ASSUME Init PROVE Typed OBVIOUS
<1>1. [at |-> "idle", out |-> {}, left |-> 0] \in CallStates BY DEF CallStates
<1> QED BY <1>1, RestsTask DEF Init, Typed

LEMMA TypedNext == CInv /\ [Next]_vars => Typed'
<1> SUFFICES ASSUME CInv, [Next]_vars PROVE Typed' OBVIOUS
<1> USE DEF CInv
<1>p. plan' = plan BY DEF Next, Held, vars
<1>1. ASSUME NEW c \in Calls, Start(c) PROVE Typed'
  <2>1. [at |-> "running", out |-> {}, left |-> Cardinality(Asked(c))] \in CallStates
    <3>1. IsFiniteSet(Asked(c))
      BY <1>1, AskedTrackers, DiscoveryAssumption, FS_Subset DEF Start
    <3> QED BY <3>1, FS_CardinalityType DEF CallStates
  <2>2. [Rests EXCEPT !.at = "ready"] \in Tasks BY DEF Rests, Tasks, Stages
  <2>3. Matching(store, c) \in SUBSET (Trackers \X Announcements)
    BY <1>1, AskedTrackers, MatchingType DEF Start, Typed
  <2>4. call' \in [Calls -> CallStates] BY <1>1, <2>1 DEF Start, Typed
  <2>5. task' \in [Calls -> [Trackers -> Tasks]] BY <1>1, <2>2, RestsTask DEF Start, Typed
  <2>6. steady' \in [Calls -> SUBSET (Trackers \X Announcements)]
        /\ seen' \in [Calls -> SUBSET (Trackers \X Announcements)]
    BY <1>1, <2>3 DEF Start, Typed
  <2> QED BY <1>1, <1>p, <2>4, <2>5, <2>6 DEF Start, Typed
<1>2. ASSUME NEW c \in Calls, ReadResult(c) PROVE Typed'
  <2>1. ASSUME NEW how \in {"ok", "failed"}, Returns(c, how) PROVE Typed'
    <3>1. [at |-> how, out |-> {}, left |-> 0] \in CallStates BY DEF CallStates
    <3>2. call' \in [Calls -> CallStates] BY <2>1, <3>1 DEF Returns, Typed
    <3>3. results' \in [Calls -> Seq(BOOLEAN)] BY <2>1 DEF Returns, Typed
    <3>4. steady' \in [Calls -> SUBSET (Trackers \X Announcements)]
          /\ seen' \in [Calls -> SUBSET (Trackers \X Announcements)]
      BY <2>1 DEF Returns, Typed
    <3> QED BY <1>2, <1>p, <3>2, <3>3, <3>4 DEF ReadResult, Typed
  <2>2. ASSUME results[c] # <<>>, call' = [call EXCEPT ![c].left = @ - 1],
               results' = [results EXCEPT ![c] = Tail(@)], UNCHANGED observed
        PROVE Typed'
    <3>0. \A x \in CallStates : x.left - 1 \in Int /\ (\A n \in Int : [x EXCEPT !.left = n] \in CallStates)
      BY DEF CallStates
    <3>1. [call[c] EXCEPT !.left = @ - 1] \in CallStates BY <3>0 DEF Typed
    <3>2. call' \in [Calls -> CallStates] BY <2>2, <3>1 DEF Typed
    <3>3. Tail(results[c]) \in Seq(BOOLEAN) BY <2>2 DEF Typed
    <3>4. results' \in [Calls -> Seq(BOOLEAN)] BY <2>2, <3>3 DEF Typed
    <3>5. steady' = steady /\ seen' = seen BY <2>2 DEF observed
    <3> QED BY <1>2, <1>p, <3>2, <3>4, <3>5 DEF ReadResult, Typed
  <2> QED BY <1>2, <2>1, <2>2 DEF ReadResult
<1>3. ASSUME NEW c \in Calls, NEW t \in Trackers, Ask(c, t) PROVE Typed'
  <2>1. [Rests EXCEPT !.at = "asked", !.time = clock] \in Tasks BY DEF Rests, Tasks, Stages, Typed
  <2>2. task' \in [Calls -> [Trackers -> Tasks]] BY <1>3, <2>1 DEF Ask, Typed
  <2> QED BY <1>3, <1>p, <2>2 DEF Ask, Typed, observed
<1>4. ASSUME NEW c \in Calls, NEW t \in Trackers, HandleAnnounce(c, t) PROVE Typed'
  <2>1. [Rests EXCEPT !.at = "answered"] \in Tasks BY DEF Rests, Tasks, Stages
  <2>2. task' \in [Calls -> [Trackers -> Tasks]] BY <1>4, <2>1 DEF HandleAnnounce, Typed
  <2> DEFINE a == [host |-> plan[c].host, kind |-> plan[c].kind, time |-> task[c][t].time]
             s == [store EXCEPT ![t] = {b \in @ : ~SameKey(a, b)} \cup {a}]
  <2>3. a \in Announcements BY <1>4, AnnouncementType DEF HandleAnnounce
  <2>4. s \in [Trackers -> SUBSET Announcements] BY <2>3 DEF Typed
  <2>5. Stores(s) BY <1>4 DEF HandleAnnounce, PutAnnounce
  <2> HIDE DEF s
  <2>6. /\ store' = s
        /\ steady' \in [Calls -> SUBSET (Trackers \X Announcements)]
        /\ seen' \in [Calls -> SUBSET (Trackers \X Announcements)]
    BY <2>4, <2>5, StoresType
  <2> QED BY <1>4, <1>p, <2>2, <2>4, <2>6 DEF HandleAnnounce, Typed
<1>5. ASSUME NEW c \in Calls, NEW t \in Trackers, HandleQuery(c, t) PROVE Typed'
  <2>1. [Rests EXCEPT !.at = "answered", !.reply = {a \in store[t] : Matches(c, a)}] \in Tasks
    BY DEF Rests, Tasks, Stages, Typed
  <2>2. task' \in [Calls -> [Trackers -> Tasks]] BY <1>5, <2>1 DEF HandleQuery, Typed
  <2> QED BY <1>5, <1>p, <2>2 DEF HandleQuery, Typed, observed
<1>6. ASSUME NEW c \in Calls, NEW t \in Trackers, NEW ok \in BOOLEAN, Reports(c, t, ok)
      PROVE task' \in [Calls -> [Trackers -> Tasks]] /\ results' \in [Calls -> Seq(BOOLEAN)]
  <2>1. task' \in [Calls -> [Trackers -> Tasks]] BY <1>6, RestsTask DEF Reports, Typed
  <2>2. Append(results[c], ok) \in Seq(BOOLEAN) BY DEF Typed
  <2>3. results' \in [Calls -> Seq(BOOLEAN)] BY <1>6, <2>2 DEF Reports, Typed
  <2> QED BY <2>1, <2>3
<1>7. ASSUME NEW c \in Calls, NEW t \in Trackers, ReadResponse(c, t) PROVE Typed'
  <2>1. (Cardinality(task[c][t].reply) <= Limit) \in BOOLEAN OBVIOUS
  <2>2. Reports(c, t, Cardinality(task[c][t].reply) <= Limit) BY <1>7 DEF ReadResponse
  <2>3. task' \in [Calls -> [Trackers -> Tasks]] /\ results' \in [Calls -> Seq(BOOLEAN)]
    BY <1>6, <2>1, <2>2
  <2> DEFINE hosts == {<<t, a>> : a \in task[c][t].reply}
  <2>4. hosts \in SUBSET (Trackers \X Announcements) BY DEF Typed, Tasks
  <2>5. Gathers(c, hosts) \/ UNCHANGED call BY <1>7 DEF ReadResponse
  <2> HIDE DEF hosts
  <2>6. [call[c] EXCEPT !.out = @ \cup hosts] \in CallStates BY <2>4 DEF Typed, CallStates
  <2>7. call' \in [Calls -> CallStates] BY <2>5, <2>6 DEF Gathers, Typed
  <2> QED BY <1>7, <1>p, <2>3, <2>7 DEF ReadResponse, Typed, observed
<1>8. ASSUME NEW c \in Calls, NEW t \in Trackers, Fails(c, t) PROVE Typed'
  <2>1. Reports(c, t, FALSE) BY <1>8 DEF Fails
  <2>2. task' \in [Calls -> [Trackers -> Tasks]] /\ results' \in [Calls -> Seq(BOOLEAN)]
    BY <1>6, <2>1
  <2> QED BY <1>8, <1>p, <2>2 DEF Fails, Typed, observed
<1>9. ASSUME NEW t \in Trackers, Restart(t) PROVE Typed'
  <2>1. [Rests EXCEPT !.at = "lost"] \in Tasks BY DEF Rests, Tasks, Stages
  <2>2. task' \in [Calls -> [Trackers -> Tasks]] BY <1>9, <2>1 DEF Restart, Typed
  <2> DEFINE s == [store EXCEPT ![t] = {}]
  <2>4. s \in [Trackers -> SUBSET Announcements] BY DEF Typed
  <2>5. Stores(s) BY <1>9 DEF Restart
  <2> HIDE DEF s
  <2>6. /\ store' = s
        /\ steady' \in [Calls -> SUBSET (Trackers \X Announcements)]
        /\ seen' \in [Calls -> SUBSET (Trackers \X Announcements)]
    BY <2>4, <2>5, StoresType
  <2> QED BY <1>9, <1>p, <2>2, <2>4, <2>6 DEF Restart, Typed
<1>10. ASSUME NEW t \in Trackers, GC(t) PROVE Typed'
  <2> DEFINE s == [store EXCEPT ![t] = {a \in @ : a.time >= Cutoff}]
  <2>4. s \in [Trackers -> SUBSET Announcements] BY DEF Typed
  <2>5. Stores(s) BY <1>10 DEF GC
  <2> HIDE DEF s
  <2>6. /\ store' = s
        /\ steady' \in [Calls -> SUBSET (Trackers \X Announcements)]
        /\ seen' \in [Calls -> SUBSET (Trackers \X Announcements)]
    BY <2>4, <2>5, StoresType
  <2> QED BY <1>10, <1>p, <2>4, <2>6 DEF GC, Typed
<1>11. CASE Tick
  BY <1>11, <1>p DEF Tick, Typed, observed
<1>12. CASE UNCHANGED vars
  BY <1>12 DEF vars, Typed, observed
<1> QED
  BY <1>1, <1>2, <1>3, <1>4, <1>5, <1>7, <1>8, <1>9, <1>10, <1>11, <1>12, DiscoveryAssumption
  DEF Next, TaskStep

-----------------------------------------------------------------------------
(* The goroutines of a call and its results *)

LEMMA CountedInit == Init => \A c \in Calls : Belongs(c) /\ Counted(c)
<1> SUFFICES ASSUME Init, NEW c \in Calls PROVE Belongs(c) /\ Counted(c) OBVIOUS
<1>1. \A t \in Trackers : task[c][t] = Rests BY DEF Init
<1>2. call[c].at = "idle" /\ results[c] = <<>> BY DEF Init
<1>3. Busy(c) = {} BY <1>1, RestsTask DEF Busy
<1> QED BY <1>1, <1>2, <1>3, RestsTask DEF Belongs, Counted, Running

(* A call keeps its count when its goroutines go on and its state does not *)
(* change.                                                                 *)
LEMMA CountedStays ==
  ASSUME CInv, NEW c \in Calls, Belongs(c)', Busy(c)' = Busy(c),
         call'[c].at = call[c].at, call'[c].left = call[c].left, results'[c] = results[c]
  PROVE  Counted(c)'
BY DEF CInv, Counted, Running

(* One goroutine moves on without ending.                                  *)
LEMMA TaskMoves ==
  ASSUME CInv, Typed', plan' = plan, call' = call, results' = results,
         NEW c \in Calls, NEW t \in Trackers, NEW r \in Tasks, r.at # "none",
         task[c][t].at # "none", task' = [task EXCEPT ![c][t] = r]
  PROVE  \A d \in Calls : (Belongs(d) /\ Counted(d))'
<1> SUFFICES ASSUME NEW d \in Calls PROVE (Belongs(d) /\ Counted(d))' OBVIOUS
<1>1. Belongs(d) /\ Counted(d) BY DEF CInv
<1>2. \A u \in Trackers : task'[d][u] = IF d = c /\ u = t THEN r ELSE task[d][u]
  BY DEF CInv, Typed
<1>3. \A u \in Trackers : task'[d][u].at = "none" <=> task[d][u].at = "none"
  BY <1>2
<1>4. Busy(d)' = Busy(d) BY <1>3 DEF Busy
<1>5. Belongs(d)'
  <2>1. \A u \in Trackers : task'[d][u].at = "none" => task'[d][u] = Rests
    BY <1>1, <1>2 DEF Belongs
  <2>2. \A u \in Trackers : task'[d][u].at # "none" => u \in Asked(d)
    BY <1>1, <1>3 DEF Belongs
  <2>3. Asked(d)' = Asked(d) BY DEF Asked
  <2> QED BY <1>1, <1>4, <2>1, <2>2, <2>3 DEF Belongs, Running
<1> QED BY <1>4, <1>5, CountedStays

(* One goroutine ends and reports, which changes no more of its call than  *)
(* what was gathered.                                                      *)
LEMMA TaskEnds ==
  ASSUME CInv, Typed', plan' = plan, NEW c \in Calls, NEW t \in Trackers,
         NEW ok \in BOOLEAN, Reports(c, t, ok), task[c][t].at # "none",
         \A d \in Calls : call'[d].at = call[d].at /\ call'[d].left = call[d].left
  PROVE  \A d \in Calls : (Belongs(d) /\ Counted(d))'
<1> SUFFICES ASSUME NEW d \in Calls PROVE (Belongs(d) /\ Counted(d))' OBVIOUS
<1>1. Belongs(d) /\ Counted(d) /\ Belongs(c) /\ Counted(c) BY DEF CInv
<1>2. \A u \in Trackers : task'[d][u] = IF d = c /\ u = t THEN Rests ELSE task[d][u]
  BY DEF CInv, Typed, Reports
<1>3. results'[d] = IF d = c /\ Running(c) THEN Append(results[d], ok) ELSE results[d]
  BY DEF CInv, Typed, Reports
<1>4. Busy(d)' = IF d = c THEN Busy(d) \ {t} ELSE Busy(d)
  BY <1>2, RestsTask DEF Busy
<1>5. Belongs(d)'
  <2>1. \A u \in Trackers : task'[d][u].at = "none" => task'[d][u] = Rests
    BY <1>1, <1>2 DEF Belongs
  <2>2. \A u \in Trackers : task'[d][u].at # "none" => u \in Asked(d)
    BY <1>1, <1>2, RestsTask DEF Belongs
  <2>3. Asked(d)' = Asked(d) BY DEF Asked
  <2>4. call'[d].at = "idle" => Busy(d)' = {} BY <1>1, <1>4 DEF Belongs
  <2>5. ~Running(d)' => results'[d] = <<>> BY <1>1, <1>3 DEF Belongs, Running
  <2>6. call'[d].at # "idle" => plan'[d] # None BY <1>1 DEF Belongs
  <2> QED BY <2>1, <2>2, <2>3, <2>4, <2>5, <2>6 DEF Belongs
<1>6. CASE d # c
  BY <1>3, <1>4, <1>5, <1>6, CountedStays
<1>7. CASE d = c
  <2>1. t \in Busy(c) BY DEF Busy
  <2>2. Cardinality(Busy(c) \ {t}) = Cardinality(Busy(c)) - 1
    BY <2>1, BusyFinite, FS_RemoveElement
  <2>3. Cardinality(Busy(c)) \in Nat BY BusyFinite
  <2>4. results[c] \in Seq(BOOLEAN) BY DEF CInv, Typed
  <2>5. Len(Append(results[c], ok)) = Len(results[c]) + 1 /\ Len(results[c]) \in Nat BY <2>4
  <2>6. call[c].left \in Int BY DEF CInv, Typed, CallStates
  <2>7. Running(c) => call'[c].left = Len(results'[c]) + Cardinality(Busy(c)')
    <3>1. Running(c) => call[c].left = Len(results[c]) + Cardinality(Busy(c)) BY <1>1 DEF Counted
    <3>2. Cardinality(Busy(c)') = Cardinality(Busy(c)) - 1 BY <1>4, <1>7, <2>2
    <3>3. Running(c) => Len(results'[c]) = Len(results[c]) + 1 BY <1>3, <1>7, <2>5
    <3> QED BY <3>1, <3>2, <3>3, <2>3, <2>5, <2>6
  <2>8. call'[c].at = "ok" => Busy(c)' = {} BY <1>1, <1>4, <1>7 DEF Counted
  <2>9. Running(c)' = Running(c) BY DEF Running
  <2> QED BY <1>5, <1>7, <2>7, <2>8, <2>9 DEF Counted
<1> QED BY <1>6, <1>7

LEMMA CountedStart ==
  ASSUME CInv, Typed', plan' = plan, NEW c \in Calls, Start(c)
  PROVE  \A d \in Calls : (Belongs(d) /\ Counted(d))'
<1> SUFFICES ASSUME NEW d \in Calls PROVE (Belongs(d) /\ Counted(d))' OBVIOUS
<1>1. Belongs(d) /\ Counted(d) BY DEF CInv
<1>2. Asked(d)' = Asked(d) /\ results' = results BY DEF Asked, Start
<1>3. CASE d # c
  <2>1. call'[d] = call[d] /\ task'[d] = task[d] BY <1>3 DEF CInv, Typed, Start
  <2>2. Busy(d)' = Busy(d) BY <2>1 DEF Busy
  <2>3. Belongs(d)' BY <1>1, <1>2, <2>1, <2>2 DEF Belongs, Running
  <2> QED BY <1>2, <2>1, <2>2, <2>3, CountedStays
<1>4. CASE d = c
  <2>1. call'[c].at = "running" /\ call'[c].left = Cardinality(Asked(c)) BY DEF CInv, Typed, Start
  <2>2. \A t \in Trackers : task'[c][t] = IF t \in Asked(c) THEN [Rests EXCEPT !.at = "ready"] ELSE Rests
    BY DEF CInv, Typed, Start
  <2>3. [Rests EXCEPT !.at = "ready"].at = "ready" BY DEF Rests
  <2>4. \A t \in Trackers : task'[c][t].at # "none" <=> t \in Asked(c) BY <2>2, <2>3, RestsTask
  <2>5. plan[c] # None /\ results[c] = <<>> BY <1>1, <1>4 DEF Start, Belongs, Running
  <2>6. Busy(c)' = Asked(c)
    BY <2>4, <2>5, AskedTrackers DEF Busy, CInv
  <2>7. Belongs(c)' BY <1>2, <1>4, <2>1, <2>2, <2>3, <2>4, <2>5 DEF Belongs, Running
  <2>8. Cardinality(Busy(c)) \in Nat /\ Cardinality(Asked(c)) \in Nat
    <3>1. IsFiniteSet(Asked(c)) BY <2>5, AskedTrackers, DiscoveryAssumption, FS_Subset DEF CInv
    <3> QED BY <3>1, FS_CardinalityType, BusyFinite
  <2>9. results'[c] = <<>> BY <1>2, <2>5
  <2>10. Counted(c)' BY <2>1, <2>6, <2>8, <2>9 DEF Counted
  <2> QED BY <1>4, <2>7, <2>10
<1> QED BY <1>3, <1>4

LEMMA CountedResult ==
  ASSUME CInv, Typed', plan' = plan, NEW c \in Calls, ReadResult(c)
  PROVE  \A d \in Calls : (Belongs(d) /\ Counted(d))'
<1> SUFFICES ASSUME NEW d \in Calls PROVE (Belongs(d) /\ Counted(d))' OBVIOUS
<1>1. Belongs(d) /\ Counted(d) BY DEF CInv
<1>2. Asked(d)' = Asked(d) /\ task' = task BY DEF Asked, ReadResult
<1>3. Busy(d)' = Busy(d) BY <1>2 DEF Busy
<1>4. Running(c) BY DEF ReadResult
<1>5. CASE d # c
  <2>1. call'[d] = call[d] /\ results'[d] = results[d] BY <1>5 DEF CInv, Typed, ReadResult, Returns
  <2>2. Belongs(d)' BY <1>1, <1>2, <1>3, <2>1 DEF Belongs, Running
  <2> QED BY <1>3, <2>1, <2>2, CountedStays
<1>6. ASSUME d = c, NEW how \in {"ok", "failed"}, Returns(c, how), how = "ok" => call[c].left = 0
      PROVE  (Belongs(d) /\ Counted(d))'
  <2>1. call'[c].at = how /\ results'[c] = <<>> BY <1>6 DEF CInv, Typed, Returns
  <2>2. how = "ok" => Busy(c) = {}
    <3>1. call[c].left = Len(results[c]) + Cardinality(Busy(c)) BY <1>1, <1>4, <1>6 DEF Counted
    <3>2. Len(results[c]) \in Nat BY DEF CInv, Typed
    <3>3. Cardinality(Busy(c)) \in Nat /\ IsFiniteSet(Busy(c)) BY BusyFinite
    <3>4. how = "ok" => Cardinality(Busy(c)) = 0 BY <1>6, <3>1, <3>2, <3>3
    <3> QED BY <3>3, <3>4, FS_EmptySet
  <2>3. Belongs(c)' BY <1>1, <1>2, <1>3, <1>4, <1>6, <2>1 DEF Belongs, Running
  <2>4. Counted(c)' BY <1>3, <1>6, <2>1, <2>2 DEF Counted, Running
  <2> QED BY <1>6, <2>3, <2>4
<1>7. ASSUME d = c, results[c] # <<>>, call' = [call EXCEPT ![c].left = @ - 1],
             results' = [results EXCEPT ![c] = Tail(@)]
      PROVE  (Belongs(d) /\ Counted(d))'
  <2>1. call'[c].at = call[c].at /\ call'[c].left = call[c].left - 1
    BY <1>7 DEF CInv, Typed, CallStates
  <2>2. results'[c] = Tail(results[c]) BY <1>7 DEF CInv, Typed
  <2>3. Len(results'[c]) = Len(results[c]) - 1 /\ Len(results[c]) \in Nat BY <1>7, <2>2 DEF CInv, Typed
  <2>4. Running(c)' BY <1>4, <2>1 DEF Running
  <2>5. Belongs(c)' BY <1>1, <1>2, <1>3, <1>4, <1>7, <2>1, <2>4 DEF Belongs, Running
  <2>6. Cardinality(Busy(c)) \in Nat BY BusyFinite
  <2>7. call[c].left = Len(results[c]) + Cardinality(Busy(c)) BY <1>1, <1>4, <1>7 DEF Counted
  <2>8. call'[c].left = Len(results'[c]) + Cardinality(Busy(c)) BY <2>1, <2>3, <2>6, <2>7
  <2>9. Counted(c)' BY <1>3, <1>7, <2>4, <2>8 DEF Counted, Running
  <2> QED BY <1>7, <2>5, <2>9
<1> QED BY <1>5, <1>6, <1>7 DEF ReadResult

(* Gathering changes what a call has gathered.                             *)
LEMMA GathersKeeps ==
  ASSUME Typed, NEW c \in Calls, NEW hosts, Gathers(c, hosts), NEW d \in Calls
  PROVE  /\ call'[d].at = call[d].at /\ call'[d].left = call[d].left
         /\ call'[d].out = IF d = c THEN call[d].out \cup hosts ELSE call[d].out
<1>1. ASSUME NEW x \in CallStates, NEW o
      PROVE  LET y == [x EXCEPT !.out = o] IN y.at = x.at /\ y.left = x.left /\ y.out = o
  <2>1. DOMAIN x = {"at", "out", "left"} BY DEF CallStates
  <2>2. [x EXCEPT !.out = o] = [k \in {"at", "out", "left"} |-> IF k = "out" THEN o ELSE x[k]]
    BY <2>1
  <2> QED BY <2>2
<1>2. call \in [Calls -> CallStates] BY DEF Typed
<1> DEFINE y == [call[c] EXCEPT !.out = call[c].out \cup hosts]
<1>3. y.at = call[c].at /\ y.left = call[c].left /\ y.out = call[c].out \cup hosts BY <1>1, <1>2
<1>4. call' = [call EXCEPT ![c] = y] BY DEF Gathers
<1> HIDE DEF y
<1>5. call'[d] = IF d = c THEN y ELSE call[d] BY <1>2, <1>4
<1> QED BY <1>3, <1>5

LEMMA CountedNext == CInv /\ [Next]_vars => (\A c \in Calls : Belongs(c) /\ Counted(c))'
<1> SUFFICES ASSUME CInv, [Next]_vars PROVE \A d \in Calls : (Belongs(d) /\ Counted(d))' OBVIOUS
<1>t. Typed' BY TypedNext
<1>p. plan' = plan BY DEF Next, Held, vars
<1>1. ASSUME NEW c \in Calls, Start(c) PROVE \A d \in Calls : (Belongs(d) /\ Counted(d))'
  BY <1>1, <1>t, <1>p, CountedStart
<1>2. ASSUME NEW c \in Calls, ReadResult(c) PROVE \A d \in Calls : (Belongs(d) /\ Counted(d))'
  BY <1>2, <1>t, <1>p, CountedResult
<1>3. ASSUME NEW c \in Calls, NEW t \in Trackers, Ask(c, t)
      PROVE  \A d \in Calls : (Belongs(d) /\ Counted(d))'
  <2> DEFINE r == [Rests EXCEPT !.at = "asked", !.time = clock]
  <2>1. r \in Tasks /\ r.at # "none" BY DEF Rests, Tasks, Stages, CInv, Typed
  <2>2. task[c][t].at # "none" /\ task' = [task EXCEPT ![c][t] = r]
        /\ call' = call /\ results' = results
    BY <1>3 DEF Ask
  <2> HIDE DEF r
  <2> QED BY <2>1, <2>2, <1>t, <1>p, TaskMoves
<1>4. ASSUME NEW c \in Calls, NEW t \in Trackers, HandleAnnounce(c, t)
      PROVE  \A d \in Calls : (Belongs(d) /\ Counted(d))'
  <2> DEFINE r == [Rests EXCEPT !.at = "answered"]
  <2>1. r \in Tasks /\ r.at # "none" BY DEF Rests, Tasks, Stages
  <2>2. task[c][t].at # "none" /\ task' = [task EXCEPT ![c][t] = r]
        /\ call' = call /\ results' = results
    BY <1>4 DEF HandleAnnounce
  <2> HIDE DEF r
  <2> QED BY <2>1, <2>2, <1>t, <1>p, TaskMoves
<1>5. ASSUME NEW c \in Calls, NEW t \in Trackers, HandleQuery(c, t)
      PROVE  \A d \in Calls : (Belongs(d) /\ Counted(d))'
  <2> DEFINE r == [Rests EXCEPT !.at = "answered", !.reply = {a \in store[t] : Matches(c, a)}]
  <2>1. r \in Tasks /\ r.at # "none" BY DEF Rests, Tasks, Stages, CInv, Typed
  <2>2. task[c][t].at # "none" /\ task' = [task EXCEPT ![c][t] = r]
        /\ call' = call /\ results' = results
    BY <1>5 DEF HandleQuery
  <2> HIDE DEF r
  <2> QED BY <2>1, <2>2, <1>t, <1>p, TaskMoves
<1>6. ASSUME NEW c \in Calls, NEW t \in Trackers, ReadResponse(c, t)
      PROVE  \A d \in Calls : (Belongs(d) /\ Counted(d))'
  <2> DEFINE ok == Cardinality(task[c][t].reply) <= Limit
             hosts == {<<t, a>> : a \in task[c][t].reply}
  <2>1. ok \in BOOLEAN OBVIOUS
  <2>2. task[c][t].at # "none" /\ Reports(c, t, ok) /\ (Gathers(c, hosts) \/ call' = call)
    BY <1>6 DEF ReadResponse
  <2> HIDE DEF ok, hosts
  <2>3. \A d \in Calls : call'[d].at = call[d].at /\ call'[d].left = call[d].left
    BY <2>2, GathersKeeps DEF CInv
  <2> QED BY <2>1, <2>2, <2>3, <1>t, <1>p, TaskEnds
<1>7. ASSUME NEW c \in Calls, NEW t \in Trackers, Fails(c, t)
      PROVE  \A d \in Calls : (Belongs(d) /\ Counted(d))'
  <2>1. task[c][t].at # "none" /\ Reports(c, t, FALSE) /\ call' = call BY <1>7 DEF Fails
  <2> QED BY <2>1, <1>t, <1>p, TaskEnds
<1>8. ASSUME NEW t \in Trackers, Restart(t) PROVE \A d \in Calls : (Belongs(d) /\ Counted(d))'
  <2> SUFFICES ASSUME NEW d \in Calls PROVE (Belongs(d) /\ Counted(d))' OBVIOUS
  <2>1. Belongs(d) BY DEF CInv
  <2>2. \A u \in Trackers : task'[d][u] =
          IF u = t /\ task[d][u].at \in {"asked", "answered"} THEN [Rests EXCEPT !.at = "lost"] ELSE task[d][u]
    BY <1>8 DEF CInv, Typed, Restart
  <2>3. [Rests EXCEPT !.at = "lost"].at = "lost" BY DEF Rests
  <2>4. \A u \in Trackers : task'[d][u].at = "none" <=> task[d][u].at = "none" BY <2>2, <2>3
  <2>5. Busy(d)' = Busy(d) BY <2>4 DEF Busy
  <2>6. call' = call /\ results' = results /\ Asked(d)' = Asked(d) BY <1>8, <1>p DEF Restart, Asked
  <2>7. \A u \in Trackers : task'[d][u].at = "none" => task'[d][u] = Rests
    BY <2>1, <2>2, <2>3 DEF Belongs
  <2>8. \A u \in Trackers : task'[d][u].at # "none" => u \in Asked(d) BY <2>1, <2>4 DEF Belongs
  <2>9. Belongs(d)' BY <1>p, <2>1, <2>5, <2>6, <2>7, <2>8 DEF Belongs, Running
  <2> QED BY <2>5, <2>6, <2>9, CountedStays
<1>9. ASSUME call' = call, task' = task, results' = results
      PROVE  \A d \in Calls : (Belongs(d) /\ Counted(d))'
  BY <1>9, <1>p DEF CInv, Belongs, Counted, Busy, Asked, Running
<1>10. (\E t \in Collecting : GC(t)) \/ Tick \/ UNCHANGED vars
       => call' = call /\ task' = task /\ results' = results
  BY DEF GC, Tick, vars
<1> DEFINE Kept == \A d \in Calls : (Belongs(d) /\ Counted(d))'
<1>11. ASSUME NEW c \in Calls, NEW t \in Trackers, TaskStep(c, t) PROVE Kept
  BY <1>3, <1>4, <1>5, <1>6, <1>7, <1>11 DEF TaskStep
<1> HIDE DEF Kept
<1> QED
  BY <1>1, <1>2, <1>8, <1>9, <1>10, <1>11 DEF Next, Kept

(* Goroutines and results are counted in every reachable state.            *)
THEOREM CallsInductive == Spec => []CInv
<1>1. Init => CInv BY TypedInit, CountedInit DEF CInv
<1>2. CInv /\ [Next]_vars => CInv' BY TypedNext, CountedNext DEF CInv
<1> QED BY <1>1, <1>2, PTL DEF Spec

-----------------------------------------------------------------------------
(* Stores hold what was announced, once, and nothing of the future *)

LEMMA PastInit == Init => Past
<1> SUFFICES ASSUME Init PROVE Past OBVIOUS
<1>1. \A t \in Trackers : store[t] = {} BY DEF Init
<1>2. \A c \in Calls, t \in Trackers : task[c][t].time = 0 BY RestsTask DEF Init
<1>3. clock = 0 BY DEF Init
<1> QED BY <1>1, <1>2, <1>3 DEF Past

(* The times of requests stay in the past while their goroutines go on.    *)
LEMMA TimesNext ==
  ASSUME CInv, Past, [Next]_vars
  PROVE  /\ clock' \in Nat /\ clock <= clock'
         /\ \A d \in Calls, u \in Trackers : task'[d][u].time \in 0 .. clock'
<1>1. clock \in Nat /\ clock' \in Nat /\ clock <= clock'
  <2>1. clock' = clock \/ clock' = clock + 1
    BY DEF Next, Start, ReadResult, TaskStep, Ask, HandleAnnounce, HandleQuery, ReadResponse, Fails,
           Restart, GC, Tick, vars
  <2> QED BY <2>1 DEF CInv, Typed
<1>2. ASSUME NEW d \in Calls, NEW u \in Trackers PROVE task'[d][u].time \in {task[d][u].time, 0, clock}
  <2>1. ASSUME NEW c \in Calls, Start(c) PROVE task'[d][u].time \in {task[d][u].time, 0, clock}
    <3>1. [Rests EXCEPT !.at = "ready"].time = 0 BY DEF Rests
    <3>2. task' = [task EXCEPT ![c] = [t \in Trackers |->
                     IF t \in Asked(c) THEN [Rests EXCEPT !.at = "ready"] ELSE Rests]]
      BY <2>1 DEF Start
    <3> QED BY <3>1, <3>2, RestsTask DEF CInv, Typed
  <2>2. ASSUME NEW c \in Calls, NEW t \in Trackers, TaskStep(c, t)
        PROVE  task'[d][u].time \in {task[d][u].time, 0, clock}
    <3> DEFINE r == [Rests EXCEPT !.at = "asked", !.time = clock]
               s == [Rests EXCEPT !.at = "answered"]
               w == [Rests EXCEPT !.at = "answered", !.reply = {a \in store[t] : Matches(c, a)}]
    <3>0. ASSUME NEW x, x.time \in {0, clock}, task' = [task EXCEPT ![c][t] = x]
          PROVE  task'[d][u].time \in {task[d][u].time, 0, clock}
      <4>1. task'[d][u] = IF d = c /\ u = t THEN x ELSE task[d][u] BY <3>0 DEF CInv, Typed
      <4> QED BY <3>0, <4>1
    <3>1. r.time = clock /\ s.time = 0 /\ w.time = 0 BY DEF Rests
    <3>2. task' \in {[task EXCEPT ![c][t] = r], [task EXCEPT ![c][t] = s],
                     [task EXCEPT ![c][t] = w], [task EXCEPT ![c][t] = Rests]}
      BY <2>2 DEF TaskStep, Ask, HandleAnnounce, HandleQuery, ReadResponse, Fails, Reports
    <3> HIDE DEF r, s, w
    <3> QED BY <3>0, <3>1, <3>2, RestsTask
  <2>3. ASSUME NEW t \in Trackers, Restart(t) PROVE task'[d][u].time \in {task[d][u].time, 0, clock}
    <3> DEFINE r == [Rests EXCEPT !.at = "lost"]
    <3>1. r.time = 0 BY DEF Rests
    <3>2. task'[d][u] = IF u = t /\ task[d][u].at \in {"asked", "answered"} THEN r ELSE task[d][u]
      BY <2>3 DEF Restart, CInv, Typed
    <3> HIDE DEF r
    <3> QED BY <3>1, <3>2
  <2>4. (\E t \in Collecting : GC(t)) \/ Tick \/ UNCHANGED vars \/ (\E c \in Calls : ReadResult(c))
        => task' = task
    BY DEF GC, Tick, vars, ReadResult
  <2> QED BY <2>1, <2>2, <2>3, <2>4 DEF Next
<1>3. \A d \in Calls, u \in Trackers : task[d][u].time \in 0 .. clock BY DEF Past
<1> QED BY <1>1, <1>2, <1>3

(* What a step does to the stores.                                         *)
LEMMA StoreSteps ==
  ASSUME CInv, [Next]_vars
  PROVE  \/ store' = store
         \/ \E t \in Trackers : store' = [store EXCEPT ![t] = {}] /\ restarted' # restarted
         \/ \E t \in Trackers :
              Expiry # 0 /\ store' = [store EXCEPT ![t] = {a \in @ : a.time >= Cutoff}] /\ clock' = clock
         \/ \E c \in Calls, t \in Trackers : HandleAnnounce(c, t)
<1>1. ASSUME NEW t \in Trackers, Restart(t)
      PROVE  store' = [store EXCEPT ![t] = {}] /\ restarted' # restarted
  BY <1>1 DEF Restart, Stores
<1>2. ASSUME NEW t \in Collecting, GC(t)
      PROVE  t \in Trackers /\ Expiry # 0 /\ clock' = clock
             /\ store' = [store EXCEPT ![t] = {a \in @ : a.time >= Cutoff}]
  BY <1>2, DiscoveryAssumption DEF GC, Stores
<1>3. ASSUME NEW c \in Calls, NEW t \in Trackers, TaskStep(c, t)
      PROVE  store' = store \/ HandleAnnounce(c, t)
  BY <1>3 DEF TaskStep, Ask, HandleQuery, ReadResponse, Fails
<1>4. (\E c \in Calls : Start(c) \/ ReadResult(c)) \/ Tick \/ UNCHANGED vars => store' = store
  BY DEF Start, ReadResult, Tick, vars
<1> QED BY <1>1, <1>2, <1>3, <1>4 DEF Next

LEMMA Replaced ==
  ASSUME CInv, NEW c \in Calls, NEW t \in Trackers, HandleAnnounce(c, t)
  PROVE  LET a == [host |-> plan[c].host, kind |-> plan[c].kind, time |-> task[c][t].time]
         IN  /\ store'[t] = {b \in store[t] : ~SameKey(a, b)} \cup {a}
             /\ \A u \in Trackers \ {t} : store'[u] = store[u]
BY DEF HandleAnnounce, PutAnnounce, Stores, CInv, Typed

LEMMA PastNext == CInv /\ Past /\ [Next]_vars => Past'
<1> SUFFICES ASSUME CInv, Past, [Next]_vars PROVE Past' OBVIOUS
<1>1. /\ clock' \in Nat /\ clock <= clock'
      /\ \A d \in Calls, u \in Trackers : task'[d][u].time \in 0 .. clock'
  BY TimesNext
<1>2. clock \in Nat BY DEF CInv, Typed
<1>3. CASE \A u \in Trackers : store'[u] \subseteq store[u]
  <2>1. \A u \in Trackers : \A a \in store'[u] : a.time \in 0 .. clock' BY <1>1, <1>2, <1>3 DEF Past
  <2>2. \A u \in Trackers : \A a, b \in store'[u] : SameKey(a, b) => a = b BY <1>3 DEF Past
  <2> QED BY <1>1, <2>1, <2>2 DEF Past, SameKey
<1>4. ASSUME NEW c \in Calls, NEW t \in Trackers, HandleAnnounce(c, t) PROVE Past'
  <2> DEFINE a == [host |-> plan[c].host, kind |-> plan[c].kind, time |-> task[c][t].time]
  <2>1. /\ store'[t] = {b \in store[t] : ~SameKey(a, b)} \cup {a}
        /\ \A u \in Trackers \ {t} : store'[u] = store[u]
    BY <1>4, Replaced
  <2>2. a.time \in 0 .. clock BY DEF Past
  <2> HIDE DEF a
  <2>3. \A u \in Trackers : \A b \in store'[u] : b.time \in 0 .. clock BY <2>1, <2>2 DEF Past
  <2>4. \A u \in Trackers : \A b \in store'[u] : b.time \in 0 .. clock' BY <1>1, <1>2, <2>3
  <2>5. \A u \in Trackers : \A b, e \in store'[u] : SameKey(b, e) => b = e
    BY <2>1 DEF Past, SameKey
  <2> QED BY <1>1, <2>4, <2>5 DEF Past, SameKey
<1>5. store' = store => \A u \in Trackers : store'[u] \subseteq store[u] OBVIOUS
<1>6. ASSUME NEW t \in Trackers, NEW s, s \subseteq store[t], store' = [store EXCEPT ![t] = s]
      PROVE  \A u \in Trackers : store'[u] \subseteq store[u]
  BY <1>6 DEF CInv, Typed
<1>7. ASSUME NEW t \in Trackers, store' = [store EXCEPT ![t] = {}]
      PROVE  \A u \in Trackers : store'[u] \subseteq store[u]
  BY <1>6, <1>7
<1>8. ASSUME NEW t \in Trackers, store' = [store EXCEPT ![t] = {a \in @ : a.time >= Cutoff}]
      PROVE  \A u \in Trackers : store'[u] \subseteq store[u]
  <2>1. {a \in store[t] : a.time >= Cutoff} \subseteq store[t] OBVIOUS
  <2> QED BY <1>6, <1>8, <2>1
<1> QED BY <1>3, <1>4, <1>5, <1>7, <1>8, StoreSteps

(* Stores hold one announcement of a host and kind, none of the future.    *)
THEOREM PastInductive == Spec => []Past
<1>1. Init => Past BY PastInit
<1>2. CInv /\ Past /\ [Next]_vars => Past' BY PastNext
<1> QED BY <1>1, <1>2, CallsInductive, PTL DEF Spec

(* A store holds one announcement of a host and kind, and none from the    *)
(* future; a call has as many results to come as goroutines and results.   *)
THEOREM Types == Spec => []TypeOK
<1>1. CInv /\ Past => TypeOK
  <2> SUFFICES ASSUME CInv, Past, NEW c \in Calls, Running(c)
               PROVE  call[c].left = Len(results[c]) + Cardinality({t \in Trackers : task[c][t] # Rests})
    BY DEF TypeOK, Past
  <2>1. \A t \in Trackers : task[c][t].at = "none" <=> task[c][t] = Rests
    BY RestsTask DEF CInv, Belongs
  <2>2. {t \in Trackers : task[c][t] # Rests} = Busy(c) BY <2>1 DEF Busy
  <2> QED BY <2>2 DEF CInv, Counted
<1> QED BY <1>1, CallsInductive, PastInductive, PTL

(* An announcement stays until it has expired, another takes its place, or *)
(* the tracker restarts: GC drops nothing fresh, at either end of time.    *)
THEOREM FreshKept == Spec => FreshIsKept
<1> DEFINE A == \A t \in Trackers : \A a \in store[t] \ store'[t] :
                  \/ a.time + Expiry < clock
                  \/ \E b \in store'[t] \ store[t] : SameKey(a, b)
                  \/ restarted' # restarted
<1>1. CInv /\ Past /\ [Next]_vars => A
  <2> SUFFICES ASSUME CInv, Past, [Next]_vars, NEW t \in Trackers, NEW a \in store[t], a \notin store'[t]
               PROVE  \/ a.time + Expiry < clock
                      \/ \E b \in store'[t] \ store[t] : SameKey(a, b)
                      \/ restarted' # restarted
    OBVIOUS
  <2>1. ASSUME NEW u \in Trackers, store' = [store EXCEPT ![u] = {b \in @ : b.time >= Cutoff}]
        PROVE  a.time + Expiry < clock
    <3>1. ~(a.time >= Cutoff) BY <2>1 DEF CInv, Typed
    <3>2. a.time \in Nat /\ clock \in Nat /\ Expiry \in Nat
      BY DiscoveryAssumption DEF Past, CInv, Typed
    <3> QED BY <3>1, <3>2 DEF Cutoff
  <2>2. ASSUME NEW c \in Calls, NEW u \in Trackers, HandleAnnounce(c, u)
        PROVE  \E b \in store'[t] \ store[t] : SameKey(a, b)
    <3> DEFINE e == [host |-> plan[c].host, kind |-> plan[c].kind, time |-> task[c][u].time]
    <3>1. /\ store'[u] = {b \in store[u] : ~SameKey(e, b)} \cup {e}
          /\ \A w \in Trackers \ {u} : store'[w] = store[w]
      BY <2>2, Replaced
    <3> HIDE DEF e
    <3>2. u = t /\ SameKey(e, a) /\ e # a BY <3>1
    <3>3. SameKey(a, e) BY <3>2 DEF SameKey
    <3>4. e \notin store[t] BY <3>2, <3>3 DEF Past
    <3> QED BY <3>1, <3>2, <3>3, <3>4
  <2> QED BY <2>1, <2>2, StoreSteps
<1>2. CInv /\ Past /\ [Next]_vars => [A]_vars BY <1>1
<1> QED BY <1>2, CallsInductive, PastInductive, PTL DEF Spec, FreshIsKept

-----------------------------------------------------------------------------
(* What a call that succeeds has done *)

LEMMA AnswersInit == Init => \A c \in Calls : Announced(c) /\ Watched(c) /\ Gathered(c)
<1> SUFFICES ASSUME Init, NEW c \in Calls PROVE ~Running(c)
  BY DEF Announced, Watched, Gathered, Asking
<1> QED BY DEF Init, Running

(* A step that does no more of a call than to note what trackers hold.     *)
LEMMA AnswersStay ==
  ASSUME AInv, plan' = plan, NEW d \in Calls, call'[d] = call[d], task'[d] = task[d],
         results'[d] = results[d], seen[d] \subseteq seen'[d], steady'[d] \subseteq steady[d],
         \A t \in Trackers : <<d, t>> \in put => <<d, t>> \in put'
  PROVE  (Announced(d) /\ Gathered(d))'
<1>1. Announced(d) /\ Gathered(d) BY DEF AInv
<1>2. Running(d)' = Running(d) /\ Announces(d)' = Announces(d) /\ Asked(d)' = Asked(d)
  BY DEF Running, Announces, Asked
<1>3. Failing(d)' = Failing(d) /\ \A t : Unanswered(d, t)' = Unanswered(d, t)
  BY DEF Failing, Unanswered
<1>4. Announced(d)'
  <2> SUFFICES ASSUME Running(d), Announces(d), NEW t \in Asked(d)
               PROVE  (Unanswered(d, t) \/ Failing(d) \/ <<d, t>> \in put)'
    BY <1>2 DEF Announced
  <2>1. t \in Trackers BY AskedTrackers DEF AInv, CInv, Announces
  <2> QED BY <1>1, <1>3, <2>1 DEF Announced
<1>5. d \in Asking' <=> d \in Asking BY <1>2 DEF Asking
<1>6. Gathered(d)'
  BY <1>1, <1>3, <1>5 DEF Gathered
<1> QED BY <1>4, <1>6

LEMMA WatchedStays ==
  ASSUME AInv, plan' = plan, NEW d \in Calls, call'[d].at = call[d].at, store' = store,
         seen'[d] = seen[d], steady'[d] = steady[d]
  PROVE  Watched(d)'
<1>1. d \in Asking' <=> d \in Asking BY DEF Asking, Running, Announces
<1>2. Matching(store, d)' = Matching(store, d) BY DEF Matching, Matches, Asked
<1> QED BY <1>1, <1>2 DEF AInv, Watched

(* The stores change.                                                      *)
LEMMA WatchedStores ==
  ASSUME AInv, plan' = plan, call' = call, NEW s, Stores(s), NEW d \in Calls
  PROVE  Watched(d)' /\ seen[d] \subseteq seen'[d] /\ steady'[d] \subseteq steady[d]
<1>1. d \in Asking' <=> d \in Asking BY DEF Asking, Running, Announces
<1>2. store' = s BY DEF Stores
<1>3. Matching(store, d)' = Matching(s, d) BY <1>2 DEF Matching, Matches, Asked
<1>4. /\ steady'[d] = IF d \in Asking THEN steady[d] \cap Matching(s, d) ELSE steady[d]
      /\ seen'[d] = IF d \in Asking THEN seen[d] \cup Matching(s, d) ELSE seen[d]
  BY DEF Stores
<1> HIDE DEF Asking, Matching
<1> QED BY <1>1, <1>3, <1>4 DEF Watched

(* What taking the first of a sequence leaves.                             *)
LEMMA TailIs ==
  ASSUME NEW S, NEW r \in Seq(S), r # <<>>
  PROVE  /\ Head(r) = r[1]
         /\ \A k \in 1 .. Len(r) : k # 1 => k - 1 \in 1 .. Len(Tail(r)) /\ Tail(r)[k - 1] = r[k]
OBVIOUS

(* An error among the results is still there when a success was taken.     *)
LEMMA TailFails ==
  ASSUME NEW r \in Seq(BOOLEAN), r # <<>>, Head(r), NEW k \in 1 .. Len(r), ~r[k]
  PROVE  \E j \in 1 .. Len(Tail(r)) : ~Tail(r)[j]
<1>1. /\ Head(r) = r[1]
      /\ \A i \in 1 .. Len(r) : i # 1 => i - 1 \in 1 .. Len(Tail(r)) /\ Tail(r)[i - 1] = r[i]
  BY TailIs
<1>2. k # 1 BY <1>1, Zenon
<1>3. k - 1 \in 1 .. Len(Tail(r)) /\ ~Tail(r)[k - 1] BY <1>1, <1>2, Zenon
<1> QED BY <1>3, Zenon

LEMMA AnswersStart ==
  ASSUME AInv, CInv', plan' = plan, NEW c \in Calls, Start(c), NEW d \in Calls
  PROVE  (Announced(d) /\ Watched(d) /\ Gathered(d))'
<1> USE DEF AInv, CInv
<1>1. CASE d # c
  <2>1. /\ call'[d] = call[d] /\ task'[d] = task[d] /\ results'[d] = results[d]
        /\ seen'[d] = seen[d] /\ steady'[d] = steady[d] /\ put' = put /\ store' = store
    BY <1>1 DEF Start, Typed
  <2> QED BY <2>1, AnswersStay, WatchedStays
<1>2. CASE d = c
  <2>1. plan[c] # None BY DEF Start
  <2>2. Asked(c) \subseteq Trackers BY <2>1, AskedTrackers
  <2>3. [Rests EXCEPT !.at = "ready"].at = "ready" BY DEF Rests
  <2>4. \A t \in Trackers : task'[c][t] = IF t \in Asked(c) THEN [Rests EXCEPT !.at = "ready"] ELSE Rests
    BY DEF Start, Typed
  <2>5. \A t \in Asked(c) : Unanswered(c, t)' BY <2>2, <2>3, <2>4 DEF Unanswered
  <2>6. \A t \in Trackers : task'[c][t].at # "answered" BY <2>3, <2>4, RestsTask
  <2>7. call'[c].out = {} BY DEF Start, Typed
  <2>8. Announces(c)' = Announces(c) /\ Asked(c)' = Asked(c) BY DEF Announces, Asked
  <2>9. ~Announces(c) => seen'[c] = Matching(store, c) /\ steady'[c] = Matching(store, c)
    BY DEF Start, Typed
  <2>10. Matching(store, c)' = Matching(store, c) BY DEF Start, Matching, Matches, Asked
  <2>11. Announced(c)' BY <2>5, <2>8 DEF Announced
  <2>12. Watched(c)' BY <2>8, <2>9, <2>10 DEF Watched, Asking
  <2>13. ASSUME c \in Asking' PROVE \A q \in steady'[c] : Unanswered(c, q[1])'
    <3>1. steady'[c] = Matching(store, c) BY <2>8, <2>9, <2>13 DEF Asking
    <3>2. \A q \in Matching(store, c) : q[1] \in Asked(c) BY DEF Matching
    <3> QED BY <2>5, <3>1, <3>2
  <2>14. Gathered(c)' BY <2>6, <2>7, <2>13 DEF Gathered
  <2> QED BY <1>2, <2>11, <2>12, <2>14
<1> QED BY <1>1, <1>2

LEMMA AnswersResult ==
  ASSUME AInv, CInv', plan' = plan, NEW c \in Calls, ReadResult(c), NEW d \in Calls
  PROVE  (Announced(d) /\ Watched(d) /\ Gathered(d))'
<1> USE DEF AInv, CInv
<1>0. task' = task /\ store' = store BY DEF ReadResult
<1>1. CASE d # c
  <2>1. ASSUME NEW how, Returns(c, how)
        PROVE  /\ call'[d] = call[d] /\ results'[d] = results[d]
               /\ seen'[d] = seen[d] /\ steady'[d] = steady[d]
               /\ \A t \in Trackers : <<d, t>> \in put => <<d, t>> \in put'
    BY <1>1, <2>1 DEF Returns, Typed
  <2>2. ASSUME call' = [call EXCEPT ![c].left = @ - 1], results' = [results EXCEPT ![c] = Tail(@)],
               UNCHANGED observed
        PROVE  /\ call'[d] = call[d] /\ results'[d] = results[d]
               /\ seen'[d] = seen[d] /\ steady'[d] = steady[d] /\ put' = put
    BY <1>1, <2>2 DEF Typed, observed
  <2>3. /\ call'[d] = call[d] /\ results'[d] = results[d]
        /\ seen'[d] = seen[d] /\ steady'[d] = steady[d]
        /\ \A t \in Trackers : <<d, t>> \in put => <<d, t>> \in put'
    BY <2>1, <2>2 DEF ReadResult
  <2> QED BY <1>0, <2>3, AnswersStay, WatchedStays
<1>2. ASSUME d = c, NEW how \in {"ok", "failed"}, Returns(c, how)
      PROVE  (Announced(d) /\ Watched(d) /\ Gathered(d))'
  <2>1. call'[c].at = how BY <1>2 DEF Returns, Typed
  <2>2. ~Running(c)' BY <2>1 DEF Running
  <2> QED BY <1>2, <2>2 DEF Announced, Watched, Gathered, Asking
<1>3. ASSUME d = c, results[c] # <<>>, Head(results[c]), call' = [call EXCEPT ![c].left = @ - 1],
             results' = [results EXCEPT ![c] = Tail(@)], UNCHANGED observed
      PROVE  (Announced(d) /\ Watched(d) /\ Gathered(d))'
  <2>1. put' = put /\ seen' = seen /\ steady' = steady BY <1>3 DEF observed
  <2>2. call'[c].at = call[c].at /\ call'[c].out = call[c].out
    <3>1. call \in [Calls -> CallStates] BY DEF Typed
    <3>2. call'[c] = [call[c] EXCEPT !.left = @ - 1] BY <1>3, <3>1
    <3>3. call[c] \in CallStates BY <3>1
    <3> QED BY <3>2, <3>3 DEF CallStates
  <2>3. Failing(c) => Failing(c)'
    <3> SUFFICES ASSUME NEW k \in 1 .. Len(results[c]), ~results[c][k]
                 PROVE  \E j \in 1 .. Len(results'[c]) : ~results'[c][j]
      BY DEF Failing
    <3>1. results[c] \in Seq(BOOLEAN) /\ results'[c] = Tail(results[c]) BY <1>3 DEF Typed
    <3> QED BY <1>3, <3>1, TailFails
  <2>4. \A t : Unanswered(c, t)' = Unanswered(c, t) BY <1>0 DEF Unanswered
  <2>5. Running(c)' = Running(c) /\ Announces(c)' = Announces(c) /\ Asked(c)' = Asked(c)
        /\ (c \in Asking' <=> c \in Asking)
    BY <2>2 DEF Running, Announces, Asked, Asking
  <2>6. Announced(c)' BY <2>1, <2>3, <2>4, <2>5 DEF Announced
  <2>7. Gathered(c)' BY <1>0, <2>1, <2>2, <2>3, <2>4, <2>5 DEF Gathered
  <2>8. Watched(c)' BY <1>0, <2>1, <2>2, WatchedStays
  <2> QED BY <1>3, <2>6, <2>7, <2>8
<1> QED BY <1>1, <1>2, <1>3 DEF ReadResult

(* One goroutine moves; others of its call do not.                         *)
LEMMA TaskOf ==
  ASSUME Typed, NEW c \in Calls, NEW t \in Trackers, NEW r, task' = [task EXCEPT ![c][t] = r]
  PROVE  /\ \A d \in Calls \ {c} : task'[d] = task[d]
         /\ task'[c][t] = r
         /\ \A u \in Trackers \ {t} : task'[c][u] = task[c][u]
BY DEF Typed

LEMMA AnswersTask ==
  ASSUME AInv, CInv', plan' = plan, NEW c \in Calls, NEW t \in Trackers, TaskStep(c, t), NEW d \in Calls
  PROVE  (Announced(d) /\ Watched(d) /\ Gathered(d))'
<1> USE DEF AInv, CInv
<1>1. ASSUME Ask(c, t) PROVE (Announced(d) /\ Watched(d) /\ Gathered(d))'
  <2> DEFINE r == [Rests EXCEPT !.at = "asked", !.time = clock]
  <2>1. r.at = "asked" BY DEF Rests
  <2>2. /\ task' = [task EXCEPT ![c][t] = r] /\ store' = store /\ call' = call /\ results' = results
        /\ put' = put /\ seen' = seen /\ steady' = steady
    BY <1>1 DEF Ask, observed
  <2> HIDE DEF r
  <2>3. /\ \A e \in Calls \ {c} : task'[e] = task[e]
        /\ task'[c][t] = r
        /\ \A u \in Trackers \ {t} : task'[c][u] = task[c][u]
    BY <2>2, TaskOf
  <2>4. Watched(d)' BY <2>2, WatchedStays
  <2>5. CASE d # c BY <2>2, <2>3, <2>4, <2>5, AnswersStay
  <2>6. CASE d = c
    <3>1. Announced(c) /\ Gathered(c) OBVIOUS
    <3>2. \A u \in Trackers : Unanswered(c, u) => Unanswered(c, u)' BY <2>1, <2>3 DEF Unanswered
    <3>3. \A u \in Trackers : task'[c][u].at = "answered" => task'[c][u] = task[c][u] BY <2>1, <2>3
    <3>4. \A u \in Trackers : task[c][u].at = "answered" => task'[c][u] = task[c][u]
      BY <1>1, <2>3 DEF Ask
    <3>5. Failing(c)' = Failing(c) BY <2>2 DEF Failing
    <3>6. Running(c)' = Running(c) /\ Announces(c)' = Announces(c) /\ Asked(c)' = Asked(c)
          /\ (c \in Asking' <=> c \in Asking)
      BY <2>2 DEF Running, Announces, Asked, Asking
    <3>7. Announced(c)'
      <4>1. Announces(c) => Asked(c) \subseteq Trackers BY AskedTrackers DEF Announces
      <4> QED BY <2>2, <3>1, <3>2, <3>5, <3>6, <4>1 DEF Announced
    <3>8. \A q \in steady[c] : q[1] \in Trackers BY DEF Typed
    <3>9. Gathered(c)' BY <2>2, <3>1, <3>2, <3>3, <3>4, <3>5, <3>6, <3>8 DEF Gathered
    <3> QED BY <2>4, <2>6, <3>7, <3>9
  <2> QED BY <2>5, <2>6
<1>2. ASSUME HandleAnnounce(c, t) PROVE (Announced(d) /\ Watched(d) /\ Gathered(d))'
  <2> DEFINE r == [Rests EXCEPT !.at = "answered"]
             a == [host |-> plan[c].host, kind |-> plan[c].kind, time |-> task[c][t].time]
             s == [store EXCEPT ![t] = {b \in @ : ~SameKey(a, b)} \cup {a}]
  <2>2. /\ task' = [task EXCEPT ![c][t] = r] /\ call' = call /\ results' = results
        /\ put' = (IF Running(c) THEN put \cup {<<c, t>>} ELSE put)
        /\ Stores(s)
    BY <1>2 DEF HandleAnnounce, PutAnnounce
  <2> HIDE DEF r, s
  <2>3. /\ \A e \in Calls \ {c} : task'[e] = task[e]
        /\ \A u \in Trackers \ {t} : task'[c][u] = task[c][u]
    BY <2>2, TaskOf
  <2>4. Watched(d)' /\ seen[d] \subseteq seen'[d] /\ steady'[d] \subseteq steady[d]
    BY <2>2, WatchedStores
  <2>5. CASE d # c BY <2>2, <2>3, <2>4, <2>5, AnswersStay
  <2>6. CASE d = c
    <3>1. Announced(c) OBVIOUS
    <3>2. Running(c)' = Running(c) /\ Announces(c)' = Announces(c) /\ Asked(c)' = Asked(c)
      BY <2>2 DEF Running, Announces, Asked
    <3>3. Gathered(c)' BY <1>2, <3>2 DEF Gathered, Asking, HandleAnnounce
    <3>4. Failing(c)' = Failing(c) BY <2>2 DEF Failing
    <3>5. \A u \in Trackers \ {t} : Unanswered(c, u)' = Unanswered(c, u) BY <2>3 DEF Unanswered
    <3>6. Asked(c) \subseteq Trackers BY <1>2, AskedTrackers DEF Announces, HandleAnnounce
    <3>7. Announced(c)' BY <2>2, <3>1, <3>2, <3>4, <3>5, <3>6 DEF Announced
    <3> QED BY <2>4, <2>6, <3>3, <3>7
  <2> QED BY <2>5, <2>6
<1>3. ASSUME HandleQuery(c, t) PROVE (Announced(d) /\ Watched(d) /\ Gathered(d))'
  <2> DEFINE held == {a \in store[t] : Matches(c, a)}
             r == [Rests EXCEPT !.at = "answered", !.reply = held]
  <2>1. r.at = "answered" /\ r.reply = held BY DEF Rests
  <2>2. /\ task' = [task EXCEPT ![c][t] = r] /\ store' = store /\ call' = call /\ results' = results
        /\ put' = put /\ seen' = seen /\ steady' = steady
    BY <1>3 DEF HandleQuery, observed
  <2> HIDE DEF r
  <2>3. /\ \A e \in Calls \ {c} : task'[e] = task[e]
        /\ task'[c][t] = r
        /\ \A u \in Trackers \ {t} : task'[c][u] = task[c][u]
    BY <2>2, TaskOf
  <2>4. Watched(d)' BY <2>2, WatchedStays
  <2>5. CASE d # c BY <2>2, <2>3, <2>4, <2>5, AnswersStay
  <2>6. CASE d = c
    <3>1. Announced(c) /\ Gathered(c) /\ Watched(c) /\ Belongs(c) OBVIOUS
    <3>2. ~Announces(c)' BY <1>3 DEF HandleQuery, Announces
    <3>3. Announced(c)' BY <3>2 DEF Announced
    <3>4. c \in Asking' <=> c \in Asking BY <2>2 DEF Asking, Running, Announces
    <3>5. Failing(c)' = Failing(c) BY <2>2 DEF Failing
    <3>6. t \in Asked(c) BY <1>3, <3>1 DEF HandleQuery, Belongs
    <3>7. \A b : <<t, b>> \in Matching(store, c) <=> b \in held BY <3>6, MatchingIs
    <3>8. \A u \in Trackers \ {t} : Unanswered(c, u)' = Unanswered(c, u) BY <2>3 DEF Unanswered
    <3> SUFFICES ASSUME c \in Asking PROVE Gathered(c)' BY <2>4, <2>6, <3>3, <3>4 DEF Gathered
    <3>9. \A u \in Trackers : task'[c][u].at = "answered" => \A b \in task'[c][u].reply : <<u, b>> \in seen[c]
      BY <2>1, <2>3, <3>1, <3>7 DEF Gathered, Watched
    <3>10. ASSUME NEW q \in steady[c]
           PROVE  (\/ Unanswered(c, q[1]) \/ Failing(c)
                   \/ task[c][q[1]].at = "answered" /\ q[2] \in task[c][q[1]].reply
                   \/ q \in call[c].out)'
      <4>1. q[1] \in Trackers /\ q = <<q[1], q[2]>> BY DEF Typed
      <4>2. CASE q[1] = t
        <5>1. q[2] \in held BY <3>1, <3>7, <4>1, <4>2 DEF Watched
        <5> QED BY <2>1, <2>3, <4>2, <5>1
      <4>3. CASE q[1] # t BY <2>2, <2>3, <3>1, <3>5, <3>8, <4>1, <4>3 DEF Gathered
      <4> QED BY <4>2, <4>3
    <3> QED BY <2>2, <3>1, <3>9, <3>10 DEF Gathered
  <2> QED BY <2>5, <2>6
<1>4. ASSUME NEW ok \in BOOLEAN, Reports(c, t, ok), store' = store, UNCHANGED observed,
             task[c][t].at # "none",
             \A e \in Calls \ {c} : call'[e] = call[e],
             call'[c].at = call[c].at, call[c].out \subseteq call'[c].out,
             Running(c) => call'[c].out \subseteq call[c].out \cup {<<t, b>> : b \in task[c][t].reply},
             Running(c) /\ call'[c].out # call[c].out => task[c][t].at = "answered",
             Running(c) /\ ok => /\ task[c][t].at = "answered"
                                 /\ \A b \in task[c][t].reply : <<t, b>> \in call'[c].out
      PROVE (Announced(d) /\ Watched(d) /\ Gathered(d))'
  <2>1. put' = put /\ seen' = seen /\ steady' = steady BY <1>4 DEF observed
  <2>2. task' = [task EXCEPT ![c][t] = Rests] BY <1>4 DEF Reports
  <2>3. /\ \A e \in Calls \ {c} : task'[e] = task[e]
        /\ task'[c][t] = Rests
        /\ \A u \in Trackers \ {t} : task'[c][u] = task[c][u]
    BY <2>2, TaskOf
  <2>4. Watched(d)'
    <3>1. call'[d].at = call[d].at BY <1>4
    <3> QED BY <1>4, <2>1, <3>1, WatchedStays
  <2>5. CASE d # c
    <3>1. results'[d] = results[d] BY <1>4, <2>5 DEF Reports, Typed
    <3> QED BY <1>4, <2>1, <2>3, <2>4, <2>5, <3>1, AnswersStay
  <2>6. CASE d = c
    <3>1. Announced(c) /\ Gathered(c) OBVIOUS
    <3>2. Running(c)' = Running(c) /\ Announces(c)' = Announces(c) /\ Asked(c)' = Asked(c)
          /\ (c \in Asking' <=> c \in Asking)
      BY <1>4 DEF Running, Announces, Asked, Asking
    <3> SUFFICES ASSUME Running(c) PROVE Announced(c)' /\ Gathered(c)'
      BY <2>4, <2>6, <3>2 DEF Announced, Gathered, Asking
    <3>3. results'[c] = Append(results[c], ok) /\ results[c] \in Seq(BOOLEAN)
      BY <1>4 DEF Reports, Typed
    <3>4. Failing(c) => Failing(c)' BY <3>3 DEF Failing
    <3>5. ~ok => Failing(c)'
      <4>1. Len(results'[c]) = Len(results[c]) + 1 /\ Len(results[c]) + 1 \in 1 .. Len(results'[c])
            /\ results'[c][Len(results[c]) + 1] = ok
        BY <3>3
      <4> QED BY <4>1 DEF Failing
    <3>6. \A u \in Trackers \ {t} : Unanswered(c, u)' = Unanswered(c, u) BY <2>3 DEF Unanswered
    <3>7. Announced(c)'
      <4> SUFFICES ASSUME Announces(c), NEW u \in Asked(c)
                   PROVE  (Unanswered(c, u) \/ Failing(c) \/ <<c, u>> \in put)'
        BY <3>2 DEF Announced
      <4>1. u \in Trackers BY AskedTrackers DEF Announces
      <4>2. Unanswered(c, u) \/ Failing(c) \/ <<c, u>> \in put BY <3>1 DEF Announced
      <4>3. CASE u # t BY <2>1, <3>4, <3>6, <4>1, <4>2, <4>3
      <4>4. CASE u = t /\ ok
        <5>1. ~Unanswered(c, u) BY <1>4, <4>4 DEF Unanswered
        <5> QED BY <2>1, <3>4, <4>2, <5>1
      <4> QED BY <3>5, <4>3, <4>4
    <3> SUFFICES ASSUME c \in Asking PROVE Gathered(c)' BY <3>2, <3>7 DEF Gathered
    <3>8. \A b \in task[c][t].reply : task[c][t].at = "answered" => <<t, b>> \in seen[c]
      BY <3>1 DEF Gathered
    <3>9. call'[c].out \subseteq seen[c] BY <1>4, <3>1, <3>8 DEF Gathered
    <3>10. \A u \in Trackers : task'[c][u].at = "answered" => \A b \in task'[c][u].reply : <<u, b>> \in seen[c]
      BY <2>3, <3>1, RestsTask DEF Gathered
    <3>11. ASSUME NEW q \in steady[c]
           PROVE  (\/ Unanswered(c, q[1]) \/ Failing(c)
                   \/ task[c][q[1]].at = "answered" /\ q[2] \in task[c][q[1]].reply
                   \/ q \in call[c].out)'
      <4>1. q[1] \in Trackers /\ q = <<q[1], q[2]>> BY DEF Typed
      <4>2. \/ Unanswered(c, q[1]) \/ Failing(c)
            \/ task[c][q[1]].at = "answered" /\ q[2] \in task[c][q[1]].reply
            \/ q \in call[c].out
        BY <3>1 DEF Gathered
      <4>3. CASE q[1] # t BY <1>4, <2>3, <3>4, <3>6, <4>1, <4>2, <4>3
      <4>4. CASE q[1] = t /\ ok
        <5>1. ~Unanswered(c, q[1]) BY <1>4, <4>4 DEF Unanswered
        <5>2. q[2] \in task[c][t].reply => q \in call'[c].out BY <1>4, <4>1, <4>4
        <5> QED BY <1>4, <3>4, <4>2, <4>4, <5>1, <5>2
      <4> QED BY <3>5, <4>3, <4>4
    <3> QED BY <2>1, <3>9, <3>10, <3>11 DEF Gathered
  <2> QED BY <2>5, <2>6
<1>5. ASSUME ReadResponse(c, t) PROVE (Announced(d) /\ Watched(d) /\ Gathered(d))'
  <2> DEFINE ok == Cardinality(task[c][t].reply) <= Limit
             hosts == {<<t, b>> : b \in task[c][t].reply}
  <2>1. ok \in BOOLEAN /\ (\A b \in task[c][t].reply : <<t, b>> \in hosts) OBVIOUS
  <2>2. /\ task[c][t].at = "answered" /\ Reports(c, t, ok) /\ store' = store /\ UNCHANGED observed
        /\ IF Running(c) /\ ok THEN Gathers(c, hosts) ELSE call' = call
    BY <1>5 DEF ReadResponse
  <2>3. ASSUME Gathers(c, hosts)
        PROVE  /\ \A e \in Calls \ {c} : call'[e] = call[e]
               /\ call'[c].at = call[c].at /\ call'[c].out = call[c].out \cup hosts
    <3> HIDE DEF hosts
    <3>1. call'[c].at = call[c].at /\ call'[c].out = call[c].out \cup hosts
      BY <2>3, GathersKeeps
    <3>2. \A e \in Calls \ {c} : call'[e] = call[e] BY <2>3 DEF Gathers, Typed
    <3> QED BY <3>1, <3>2
  <2> HIDE DEF ok
  <2>4. CASE Running(c) /\ ok
    <3> HIDE DEF hosts
    <3>1. /\ \A e \in Calls \ {c} : call'[e] = call[e]
          /\ call'[c].at = call[c].at /\ call'[c].out = call[c].out \cup hosts
      BY <2>2, <2>3, <2>4
    <3>2. /\ call[c].out \subseteq call'[c].out
          /\ call'[c].out \subseteq call[c].out \cup {<<t, b>> : b \in task[c][t].reply}
      BY <3>1 DEF hosts
    <3>3. \A b \in task[c][t].reply : <<t, b>> \in call'[c].out BY <2>1, <3>1
    <3>4. task[c][t].at # "none" BY <2>2
    <3> QED BY <1>4, <2>1, <2>2, <3>1, <3>2, <3>3, <3>4
  <2>5. CASE ~(Running(c) /\ ok)
    <3>1. call' = call BY <2>2, <2>5
    <3>2. task[c][t].at # "none" BY <2>2
    <3> QED BY <1>4, <2>1, <2>2, <2>5, <3>1, <3>2
  <2> QED BY <2>4, <2>5
<1>6. ASSUME Fails(c, t) PROVE (Announced(d) /\ Watched(d) /\ Gathered(d))'
  <2>1. /\ Reports(c, t, FALSE) /\ store' = store /\ UNCHANGED observed /\ call' = call
        /\ task[c][t].at # "none"
    BY <1>6 DEF Fails
  <2> QED BY <1>4, <2>1
<1> QED BY <1>1, <1>2, <1>3, <1>5, <1>6 DEF TaskStep

LEMMA AnswersTracker ==
  ASSUME AInv, CInv', plan' = plan, NEW t \in Trackers, Restart(t) \/ GC(t), NEW d \in Calls
  PROVE  (Announced(d) /\ Watched(d) /\ Gathered(d))'
<1> USE DEF AInv, CInv
<1>1. call' = call /\ results' = results /\ put' = put BY DEF Restart, GC
<1>2. \E s : Stores(s) BY DEF Restart, GC
<1>3. Watched(d)' /\ seen[d] \subseteq seen'[d] /\ steady'[d] \subseteq steady[d]
  BY <1>1, <1>2, WatchedStores
<1>4. CASE GC(t)
  <2>1. task' = task BY <1>4 DEF GC
  <2> QED BY <1>1, <1>3, <2>1, AnswersStay
<1>5. CASE Restart(t)
  <2> DEFINE r == [Rests EXCEPT !.at = "lost"]
  <2>1. r.at = "lost" BY DEF Rests
  <2>2. \A u \in Trackers : task'[d][u] =
          IF u = t /\ task[d][u].at \in {"asked", "answered"} THEN r ELSE task[d][u]
    BY <1>5 DEF Restart, Typed
  <2> HIDE DEF r
  <2>3. \A u \in Trackers : Unanswered(d, u) => Unanswered(d, u)' BY <2>1, <2>2 DEF Unanswered
  <2>4. \A u \in Trackers : task'[d][u].at = "answered" => task'[d][u] = task[d][u] BY <2>1, <2>2
  <2>5. \A u \in Trackers : task[d][u].at = "answered" => task'[d][u] = task[d][u] \/ Unanswered(d, u)'
    BY <2>1, <2>2 DEF Unanswered
  <2>6. Failing(d)' = Failing(d) BY <1>1 DEF Failing
  <2>7. Running(d)' = Running(d) /\ Announces(d)' = Announces(d) /\ Asked(d)' = Asked(d)
        /\ (d \in Asking' <=> d \in Asking)
    BY <1>1 DEF Running, Announces, Asked, Asking
  <2>8. Announced(d) /\ Gathered(d) OBVIOUS
  <2>9. Announces(d) => Asked(d) \subseteq Trackers BY AskedTrackers DEF Announces
  <2>10. Announced(d)' BY <1>1, <2>3, <2>6, <2>7, <2>8, <2>9 DEF Announced
  <2>11. \A q \in steady[d] : q[1] \in Trackers BY DEF Typed
  <2>12. ASSUME d \in Asking PROVE Gathered(d)'
    <3>1. \A u \in Trackers : task'[d][u].at = "answered" => \A b \in task'[d][u].reply : <<u, b>> \in seen'[d]
      BY <1>3, <2>4, <2>8, <2>12 DEF Gathered
    <3>2. call'[d].out \subseteq seen'[d] BY <1>1, <1>3, <2>8, <2>12 DEF Gathered
    <3>3. ASSUME NEW q \in steady'[d]
          PROVE  (\/ Unanswered(d, q[1]) \/ Failing(d)
                  \/ task[d][q[1]].at = "answered" /\ q[2] \in task[d][q[1]].reply
                  \/ q \in call[d].out)'
      <4>1. q \in steady[d] /\ q[1] \in Trackers BY <1>3, <2>11
      <4>2. \/ Unanswered(d, q[1]) \/ Failing(d)
            \/ task[d][q[1]].at = "answered" /\ q[2] \in task[d][q[1]].reply
            \/ q \in call[d].out
        BY <2>8, <2>12, <4>1 DEF Gathered
      <4> QED BY <1>1, <2>3, <2>5, <2>6, <4>1, <4>2
    <3> QED BY <3>1, <3>2, <3>3 DEF Gathered
  <2>13. Gathered(d)' BY <2>7, <2>12 DEF Gathered
  <2> QED BY <1>3, <2>10, <2>13
<1> QED BY <1>4, <1>5

LEMMA AnswersNext == AInv /\ [Next]_vars => AInv'
<1> SUFFICES ASSUME AInv, [Next]_vars, NEW d \in Calls
             PROVE  (Announced(d) /\ Watched(d) /\ Gathered(d))'
  BY TypedNext, CountedNext DEF AInv, CInv
<1>c. CInv' BY TypedNext, CountedNext DEF AInv, CInv
<1>p. plan' = plan BY DEF Next, Held, vars
<1> DEFINE Kept == (Announced(d) /\ Watched(d) /\ Gathered(d))'
<1>1. ASSUME NEW c \in Calls, Start(c) PROVE Kept BY <1>1, <1>c, <1>p, AnswersStart
<1>2. ASSUME NEW c \in Calls, ReadResult(c) PROVE Kept BY <1>2, <1>c, <1>p, AnswersResult
<1>3. ASSUME NEW c \in Calls, NEW t \in Trackers, TaskStep(c, t) PROVE Kept
  BY <1>3, <1>c, <1>p, AnswersTask
<1>4. ASSUME NEW t \in Trackers, Restart(t) PROVE Kept BY <1>4, <1>c, <1>p, AnswersTracker
<1>5. ASSUME NEW t \in Collecting, GC(t) PROVE Kept
  BY <1>5, <1>c, <1>p, AnswersTracker, DiscoveryAssumption
<1>6. Tick \/ UNCHANGED vars => Kept
  <2>1. Tick \/ UNCHANGED vars => UNCHANGED <<call, task, results, store, put, steady, seen>>
    BY DEF Tick, vars, observed
  <2> QED BY <1>p, <2>1, AnswersStay, WatchedStays
<1> HIDE DEF Kept
<1>7. Kept BY <1>1, <1>2, <1>3, <1>4, <1>5, <1>6 DEF Next
<1> QED BY <1>7 DEF Kept

(* What running calls have done, and what is left to do, is known of every *)
(* reachable state.                                                        *)
THEOREM AnswersInductive == Spec => []AInv
<1>1. Init => AInv BY TypedInit, CountedInit, AnswersInit DEF AInv, CInv
<1> QED BY <1>1, AnswersNext, PTL DEF Spec

(* A call that returns without an error did what it says at every tracker: *)
(* the announcement is in every store, or the answer is all that any of    *)
(* the trackers held all the time and nothing that it never held.          *)
THEOREM SuccessOfAll == Spec => SuccessIsOfAll
<1>1. ASSUME AInv, [Next]_vars, NEW c \in Calls, ReturnsOk(c)
      PROVE  AnnouncedToAll(c) /\ AnswersAreWhole(c)
  <2> USE DEF AInv, CInv
  <2>0. Running(c) /\ call'[c].at = "ok" /\ call'[c].at # call[c].at BY <1>1 DEF ReturnsOk, Running
  <2>1. ReadResult(c)
    <3>1. ASSUME NEW b \in Calls, Start(b) PROVE FALSE
      <4>1. call[b].at = "idle" /\ call' = [call EXCEPT ![b] = [at |-> "running", out |-> {}, left |-> Cardinality(Asked(b))]]
        BY <3>1 DEF Start
      <4> QED BY <2>0, <4>1, <1>1 DEF Typed
    <3>2. ASSUME NEW b \in Calls, b # c, ReadResult(b) PROVE FALSE
      <4>1. call'[c] = call[c] BY <1>1, <3>2 DEF ReadResult, Returns, Typed
      <4> QED BY <2>0, <4>1
    <3>3. ASSUME NEW b \in Calls, NEW t \in Trackers, TaskStep(b, t) PROVE FALSE
      <4>1. call' = call \/ \E hosts : Gathers(b, hosts)
        BY <3>3 DEF TaskStep, Ask, HandleAnnounce, HandleQuery, ReadResponse, Fails
      <4>2. call'[c].at = call[c].at BY <1>1, <4>1, GathersKeeps
      <4> QED BY <2>0, <4>2
    <3>4. (\E t \in Trackers : Restart(t) \/ GC(t)) \/ Tick \/ UNCHANGED vars => call' = call
      BY DEF Restart, GC, Tick, vars
    <3> QED BY <1>1, <2>0, <3>1, <3>2, <3>3, <3>4, DiscoveryAssumption DEF Next
  <2>2. call[c].left = 0
    <3>1. CASE Returns(c, "failed") BY <1>1, <2>0, <3>1 DEF Returns, Typed
    <3>2. CASE call' = [call EXCEPT ![c].left = @ - 1]
      <4>1. call'[c].at = call[c].at BY <1>1, <3>2 DEF Typed, CallStates
      <4> QED BY <2>0, <4>1
    <3> QED BY <2>1, <3>1, <3>2 DEF ReadResult
  <2>3. Len(results[c]) = 0 /\ Busy(c) = {}
    <3>1. call[c].left = Len(results[c]) + Cardinality(Busy(c)) BY <1>1, <2>0 DEF Counted
    <3>2. Len(results[c]) \in Nat BY <1>1 DEF Typed
    <3>3. Cardinality(Busy(c)) \in Nat /\ IsFiniteSet(Busy(c)) BY BusyFinite
    <3>4. Len(results[c]) = 0 /\ Cardinality(Busy(c)) = 0 BY <2>2, <3>1, <3>2, <3>3
    <3> QED BY <3>3, <3>4, FS_EmptySet
  <2>4. ~Failing(c) BY <2>3 DEF Failing
  <2>5. \A t \in Trackers : task[c][t].at = "none" BY <2>3 DEF Busy
  <2>6. AnnouncedToAll(c)
    <3> SUFFICES ASSUME Announces(c), NEW t \in Asked(c) PROVE <<c, t>> \in put BY DEF AnnouncedToAll
    <3>1. t \in Trackers BY <1>1, AskedTrackers DEF Announces
    <3>2. ~Unanswered(c, t) BY <2>5, <3>1 DEF Unanswered
    <3>3. Announced(c) BY <1>1
    <3> QED BY <2>0, <2>4, <3>2, <3>3 DEF Announced
  <2>7. AnswersAreWhole(c)
    <3> SUFFICES ASSUME ~Announces(c) PROVE steady[c] \subseteq call[c].out /\ call[c].out \subseteq seen[c]
      BY DEF AnswersAreWhole
    <3>1. c \in Asking /\ Gathered(c) BY <1>1, <2>0 DEF Asking
    <3>2. \A q \in steady[c] : q[1] \in Trackers BY <1>1 DEF Typed
    <3>3. \A q \in steady[c] : q \in call[c].out BY <2>4, <2>5, <3>1, <3>2 DEF Gathered, Unanswered
    <3> QED BY <3>1, <3>3 DEF Gathered
  <2> QED BY <2>6, <2>7
<1> DEFINE A == \A c \in Calls : ReturnsOk(c) => AnnouncedToAll(c) /\ AnswersAreWhole(c)
<1>2. AInv /\ [Next]_vars => [A]_vars BY <1>1
<1> QED BY <1>2, AnswersInductive, PTL DEF Spec, SuccessIsOfAll

-----------------------------------------------------------------------------
(* The order of a host's announcements *)

LEMMA TurnInit == Init => InTurn /\ Newer
<1> SUFFICES ASSUME Init PROVE InTurn /\ Newer OBVIOUS
<1>1. \A c \in Calls : call[c].at = "idle" BY DEF Init
<1>2. \A t \in Trackers : store[t] = {} BY DEF Init
<1>3. InTurn
  <2> SUFFICES ASSUME NEW before \in SUBSET (Calls \X Calls), NEW c \in Calls, NEW d \in Calls,
                      call[d].at # "idle"
               PROVE  Returned(c)
    BY DEF InTurn
  <2> QED BY <1>1
<1> QED BY <1>2, <1>3 DEF Newer

(* How the state of a call changes.                                        *)
LEMMA CallSteps ==
  ASSUME CInv, [Next]_vars, NEW c \in Calls
  PROVE  \/ call'[c].at = call[c].at
         \/ Start(c) /\ call'[c].at = "running"
         \/ Running(c) /\ call'[c].at \in {"ok", "failed"}
<1> USE DEF CInv
<1>0. ASSUME NEW b \in Calls, b # c, Start(b) \/ ReadResult(b) PROVE call'[c] = call[c]
  BY <1>0 DEF Start, ReadResult, Returns, Typed
<1>1. Start(c) => call'[c].at = "running" BY DEF Start, Typed
<1>2. ASSUME ReadResult(c)
      PROVE  Running(c) /\ (call'[c].at = call[c].at \/ call'[c].at \in {"ok", "failed"})
  <2>1. CASE call' = [call EXCEPT ![c].left = @ - 1] BY <1>2, <2>1 DEF Typed, CallStates, ReadResult
  <2>2. ASSUME NEW how \in {"ok", "failed"}, Returns(c, how) PROVE call'[c].at = how
    BY <2>2 DEF Returns, Typed
  <2> QED BY <1>2, <2>1, <2>2 DEF ReadResult
<1>3. ASSUME NEW b \in Calls, NEW t \in Trackers, TaskStep(b, t) PROVE call'[c].at = call[c].at
  <2>1. call' = call \/ \E hosts : Gathers(b, hosts)
    BY <1>3 DEF TaskStep, Ask, HandleAnnounce, HandleQuery, ReadResponse, Fails
  <2> QED BY <2>1, GathersKeeps
<1>4. (\E t \in Trackers : Restart(t) \/ GC(t)) \/ Tick \/ UNCHANGED vars => call' = call
  BY DEF Restart, GC, Tick, vars
<1> QED BY <1>0, <1>1, <1>2, <1>3, <1>4, DiscoveryAssumption DEF Next

LEMMA TurnNext == CInv /\ InTurn /\ [Next]_vars => InTurn'
<1> SUFFICES ASSUME CInv, InTurn, [Next]_vars, NEW before \in SUBSET (Calls \X Calls),
                    Sequential(plan', before), NEW c \in Calls, NEW d \in Calls,
                    <<c, d>> \in before, call'[d].at # "idle"
             PROVE  Returned(c)'
  BY DEF InTurn
<1>p. plan' = plan BY DEF Next, Held, vars
<1>1. Sequential(plan, before) BY <1>p
<1>2. Returned(c) => Returned(c)'
  <2>1. Returned(c) => call[c].at \in {"ok", "failed"} BY DEF Returned
  <2>2. Start(c) => call[c].at = "idle" BY DEF Start
  <2>3. Returned(c) => call'[c].at = call[c].at BY <2>1, <2>2, CallSteps DEF Running
  <2> QED BY <2>3 DEF Returned
<1>3. CASE call[d].at # "idle"
  <2>1. Returned(c) BY <1>1, <1>3 DEF InTurn
  <2> QED BY <1>2, <2>1
<1>4. CASE call[d].at = "idle"
  <2>1. Start(d) BY <1>4, CallSteps DEF Running
  <2>2. plan[d] # None /\ (plan[d].after # None => Returned(plan[d].after)) BY <2>1 DEF Start
  <2>3. plan[d].after # None /\ (plan[d].after = c \/ <<c, plan[d].after>> \in before)
    BY <1>1, <2>2 DEF Sequential
  <2>4. CASE plan[d].after = c BY <1>2, <2>2, <2>3, <2>4
  <2>5. CASE <<c, plan[d].after>> \in before
    <3>1. plan[d].after \in Calls BY <2>5
    <3>2. call[plan[d].after].at # "idle" BY <2>2, <2>3 DEF Returned
    <3>3. Returned(c) BY <1>1, <2>5, <3>1, <3>2 DEF InTurn
    <3> QED BY <1>2, <3>3
  <2> QED BY <2>3, <2>4, <2>5
<1> QED BY <1>3, <1>4

(* Two calls of a host have no goroutines at one time, unless one failed.  *)
LEMMA OneAtATime ==
  ASSUME CInv, InTurn, OneByOne, NEW c \in Calls, NEW d \in Calls, c # d,
         Announces(c), Announces(d), plan[c].host = plan[d].host, ~Failed(plan[c].host)
  PROVE  Busy(c) = {} \/ Busy(d) = {}
<1> USE DEF CInv
<1>1. PICK before \in SUBSET (Calls \X Calls) : Sequential(plan, before) BY DEF OneByOne, Typed
<1>2. <<c, d>> \in before \/ <<d, c>> \in before BY <1>1 DEF Sequential, Announces
<1>3. ASSUME NEW b \in Calls, NEW e \in Calls, <<b, e>> \in before, Announces(b),
             plan[b].host = plan[c].host
      PROVE  Busy(b) = {} \/ Busy(e) = {}
  <2>1. CASE call[e].at = "idle" BY <2>1 DEF Belongs
  <2>2. CASE call[e].at # "idle"
    <3>1. Returned(b) BY <1>1, <1>3, <2>2 DEF InTurn
    <3>2. call[b].at # "failed" BY <1>3 DEF Failed
    <3>3. call[b].at = "ok" BY <3>1, <3>2 DEF Returned
    <3> QED BY <3>3 DEF Counted
  <2> QED BY <2>1, <2>2
<1> QED BY <1>2, <1>3

LEMMA FailedStays == CInv /\ [Next]_vars => \A h : Failed(h) => Failed(h)'
<1> SUFFICES ASSUME CInv, [Next]_vars, NEW h, NEW c \in Calls,
                    Announces(c), plan[c].host = h, call[c].at = "failed"
             PROVE  Failed(h)'
  BY DEF Failed
<1>1. plan' = plan BY DEF Next, Held, vars
<1>2. call'[c].at = "failed"
  <2>1. ~Running(c) /\ ~Start(c) BY DEF Running, Start
  <2> QED BY <2>1, CallSteps
<1> QED BY <1>1, <1>2 DEF Failed, Announces

(* What is put where an announcement of the same host is on its way comes  *)
(* from the same goroutine, or one of the host's calls failed.             *)
LEMMA NewerNext ==
  ASSUME CInv, Past, InTurn, Newer, OneByOne, [Next]_vars
  PROVE  Newer'
<1> USE DEF CInv
<1> SUFFICES ASSUME NEW d \in Calls, NEW u \in Trackers, Announces(d), task'[d][u].at = "asked",
                    NEW a \in store'[u], a.host = plan[d].host
             PROVE  a.time <= task'[d][u].time \/ Failed(a.host)
  <2>1. plan' = plan BY DEF Next, Held, vars
  <2> QED BY <2>1, FailedStays DEF Newer, Announces
<1>1. ASSUME NEW c \in Calls, NEW t \in Trackers, Ask(c, t)
      PROVE  a.time <= task'[d][u].time \/ Failed(a.host)
  <2> DEFINE r == [Rests EXCEPT !.at = "asked", !.time = clock]
  <2>1. r.time = clock BY DEF Rests
  <2>2. task' = [task EXCEPT ![c][t] = r] /\ store' = store BY <1>1 DEF Ask
  <2> HIDE DEF r
  <2>3. /\ \A e \in Calls \ {c} : task'[e] = task[e]
        /\ task'[c][t] = r
        /\ \A w \in Trackers \ {t} : task'[c][w] = task[c][w]
    BY <2>2, TaskOf
  <2>4. CASE d = c /\ u = t
    <3>1. a.time \in 0 .. clock /\ clock \in Nat BY <2>2 DEF Past, Typed
    <3> QED BY <2>1, <2>3, <2>4, <3>1
  <2>5. CASE ~(d = c /\ u = t)
    <3>1. task'[d][u] = task[d][u] BY <2>3, <2>5
    <3> QED BY <2>2, <3>1 DEF Newer
  <2> QED BY <2>4, <2>5
<1>2. ASSUME NEW c \in Calls, NEW t \in Trackers, HandleAnnounce(c, t)
      PROVE  a.time <= task'[d][u].time \/ Failed(a.host)
  <2> DEFINE r == [Rests EXCEPT !.at = "answered"]
             e == [host |-> plan[c].host, kind |-> plan[c].kind, time |-> task[c][t].time]
  <2>1. r.at = "answered" BY DEF Rests
  <2>2. task' = [task EXCEPT ![c][t] = r] BY <1>2 DEF HandleAnnounce
  <2> HIDE DEF r
  <2>3. /\ \A b \in Calls \ {c} : task'[b] = task[b]
        /\ task'[c][t] = r
        /\ \A w \in Trackers \ {t} : task'[c][w] = task[c][w]
    BY <2>2, TaskOf
  <2>4. /\ store'[t] = {b \in store[t] : ~SameKey(e, b)} \cup {e}
        /\ \A w \in Trackers \ {t} : store'[w] = store[w]
    BY <1>2, Replaced
  <2>5. task'[d][u] = task[d][u] /\ ~(d = c /\ u = t) BY <2>1, <2>3
  <2>6. CASE a \in store[u] BY <2>5, <2>6 DEF Newer
  <2>7. CASE a \notin store[u]
    <3>1. u = t /\ a = e BY <2>4, <2>7
    <3>2. d # c BY <2>5, <3>1
    <3>3. Announces(c) /\ plan[c].host = plan[d].host BY <1>2, <3>1 DEF HandleAnnounce
    <3>4. t \in Busy(c) /\ t \in Busy(d) BY <1>2, <2>5, <3>1 DEF HandleAnnounce, Busy
    <3>5. Failed(plan[c].host) BY <3>2, <3>3, <3>4, OneAtATime
    <3> QED BY <3>3, <3>5
  <2> QED BY <2>6, <2>7
<1>3. ASSUME store'[u] \subseteq store[u], task'[d][u].at = "asked" => task'[d][u] = task[d][u]
      PROVE  a.time <= task'[d][u].time \/ Failed(a.host)
  BY <1>3 DEF Newer
<1>4. ASSUME NEW c \in Calls, Start(c) PROVE a.time <= task'[d][u].time \/ Failed(a.host)
  <2>1. [Rests EXCEPT !.at = "ready"].at = "ready" BY DEF Rests
  <2>2. task'[d] = task[d] \/ task'[d][u] \in {[Rests EXCEPT !.at = "ready"], Rests}
    BY <1>4 DEF Start, Typed
  <2>3. task'[d][u] = task[d][u] BY <2>1, <2>2, RestsTask
  <2> QED BY <1>3, <1>4, <2>3 DEF Start
<1>5. ASSUME NEW c \in Calls, NEW t \in Trackers, HandleQuery(c, t) \/ ReadResponse(c, t) \/ Fails(c, t)
      PROVE  a.time <= task'[d][u].time \/ Failed(a.host)
  <2> DEFINE r == [Rests EXCEPT !.at = "answered", !.reply = {b \in store[t] : Matches(c, b)}]
  <2>1. r.at = "answered" BY DEF Rests
  <2>2. /\ task' = [task EXCEPT ![c][t] = r] \/ task' = [task EXCEPT ![c][t] = Rests]
        /\ store' = store
    BY <1>5 DEF HandleQuery, ReadResponse, Fails, Reports
  <2> HIDE DEF r
  <2>3. ASSUME NEW x, x.at # "asked", task' = [task EXCEPT ![c][t] = x] PROVE task'[d][u] = task[d][u]
    <3>1. task'[d][u] = IF d = c /\ u = t THEN x ELSE task[d][u] BY <2>3 DEF Typed
    <3> QED BY <2>3, <3>1
  <2>4. task'[d][u] = task[d][u] BY <2>1, <2>2, <2>3, RestsTask
  <2> QED BY <1>3, <2>2, <2>4
<1>6. ASSUME NEW t \in Trackers, Restart(t) PROVE a.time <= task'[d][u].time \/ Failed(a.host)
  <2> DEFINE r == [Rests EXCEPT !.at = "lost"]
  <2>1. r.at = "lost" BY DEF Rests
  <2>2. task'[d][u] = IF u = t /\ task[d][u].at \in {"asked", "answered"} THEN r ELSE task[d][u]
    BY <1>6 DEF Restart, Typed
  <2> HIDE DEF r
  <2>3. task'[d][u] = task[d][u] BY <2>1, <2>2
  <2>4. store'[u] \subseteq store[u] BY <1>6 DEF Restart, Stores, Typed
  <2> QED BY <1>3, <2>3, <2>4
<1>7. ASSUME NEW t \in Collecting, GC(t) PROVE a.time <= task'[d][u].time \/ Failed(a.host)
  <2>1. task' = task BY <1>7 DEF GC
  <2>2. store' = [store EXCEPT ![t] = {b \in @ : b.time >= Cutoff}] BY <1>7 DEF GC, Stores
  <2>3. store'[u] \subseteq store[u] BY <2>2, DiscoveryAssumption DEF Typed
  <2> QED BY <1>3, <2>1, <2>3
<1>8. ASSUME (\E c \in Calls : ReadResult(c)) \/ Tick \/ UNCHANGED vars
      PROVE  a.time <= task'[d][u].time \/ Failed(a.host)
  <2>1. task' = task /\ store' = store BY <1>8 DEF ReadResult, Tick, vars
  <2> QED BY <1>3, <2>1
<1> DEFINE Goal == a.time <= task'[d][u].time \/ Failed(a.host)
<1>9. ASSUME NEW c \in Calls, NEW t \in Trackers, TaskStep(c, t) PROVE Goal
  BY <1>1, <1>2, <1>5, <1>9 DEF TaskStep
<1> HIDE DEF Goal
<1>10. Goal BY <1>4, <1>6, <1>7, <1>8, <1>9 DEF Next, Goal
<1> QED BY <1>10 DEF Goal

(* A host that makes its calls one after another does not have its newer   *)
(* announcement replaced by an older one, unless one of its calls failed   *)
(* and left goroutines behind: although PutAnnounce does not compare.      *)
THEOREM NewerStay == ASSUME OneByOne PROVE Spec => NewerStays
<1> DEFINE A == \A t \in Trackers : \A a \in store[t], b \in store'[t] :
                  SameKey(a, b) /\ b.time < a.time =>
                    \E c \in Calls : Announces(c) /\ plan[c].host = a.host /\ call[c].at = "failed"
<1>1. CInv /\ Past /\ Newer /\ [Next]_vars => A
  <2> SUFFICES ASSUME CInv, Past, Newer, [Next]_vars, NEW t \in Trackers,
                      NEW a \in store[t], NEW b \in store'[t], SameKey(a, b), b.time < a.time
               PROVE  Failed(a.host)
    BY DEF Failed
  <2>1. b \notin store[t]
    <3>1. SameKey(a, b) /\ a # b => b \notin store[t] BY DEF Past
    <3>2. a.time \in 0 .. clock /\ clock \in Nat BY DEF Past, CInv, Typed
    <3>3. a # b BY <3>2
    <3> QED BY <3>1, <3>3
  <2>2. PICK c \in Calls, u \in Trackers : HandleAnnounce(c, u)
    <3>1. ASSUME NEW u \in Trackers, NEW s, s \subseteq store[u], store' = [store EXCEPT ![u] = s]
          PROVE  FALSE
      BY <2>1, <3>1 DEF CInv, Typed
    <3>2. \A u \in Trackers : {} \subseteq store[u] /\ {x \in store[u] : x.time >= Cutoff} \subseteq store[u]
      OBVIOUS
    <3> QED BY <2>1, <3>1, <3>2, StoreSteps
  <2> DEFINE e == [host |-> plan[c].host, kind |-> plan[c].kind, time |-> task[c][u].time]
  <2>3. /\ store'[u] = {x \in store[u] : ~SameKey(e, x)} \cup {e}
        /\ \A w \in Trackers \ {u} : store'[w] = store[w]
    BY <2>2, Replaced
  <2>4. e.host = plan[c].host /\ e.time = task[c][u].time OBVIOUS
  <2> HIDE DEF e
  <2>5. u = t /\ b = e BY <2>1, <2>3
  <2>6. a.host = plan[c].host BY <2>4, <2>5 DEF SameKey
  <2>7. Announces(c) /\ task[c][t].at = "asked" BY <2>2, <2>5 DEF HandleAnnounce
  <2>8. a.time <= task[c][t].time \/ Failed(a.host) BY <2>6, <2>7 DEF Newer
  <2>9. a.time \in Nat /\ task[c][t].time \in Nat
    <3>1. a.time \in 0 .. clock /\ task[c][t].time \in 0 .. clock BY DEF Past
    <3> QED BY <3>1
  <2> QED BY <2>4, <2>5, <2>8, <2>9
<1>2. CInv /\ Past /\ Newer /\ [Next]_vars => [A]_vars BY <1>1
<1>3. Init => InTurn /\ Newer BY TurnInit
<1>4. CInv /\ InTurn /\ [Next]_vars => InTurn' BY TurnNext
<1>5. CInv /\ Past /\ InTurn /\ Newer /\ [Next]_vars => Newer' BY NewerNext
<1> QED BY <1>2, <1>3, <1>4, <1>5, CallsInductive, PastInductive, PTL DEF Spec, NewerStays

-----------------------------------------------------------------------------
(* Calls and goroutines end, if they are scheduled *)

(* A running call has read everything, has a result to read, or has a      *)
(* goroutine that has yet to report one.                                   *)
SomethingComes == \A c \in Calls : Running(c) =>
  call[c].left = 0 \/ results[c] # <<>> \/ Busy(c) # {}

(* How many steps a goroutine has left.                                    *)
Rank(at) == CASE at = "ready" -> 3 [] at = "asked" -> 2 [] at = "none" -> 0 [] OTHER -> 1

(* What calls, goroutines and trackers do brings no call that was made     *)
(* farther from its end; what goroutines do, and what calls read, brings   *)
(* theirs nearer.                                                          *)
Approaches ==
  /\ \A c \in Calls : call[c].at # "idle" =>
       /\ call'[c].at = call[c].at \/ (Running(c) /\ Returned(c)')
       /\ \A t \in Trackers : Rank(task'[c][t].at) <= Rank(task[c][t].at)
  /\ \A c \in Calls : Running(c) /\ Running(c)' => call'[c].left <= call[c].left
  /\ \A c \in Calls : ReadResult(c) => Returned(c)' \/ call'[c].left < call[c].left
  /\ \A c \in Calls, t \in Trackers : TaskStep(c, t) => Rank(task'[c][t].at) < Rank(task[c][t].at)

LEMMA SomethingIsToCome == CInv => SomethingComes
<1> SUFFICES ASSUME CInv, NEW c \in Calls, Running(c), results[c] = <<>>, Busy(c) = {}
             PROVE  call[c].left = 0
  BY DEF SomethingComes
<1>1. call[c].left = Len(results[c]) + Cardinality(Busy(c)) BY DEF CInv, Counted
<1>2. Cardinality(Busy(c)) = 0 BY FS_EmptySet
<1> QED BY <1>1, <1>2

LEMMA RankIs ==
  Rank("ready") = 3 /\ Rank("asked") = 2 /\ Rank("answered") = 1 /\ Rank("lost") = 1 /\ Rank("none") = 0
BY DEF Rank

(* A goroutine's step is one of its few, and no other goroutine's.         *)
LEMMA TaskNearer ==
  ASSUME CInv, NEW c \in Calls, NEW t \in Trackers, TaskStep(c, t)
  PROVE  /\ Rank(task'[c][t].at) < Rank(task[c][t].at)
         /\ \A d \in Calls, u \in Trackers : d # c \/ u # t => task'[d][u] = task[d][u]
         /\ \A d \in Calls : call'[d].at = call[d].at /\ call'[d].left = call[d].left
<1>1. ASSUME NEW r, task' = [task EXCEPT ![c][t] = r]
      PROVE  \A d \in Calls, u \in Trackers : task'[d][u] = IF d = c /\ u = t THEN r ELSE task[d][u]
  BY <1>1 DEF CInv, Typed
<1>2. CASE Ask(c, t)
  <2> DEFINE r == [Rests EXCEPT !.at = "asked", !.time = clock]
  <2>1. r.at = "asked" BY DEF Rests
  <2>2. task[c][t].at = "ready" /\ task' = [task EXCEPT ![c][t] = r] /\ call' = call
    BY <1>2 DEF Ask
  <2> HIDE DEF r
  <2>3. \A d \in Calls, u \in Trackers : task'[d][u] = IF d = c /\ u = t THEN r ELSE task[d][u]
    BY <1>1, <2>2
  <2> QED BY <2>1, <2>2, <2>3, RankIs
<1>3. CASE HandleAnnounce(c, t) \/ HandleQuery(c, t)
  <2> DEFINE r == [Rests EXCEPT !.at = "answered"]
             q == [Rests EXCEPT !.at = "answered", !.reply = {a \in store[t] : Matches(c, a)}]
  <2>1. r.at = "answered" /\ q.at = "answered" BY DEF Rests
  <2>2. /\ task[c][t].at = "asked" /\ call' = call
        /\ task' = [task EXCEPT ![c][t] = r] \/ task' = [task EXCEPT ![c][t] = q]
    BY <1>3 DEF HandleAnnounce, HandleQuery
  <2> HIDE DEF r, q
  <2>3. task'[c][t].at = "answered" BY <1>1, <2>1, <2>2
  <2>4. \A d \in Calls, u \in Trackers : d # c \/ u # t => task'[d][u] = task[d][u]
    BY <1>1, <2>2
  <2> QED BY <2>2, <2>3, <2>4, RankIs
<1>4. CASE ReadResponse(c, t) \/ Fails(c, t)
  <2>1. /\ task[c][t].at \in {"ready", "asked", "answered", "lost"}
        /\ task' = [task EXCEPT ![c][t] = Rests]
        /\ call' = call \/ \E hosts : Gathers(c, hosts)
    BY <1>4 DEF ReadResponse, Fails, Reports
  <2>2. \A d \in Calls : call'[d].at = call[d].at /\ call'[d].left = call[d].left
    BY <2>1, GathersKeeps DEF CInv
  <2>3. task'[c][t].at = "none"
    <3>1. task'[c][t] = Rests BY <1>1, <2>1
    <3> QED BY <3>1, RestsTask
  <2>4. \A d \in Calls, u \in Trackers : d # c \/ u # t => task'[d][u] = task[d][u]
    BY <1>1, <2>1
  <2>5. Rank(task'[c][t].at) < Rank(task[c][t].at) BY <2>1, <2>3, RankIs
  <2> QED BY <2>2, <2>4, <2>5
<1> QED BY <1>2, <1>3, <1>4 DEF TaskStep

LEMMA ResultNearer ==
  ASSUME CInv, NEW c \in Calls, ReadResult(c)
  PROVE  /\ Running(c) /\ (Returned(c)' \/ (call'[c].at = call[c].at /\ call'[c].left < call[c].left))
         /\ \A d \in Calls : d # c => call'[d] = call[d]
         /\ task' = task
<1>1. call \in [Calls -> CallStates] BY DEF CInv, Typed
<1>2. ASSUME NEW how \in {"ok", "failed"}, Returns(c, how)
      PROVE  Returned(c)' /\ \A d \in Calls : d # c => call'[d] = call[d]
  BY <1>1, <1>2 DEF Returns, Returned
<1>3. ASSUME call' = [call EXCEPT ![c].left = @ - 1]
      PROVE  /\ call'[c].at = call[c].at /\ call'[c].left < call[c].left
             /\ \A d \in Calls : d # c => call'[d] = call[d]
  BY <1>1, <1>3 DEF CallStates
<1> QED BY <1>2, <1>3 DEF ReadResult

LEMMA RankType == \A at \in Stages : Rank(at) \in Nat
BY DEF Stages, Rank

LEMMA CallsApproach == CInv /\ [Next]_vars => Approaches
<1> SUFFICES ASSUME CInv, [Next]_vars PROVE Approaches OBVIOUS
<1>r. \A c \in Calls, t \in Trackers : Rank(task[c][t].at) \in Nat
  BY RankType DEF CInv, Typed, Tasks
<1>l. \A c \in Calls : call[c].left \in Int BY DEF CInv, Typed, CallStates
<1> DEFINE Near(c) ==
      /\ call[c].at # "idle" =>
           /\ call'[c].at = call[c].at \/ (Running(c) /\ Returned(c)')
           /\ \A t \in Trackers : Rank(task'[c][t].at) <= Rank(task[c][t].at)
      /\ Running(c) /\ Running(c)' => call'[c].left <= call[c].left
<1>0. ASSUME NEW c \in Calls, call'[c] = call[c], task'[c] = task[c] PROVE Near(c)
  BY <1>0, <1>r, <1>l
<1>1. ASSUME NEW b \in Calls, Start(b), NEW c \in Calls PROVE Near(c)
  <2>1. CASE c = b BY <1>1, <2>1 DEF Start, Running
  <2>2. CASE c # b
    <3>1. call'[c] = call[c] /\ task'[c] = task[c] BY <1>1, <2>2 DEF Start, CInv, Typed
    <3> QED BY <3>1, <1>0
  <2> QED BY <2>1, <2>2
<1>2. ASSUME NEW b \in Calls, ReadResult(b), NEW c \in Calls PROVE Near(c)
  <2>1. task' = task BY <1>2, ResultNearer
  <2>2. CASE c # b
    <3>1. call'[c] = call[c] BY <1>2, <2>2, ResultNearer
    <3> QED BY <2>1, <3>1, <1>0
  <2>3. CASE c = b
    <3>1. Running(c) /\ (Returned(c)' \/ (call'[c].at = call[c].at /\ call'[c].left < call[c].left))
      BY <1>2, <2>3, ResultNearer
    <3>2. \A t \in Trackers : Rank(task'[c][t].at) <= Rank(task[c][t].at) BY <1>r, <2>1
    <3>3. Running(c)' => call'[c].left <= call[c].left
      <4>1. ~(Running(c)' /\ Returned(c)') BY DEF Running, Returned
      <4>2. Running(c)' => call'[c].left < call[c].left BY <3>1, <4>1
      <4>3. Running(c)' => call'[c].left \in Int BY <1>l, <1>2, <2>3, <3>1, <4>1, TypedNext DEF Typed, CallStates
      <4> QED BY <1>l, <4>2, <4>3
    <3> QED BY <3>1, <3>2, <3>3
  <2> QED BY <2>2, <2>3
<1>3. ASSUME NEW b \in Calls, NEW u \in Trackers, TaskStep(b, u), NEW c \in Calls PROVE Near(c)
  <2>1. call'[c].at = call[c].at /\ call'[c].left = call[c].left BY <1>3, TaskNearer
  <2>2. \A t \in Trackers : Rank(task'[c][t].at) <= Rank(task[c][t].at)
    <3> SUFFICES ASSUME NEW t \in Trackers PROVE Rank(task'[c][t].at) <= Rank(task[c][t].at)
      OBVIOUS
    <3>1. CASE c # b \/ t # u
      <4>1. task'[c][t] = task[c][t] BY <1>3, <3>1, TaskNearer
      <4> QED BY <4>1, <1>r
    <3>2. CASE c = b /\ t = u
      <4>1. Rank(task'[c][t].at) < Rank(task[c][t].at) BY <1>3, <3>2, TaskNearer
      <4>2. task'[c][t].at \in Stages BY TypedNext DEF Typed, Tasks
      <4> QED BY <4>1, <4>2, <1>r, RankType
    <3> QED BY <3>1, <3>2
  <2> QED BY <2>1, <2>2, <1>l
<1>4. ASSUME NEW u \in Trackers, Restart(u), NEW c \in Calls PROVE Near(c)
  <2>1. call' = call BY <1>4 DEF Restart
  <2>2. \A t \in Trackers : Rank(task'[c][t].at) <= Rank(task[c][t].at)
    <3> SUFFICES ASSUME NEW t \in Trackers PROVE Rank(task'[c][t].at) <= Rank(task[c][t].at)
      OBVIOUS
    <3>1. task'[c][t] = IF t = u /\ task[c][t].at \in {"asked", "answered"}
                        THEN [Rests EXCEPT !.at = "lost"] ELSE task[c][t]
      BY <1>4 DEF CInv, Typed, Restart
    <3>2. [Rests EXCEPT !.at = "lost"].at = "lost" BY DEF Rests
    <3> HIDE DEF Rests
    <3>3. CASE task'[c][t] = task[c][t] BY <3>3, <1>r
    <3>4. CASE task'[c][t].at = "lost" /\ task[c][t].at \in {"asked", "answered"}
      BY <3>4, RankIs
    <3> QED BY <3>1, <3>2, <3>3, <3>4
  <2> QED BY <2>1, <2>2, <1>l
<1>5. (\E t \in Collecting : GC(t)) \/ Tick \/ UNCHANGED vars => call' = call /\ task' = task
  BY DEF GC, Tick, vars
<1>6. \A c \in Calls : Near(c)
  <2> SUFFICES ASSUME NEW c \in Calls PROVE Near(c) OBVIOUS
  <2> HIDE DEF Near
  <2> QED BY <1>0, <1>1, <1>2, <1>3, <1>4, <1>5 DEF Next
<1>7. \A c \in Calls : ReadResult(c) => Returned(c)' \/ call'[c].left < call[c].left
  BY ResultNearer
<1>8. \A c \in Calls, t \in Trackers : TaskStep(c, t) => Rank(task'[c][t].at) < Rank(task[c][t].at)
  BY TaskNearer
<1> QED BY <1>6, <1>7, <1>8 DEF Approaches

(* A running call never waits for a result that nobody will report: it has *)
(* read all of them, has one to read, or has a goroutine at work; and      *)
(* calls and goroutines only come nearer to their end, each of their steps *)
(* by one of the few they have (eachTracker, whose channel has room for    *)
(* every result).  That calls return and leave nobody behind then is       *)
(* their being scheduled.                                                  *)
THEOREM CallsGoOn == Spec => []SomethingComes /\ [][Approaches]_vars
<1>1. CInv => SomethingComes BY SomethingIsToCome
<1>2. CInv /\ [Next]_vars => [Approaches]_vars BY CallsApproach
<1> QED BY <1>1, <1>2, CallsInductive, PTL DEF Spec

=============================================================================
