----------------------------- MODULE Discovery -----------------------------
(***************************************************************************)
(* contentdiscovery: hosts announce to several trackers at once what they  *)
(* can serve, and others ask them for it.  Each call of a client runs one  *)
(* goroutine per tracker, and returns with the first error; a tracker      *)
(* keeps the last announcement of each host and kind in memory.            *)
(*                                                                         *)
(* Abstractions.  There is one content, as trackers keep contents apart.   *)
(* An announcement is its host, kind and time; its signature is good.  All *)
(* clocks show one time.  A request is handled in one step, as the store   *)
(* is locked meanwhile.                                                    *)
(***************************************************************************)
EXTENDS Naturals, FiniteSets, Sequences

CONSTANTS
  Trackers,
  Calls,       \* calls of clients, each made once
  Plans,       \* for each call, what it asks of which trackers after which call, or None
  Expiry,      \* how long trackers keep an announcement; 0 for ever
  Limit,       \* how many announcements fit into a response
  Unreliable,  \* trackers whose connections may fail
  Restarting,  \* trackers that may restart, once
  Collecting,  \* trackers in a program that may call GC; content-tracker does not
  MaxTime,     \* bound: the last time
  None

ASSUME DiscoveryAssumption ==
  /\ Expiry \in Nat /\ Limit \in Nat /\ MaxTime \in Nat
  /\ IsFiniteSet(Trackers) /\ Collecting \subseteq Trackers
  /\ \A p \in Plans, c \in Calls : p[c] # None => p[c].trackers \subseteq Trackers

VARIABLES
  plan,       \* one of Plans, for good
  clock,
  store,      \* store[t]: the announcements that tracker t holds
  restarted,  \* trackers that restarted
  call,       \* call[c]: where call c is, and what its goroutines gathered
  task,       \* task[c][t]: the goroutine of c for t
  results,    \* results[c]: the channel of c: which of its goroutines succeeded
  put,        \* history: the calls whose announcement a tracker put in its store
  steady,     \* history: what a tracker held all the time since c was called
  seen        \* history: what a tracker held at some time since c was called

observed == <<put, steady, seen>>
vars == <<plan, clock, store, restarted, call, task, results, observed>>

Announces(c) == plan[c] # None /\ plan[c].op = "announce"
Asked(c) == plan[c].trackers
Rests == [at |-> "none", time |-> 0, reply |-> {}]

Init ==
  /\ plan \in Plans
  /\ clock = 0
  /\ store = [t \in Trackers |-> {}]
  /\ restarted = {}
  /\ call = [c \in Calls |-> [at |-> "idle", out |-> {}, left |-> 0]]
  /\ task = [c \in Calls |-> [t \in Trackers |-> Rests]]
  /\ results = [c \in Calls |-> <<>>]
  /\ put = {}
  /\ steady = [c \in Calls |-> {}]
  /\ seen = [c \in Calls |-> {}]

Running(c) == call[c].at = "running"
Returned(c) == call[c].at \in {"ok", "failed"}

(* The store of a tracker *)

\* Query's filter
Matches(c, a) == plan[c].complete => a.kind = "complete"

Matching(s, c) == UNION {{<<t, a>> : a \in {b \in s[t] : Matches(c, b)}} : t \in Asked(c)}
Asking == {c \in Calls : Running(c) /\ ~Announces(c)}

\* The stores become s; what running queries may see of them is recorded.
Stores(s) ==
  /\ store' = s
  /\ steady' = [c \in Calls |-> IF c \in Asking THEN steady[c] \cap Matching(s, c) ELSE steady[c]]
  /\ seen' = [c \in Calls |-> IF c \in Asking THEN seen[c] \cup Matching(s, c) ELSE seen[c]]

SameKey(a, b) == a.host = b.host /\ a.kind = b.kind

\* Variation: announcements of different times are kept side by side.
PutBeside(t, a) == Stores([store EXCEPT ![t] = @ \cup {a}])

\* PutAnnounce replaces the announcement under the same key, whatever its time.
PutAnnounce(t, a) == Stores([store EXCEPT ![t] = {b \in @ : ~SameKey(a, b)} \cup {a}])

Cutoff == IF clock < Expiry THEN 0 ELSE clock - Expiry

\* Variation: the subtraction is not guarded, and wraps.
GCWrapping(t) ==
  /\ Expiry # 0
  /\ Stores([store EXCEPT ![t] = {a \in @ : a.time >= (clock + 8 - Expiry) % 8}])
  /\ UNCHANGED <<clock, restarted, call, task, results, put>>

GC(t) ==
  /\ Expiry # 0
  /\ Stores([store EXCEPT ![t] = {a \in @ : a.time >= Cutoff}])
  /\ UNCHANGED <<clock, restarted, call, task, results, put>>

\* The tracker's process ends and starts with an empty store; what its
\* connections carried is lost.
Restart(t) ==
  /\ t \in Restarting \ restarted
  /\ restarted' = restarted \cup {t}
  /\ Stores([store EXCEPT ![t] = {}])
  /\ task' = [c \in Calls |-> [task[c] EXCEPT ![t] =
               IF @.at \in {"asked", "answered"} THEN [Rests EXCEPT !.at = "lost"] ELSE @]]
  /\ UNCHANGED <<clock, call, results, put>>

Tick ==
  /\ clock < MaxTime
  /\ clock' = clock + 1
  /\ UNCHANGED <<store, restarted, call, task, results, observed>>

(* The goroutines of a call *)

\* The goroutine takes the time, signs, connects and sends its request.
Ask(c, t) ==
  /\ task[c][t].at = "ready"
  /\ task' = [task EXCEPT ![c][t] = [Rests EXCEPT !.at = "asked", !.time = clock]]
  /\ UNCHANGED <<clock, store, restarted, call, results, observed>>

\* The tracker's handler, on a connection of the goroutine's own.
HandleAnnounce(c, t) ==
  /\ task[c][t].at = "asked"
  /\ Announces(c)
  /\ PutAnnounce(t, [host |-> plan[c].host, kind |-> plan[c].kind, time |-> task[c][t].time])
  /\ put' = IF Running(c) THEN put \cup {<<c, t>>} ELSE put
  /\ task' = [task EXCEPT ![c][t] = [Rests EXCEPT !.at = "answered"]]
  /\ UNCHANGED <<clock, restarted, call, results>>

HandleQuery(c, t) ==
  /\ task[c][t].at = "asked"
  /\ ~Announces(c)
  /\ task' = [task EXCEPT ![c][t] =
               [Rests EXCEPT !.at = "answered", !.reply = {a \in store[t] : Matches(c, a)}]]
  /\ UNCHANGED <<clock, store, restarted, call, results, observed>>

\* Variation: the channel has no room, so that somebody must be reading.
ReportsToReader(c, t, ok) ==
  /\ Running(c)
  /\ task' = [task EXCEPT ![c][t] = Rests]
  /\ results' = [results EXCEPT ![c] = Append(@, ok)]

\* The channel has room for every goroutine's result.
Reports(c, t, ok) ==
  /\ task' = [task EXCEPT ![c][t] = Rests]
  /\ results' = [results EXCEPT ![c] = IF Running(c) THEN Append(@, ok) ELSE @]

\* Variation: the answers of one tracker replace those of another.
Replaces(c, hosts) == call' = [call EXCEPT ![c].out = hosts]

Gathers(c, hosts) == call' = [call EXCEPT ![c].out = @ \cup hosts]

\* The goroutine reads its response: one beyond the limit is an error.
ReadResponse(c, t) ==
  LET reply == task[c][t].reply
  IN /\ task[c][t].at = "answered"
     /\ Reports(c, t, Cardinality(reply) <= Limit)
     /\ IF Running(c) /\ Cardinality(reply) <= Limit
        THEN Gathers(c, {<<t, a>> : a \in reply}) ELSE UNCHANGED call
     /\ UNCHANGED <<clock, store, restarted, observed>>

\* The context was cancelled before the request was sent, or the connection
\* failed.
Fails(c, t) ==
  /\ \/ Returned(c) /\ task[c][t].at \in {"ready", "asked"}
     \/ t \in Unreliable /\ task[c][t].at \in {"asked", "answered"}
     \/ task[c][t].at = "lost"
  /\ Reports(c, t, FALSE)
  /\ UNCHANGED <<clock, store, restarted, call, observed>>

(* The call *)

Start(c) ==
  /\ call[c].at = "idle"
  /\ plan[c] # None
  /\ plan[c].after # None => Returned(plan[c].after)
  /\ call' = [call EXCEPT ![c] = [at |-> "running", out |-> {}, left |-> Cardinality(Asked(c))]]
  /\ task' = [task EXCEPT ![c] = [t \in Trackers |->
               IF t \in Asked(c) THEN [Rests EXCEPT !.at = "ready"] ELSE Rests]]
  /\ steady' = [steady EXCEPT ![c] = IF Announces(c) THEN {} ELSE Matching(store, c)]
  /\ seen' = [seen EXCEPT ![c] = IF Announces(c) THEN {} ELSE Matching(store, c)]
  /\ UNCHANGED <<clock, store, restarted, results, put>>

Returns(c, how) ==
  /\ call' = [call EXCEPT ![c] = [at |-> how, out |-> {}, left |-> 0]]
  /\ results' = [results EXCEPT ![c] = <<>>]
  /\ put' = {p \in put : p[1] # c}
  /\ steady' = [steady EXCEPT ![c] = {}]
  /\ seen' = [seen EXCEPT ![c] = {}]

\* Variation: the first result decides.
ReadFirstResult(c) ==
  /\ Running(c)
  /\ results[c] # <<>>
  /\ Returns(c, IF Head(results[c]) THEN "ok" ELSE "failed")
  /\ UNCHANGED <<clock, store, restarted, task>>

\* eachTracker: the first error cancels the other goroutines and is returned.
ReadResult(c) ==
  /\ Running(c)
  /\ \/ call[c].left = 0 /\ Returns(c, "ok")
     \/ results[c] # <<>> /\ ~Head(results[c]) /\ Returns(c, "failed")
     \/ /\ results[c] # <<>> /\ Head(results[c])
        /\ call' = [call EXCEPT ![c].left = @ - 1]
        /\ results' = [results EXCEPT ![c] = Tail(@)]
        /\ UNCHANGED observed
  /\ UNCHANGED <<clock, store, restarted, task>>

TaskStep(c, t) ==
  Ask(c, t) \/ HandleAnnounce(c, t) \/ HandleQuery(c, t) \/ ReadResponse(c, t) \/ Fails(c, t)

Held == UNCHANGED plan

Next ==
  /\ Held
  /\ \/ \E c \in Calls : Start(c) \/ ReadResult(c) \/ \E t \in Trackers : TaskStep(c, t)
     \/ \E t \in Trackers : Restart(t)
     \/ \E t \in Collecting : GC(t)
     \/ Tick

\* Goroutines and trackers are scheduled.  GC is not: no program of the
\* repository calls it, so that nothing says that what expired is dropped.
Fairness ==
  /\ \A c \in Calls : WF_vars(Held /\ ReadResult(c))
  /\ \A c \in Calls, t \in Trackers : WF_vars(Held /\ TaskStep(c, t))

Spec == Init /\ [][Next]_vars /\ Fairness

-----------------------------------------------------------------------------
(* Properties *)

\* A store holds one announcement of a host and kind, and none from the
\* future; a call has as many results to come as goroutines and results.
TypeOK ==
  /\ \A t \in Trackers : \A a, b \in store[t] : SameKey(a, b) => a = b
  /\ \A t \in Trackers : \A a \in store[t] : a.time \in 0 .. clock
  /\ \A c \in Calls : Running(c) => call[c].left =
       Len(results[c]) + Cardinality({t \in Trackers : task[c][t] # Rests})

ReturnsOk(c) == Running(c) /\ call'[c].at = "ok"

\* AnnounceAll returns without an error only when every tracker has put the
\* announcement in its store ("AnnounceAll announces content to each tracker").
AnnouncedToAll(c) == Announces(c) => \A t \in Asked(c) : <<c, t>> \in put

\* QueryAll returns without an error only with all that any of the trackers
\* held meanwhile, and with nothing that it did not hold at some time
\* ("QueryAll asks every tracker for hosts announcing content").
AnswersAreWhole(c) == ~Announces(c) =>
  /\ steady[c] \subseteq call[c].out
  /\ call[c].out \subseteq seen[c]

\* A call that returns without an error did what it says at every tracker, even
\* where others of its goroutines failed first or last (eachTracker).
SuccessIsOfAll ==
  [][\A c \in Calls : ReturnsOk(c) => AnnouncedToAll(c) /\ AnswersAreWhole(c)]_vars

\* An announcement stays until it has expired, another takes its place, or
\* the tracker restarts: a GC drops nothing that is fresh, at both ends of the
\* clock, and PutAnnounce nothing of another host or kind.
FreshIsKept == [][\A t \in Trackers : \A a \in store[t] \ store'[t] :
  \/ a.time + Expiry < clock
  \/ \E b \in store'[t] \ store[t] : SameKey(a, b)
  \/ restarted' # restarted]_vars

\* A host makes its calls one after another when it starts a call only after
\* all of those before it.
Sequential(p, before) ==
  /\ \A c, d \in Calls :
       /\ c # d /\ p[c] # None /\ p[d] # None
       /\ p[c].op = "announce" /\ p[d].op = "announce" /\ p[c].host = p[d].host
       => <<c, d>> \in before \/ <<d, c>> \in before
  /\ \A c, d \in Calls : <<c, d>> \in before /\ p[d] # None =>
       p[d].after # None /\ (p[d].after = c \/ <<c, p[d].after>> \in before)

OneByOne == \A p \in Plans : \E before \in SUBSET (Calls \X Calls) : Sequential(p, before)

\* A host that makes its calls one after another does not have its newer
\* announcement replaced by an older one, unless one of them failed and left
\* goroutines behind (PutAnnounce does not compare times).
NewerStays == [][\A t \in Trackers : \A a \in store[t], b \in store'[t] :
  SameKey(a, b) /\ b.time < a.time =>
    \E c \in Calls : Announces(c) /\ plan[c].host = a.host /\ call[c].at = "failed"]_vars

\* Calls return, and no goroutine of one stays behind for ever, even when the
\* call returned before it (errc has room for every result).
Quiet == \A c \in Calls : ~Running(c) /\ \A t \in Trackers : task[c][t] = Rests
NoneStaysBehind == <>[]Quiet

=============================================================================
