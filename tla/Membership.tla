----------------------------- MODULE Membership -----------------------------
(***************************************************************************)
(* dtrain groups: endpoints join a gossip topic, announce themselves again *)
(* and again, and keep a ranked view of who else is there.                 *)
(*                                                                         *)
(* Abstractions.  A handle <<p, n>> is the n-th Group that endpoint p      *)
(* joins under one name.  Members are ranked by their IDs, so that a view  *)
(* is a function from members to addresses.  The addresses of an endpoint  *)
(* are numbered as they change; 0 stands for none.  Gossip is external: it *)
(* may lose, delay and reorder announcements, and tells a topic of         *)
(* neighbours as it likes.  What AllReduce does with a view is in Dtrain.  *)
(***************************************************************************)
EXTENDS Naturals

CONSTANTS
  Peers,
  Settings,  \* what may happen: records of these bounds:
             \*   joins[p]: how often p joins
             \*   first[p], final[p]: the addresses of p when it starts and in the end
             \*   flaps: how often gossip loses a neighbour that is there
             \*   lags: how often gossip drops a subscriber
  Capacity,  \* of the channel of events
  Readers    \* endpoints whose program reads the events

ASSUME MembershipAssumption ==
  /\ Capacity \in Nat \ {0} /\ Readers \subseteq Peers
  /\ \A s \in Settings :
       /\ s.joins \in [Peers -> Nat] /\ s.flaps \in Nat /\ s.lags \in Nat
       /\ s.first \in [Peers -> Nat] /\ s.final \in [Peers -> Nat]
       /\ \A p \in Peers : s.first[p] <= s.final[p]

VARIABLES
  setting,    \* one of Settings, for good
  addr,       \* addr[p]: the address of p
  phase,      \* phase[g]: "new", "joining", "failed", "running" or "ended" (done is closed)
  cancelled,  \* handles that Close was called on
  open,       \* handles whose topic is open
  looping,    \* handles whose announceLoop runs
  members,    \* members[g]: the view of g
  registered, \* registered[p]: the handle the Handler of p serves, or <<>>
  unread,     \* unread[g]: how many events wait in the channel
  near,       \* near[g]: the neighbours that gossip told g of
  wire,       \* wire[p][g]: the addresses in announcements of p on their way to g
  flaps, lags,
  last,       \* history: the members in the last event that entered the channel
  missed      \* history: an event was dropped since

handle == <<phase, cancelled, open, looping>>
channel == <<unread, last, missed>>
network == <<near, flaps, lags>>
vars == <<setting, addr, handle, members, registered, channel, wire, network>>

Groups == UNION {{p} \X (1 .. s.joins[p]) : s \in Settings, p \in Peers}
Addresses == UNION {0 .. s.final[p] : s \in Settings, p \in Peers}
Running(g) == phase[g] = "running"
Present(p) == \E g \in open : g[1] = p
Nobody == [p \in {} |-> 0]

Init ==
  /\ setting \in Settings
  /\ addr = setting.first
  /\ phase = [g \in Groups |-> "new"]
  /\ cancelled = {} /\ open = {} /\ looping = {}
  /\ members = [g \in Groups |-> Nobody]
  /\ registered = [p \in Peers |-> <<>>]
  /\ unread = [g \in Groups |-> 0]
  /\ near = [g \in Groups |-> {}]
  /\ wire = [p \in Peers |-> [g \in Groups |-> {}]]
  /\ flaps = 0
  /\ lags = 0
  /\ last = [g \in Groups |-> Nobody]
  /\ missed = [g \in Groups |-> FALSE]

\* Variation: an event is sent without a look at the channel.
EmitsAll(g, n, view) ==
  /\ unread' = [unread EXCEPT ![g] = @ + n]
  /\ last' = IF n > 0 THEN [last EXCEPT ![g] = view] ELSE last
  /\ missed' = missed

\* emitLocked, n times: events that show the view; what does not fit is dropped.
Emits(g, n, view) ==
  LET kept == IF unread[g] + n <= Capacity THEN n ELSE Capacity - unread[g] IN
  /\ unread' = [unread EXCEPT ![g] = @ + kept]
  /\ last' = IF kept > 0 THEN [last EXCEPT ![g] = view] ELSE last
  /\ missed' = IF n > 0 THEN [missed EXCEPT ![g] = kept = 0] ELSE missed

\* Variation: sameMember compares the members, not their addresses.
RefreshedByName(g, view) == IF DOMAIN view # DOMAIN members[g] THEN 1 ELSE 0

\* refreshLocked: a Membership event only if the view changed.
Refreshed(g, view) == IF view # members[g] THEN 1 ELSE 0

\* Variation: what is known never changes.
EntryOnce(g, q, a) ==
  IF q \in DOMAIN members[g] /\ members[g][q] # 0 THEN members[g][q] ELSE a

\* setMember: an announcement or a neighbour without addresses keeps those known.
Entry(g, q, a) ==
  IF a = 0 /\ q \in DOMAIN members[g] THEN members[g][q] ELSE a
WithMember(g, q, a) ==
  [p \in DOMAIN members[g] \cup {q} |-> IF p = q THEN Entry(g, q, a) ELSE members[g][p]]
WithoutMember(g, q) == [p \in DOMAIN members[g] \ {q} |-> members[g][p]]

\* announce: of the other subscribers those in reach will receive it, at some time.
Others(g) == {h \in open : h[1] # g[1]}
Announced(g, reach) ==
  [wire EXCEPT ![g[1]] =
    [h \in Groups |-> IF h \in reach THEN @[h] \cup {addr[g[1]]} ELSE @[h]]]
Announces(g) == \E reach \in SUBSET Others(g) : wire' = Announced(g, reach)

\* topic.Close: what is on its way to the topic is lost.
TopicCloses(g) ==
  /\ open' = open \ {g}
  /\ near' = [near EXCEPT ![g] = {}]
  /\ wire' = [p \in Peers |-> [wire[p] EXCEPT ![g] = {}]]

\* JoinGroupWithHandler up to the announcement, by a program that joins one
\* group after the other; Close of the earlier one may still be running.
Join(g) ==
  /\ phase[g] = "new" /\ g[2] <= setting.joins[g[1]]
  /\ \A n \in 1 .. g[2] - 1 : phase[<<g[1], n>>] \notin {"new", "joining"}
  /\ members' = [members EXCEPT ![g] = [p \in {g[1]} |-> addr[p]]]
  /\ Emits(g, 1, members'[g])
  /\ \/ /\ phase' = [phase EXCEPT ![g] = "joining"]
        /\ open' = open \cup {g}
        /\ Announces(g)
     \/ /\ phase' = [phase EXCEPT ![g] = "failed"]
        /\ UNCHANGED <<open, wire>>
  /\ UNCHANGED <<setting, addr, cancelled, looping, registered, network>>

\* The rest of it: the Handler serves the group, and its goroutines start.
Register(g) ==
  /\ phase[g] = "joining"
  /\ registered' = [registered EXCEPT ![g[1]] = g]
  /\ phase' = [phase EXCEPT ![g] = "running"]
  /\ looping' = looping \cup {g}
  /\ UNCHANGED <<setting, addr, cancelled, open, members, channel, wire, network>>

\* handle: NeighborUp.
NeighborUp(g, q) ==
  /\ Running(g) /\ g \in open
  /\ q # g[1] /\ Present(q) /\ q \notin near[g]
  /\ near' = [near EXCEPT ![g] = @ \cup {q}]
  /\ members' = [members EXCEPT ![g] = WithMember(g, q, 0)]
  /\ Emits(g, Refreshed(g, members'[g]) + 1, members'[g])
  /\ Announces(g)
  /\ UNCHANGED <<setting, addr, handle, registered, flaps, lags>>

\* handle: NeighborDown, of one that left or of one that did not.
NeighborDown(g, q) ==
  /\ Running(g) /\ g \in open
  /\ q \in near[g]
  /\ \/ ~Present(q) /\ flaps' = flaps
     \/ Present(q) /\ flaps < setting.flaps /\ flaps' = flaps + 1
  /\ near' = [near EXCEPT ![g] = @ \ {q}]
  /\ members' = [members EXCEPT ![g] = WithoutMember(g, q)]
  /\ Emits(g, Refreshed(g, members'[g]) + 1, members'[g])
  /\ UNCHANGED <<setting, addr, handle, registered, wire, lags>>

\* handle: an announcement.
Receive(g, q, a) ==
  /\ Running(g) /\ g \in open
  /\ a \in wire[q][g]
  /\ wire' = [wire EXCEPT ![q][g] = @ \ {a}]
  /\ members' = [members EXCEPT ![g] = WithMember(g, q, a)]
  /\ Emits(g, Refreshed(g, members'[g]), members'[g])
  /\ UNCHANGED <<setting, addr, handle, registered, network>>

\* announceLoop: a tick; on a closed topic the announcement fails.
Announce(g) ==
  /\ g \in looping
  /\ IF g \in open THEN Announces(g) ELSE UNCHANGED wire
  /\ UNCHANGED <<setting, addr, handle, members, registered, channel, network>>

\* Variation: announceLoop returns and leaves the topic open.
LoopReturns(g) ==
  /\ g \in looping /\ g \in cancelled
  /\ looping' = looping \ {g}
  /\ UNCHANGED <<setting, addr, phase, cancelled, open, members, registered, channel, wire, network>>

\* announceLoop: the end, once Close cancelled it.
LoopEnds(g) ==
  /\ g \in looping /\ g \in cancelled
  /\ looping' = looping \ {g}
  /\ TopicCloses(g)
  /\ UNCHANGED <<setting, addr, phase, cancelled, members, registered, channel, flaps, lags>>

Close(g) ==
  /\ phase[g] \in {"running", "ended"} /\ g \notin cancelled
  /\ cancelled' = cancelled \cup {g}
  /\ UNCHANGED <<setting, addr, phase, open, looping, members, registered, channel, wire, network>>

\* Variation: the entry under the name is deleted, whosever it is.
UnregisteredByName(g) == [registered EXCEPT ![g[1]] = <<>>]

\* unregister, unless another group took the name.
Unregistered(g) ==
  IF registered[g[1]] = g THEN [registered EXCEPT ![g[1]] = <<>>] ELSE registered

\* run, once its topic closed: it is unregistered, and the events end.
RunEnds(g) ==
  /\ Running(g) /\ g \notin open
  /\ registered' = Unregistered(g)
  /\ phase' = [phase EXCEPT ![g] = "ended"]
  /\ UNCHANGED <<setting, addr, cancelled, open, looping, members, channel, wire, network>>

\* run, when gossip dropped the subscriber for not keeping up: a last Leave,
\* which shows nobody, and the same end; announceLoop goes on.
Lagged(g) ==
  /\ Running(g) /\ g \in open /\ lags < setting.lags
  /\ lags' = lags + 1
  /\ unread' = [unread EXCEPT ![g] = IF @ < Capacity THEN @ + 1 ELSE @]
  /\ registered' = Unregistered(g)
  /\ phase' = [phase EXCEPT ![g] = "ended"]
  /\ TopicCloses(g)
  /\ UNCHANGED <<setting, addr, cancelled, looping, members, last, missed, flaps>>

\* The program receives an event.
Read(g) ==
  /\ g[1] \in Readers /\ unread[g] > 0
  /\ unread' = [unread EXCEPT ![g] = @ - 1]
  /\ UNCHANGED <<setting, addr, handle, members, registered, last, missed, wire, network>>

\* The endpoint learns another address.
Move(p) ==
  /\ addr[p] < setting.final[p]
  /\ addr' = [addr EXCEPT ![p] = @ + 1]
  /\ UNCHANGED <<setting, handle, members, registered, channel, wire, network>>

Next ==
  \/ \E p \in Peers : Move(p)
  \/ \E g \in Groups :
       \/ Join(g) \/ Register(g) \/ Announce(g) \/ LoopEnds(g) \/ Close(g)
       \/ RunEnds(g) \/ Lagged(g) \/ Read(g)
       \/ \E q \in Peers :
            \/ NeighborUp(g, q) \/ NeighborDown(g, q)
            \/ \E a \in Addresses : Receive(g, q, a)

\* Goroutines run, gossip notices who left and delivers what it did not lose,
\* and some of the announcements reach everybody.
Fairness ==
  \A g \in Groups :
    /\ WF_vars(Register(g) \/ LoopEnds(g) \/ RunEnds(g))
    /\ WF_vars(Announce(g) /\ wire' = Announced(g, Others(g)))
    /\ \A q \in Peers \ {g[1]} :
         /\ WF_vars(~Present(q) /\ NeighborDown(g, q))
         /\ WF_vars(\E a \in Addresses : Receive(g, q, a))

Spec == Init /\ [][Next]_vars /\ Fairness
-----------------------------------------------------------------------------
\* The types; a channel never holds more events than fit, and a view only
\* addresses that its members had (Group, emitLocked).
TypeOK ==
  /\ setting \in Settings
  /\ \A p \in Peers : addr[p] \in 0 .. setting.final[p]
  /\ phase \in [Groups -> {"new", "joining", "failed", "running", "ended"}]
  /\ cancelled \subseteq Groups /\ open \subseteq Groups /\ looping \subseteq Groups
  /\ \A g \in Groups :
       /\ DOMAIN members[g] \subseteq Peers /\ DOMAIN last[g] \subseteq Peers
       /\ \A q \in DOMAIN members[g] : members[g][q] \in 0 .. addr[q]
       /\ unread[g] \in 0 .. Capacity
       /\ near[g] \subseteq Peers /\ missed[g] \in BOOLEAN
       /\ \A p \in Peers : wire[p][g] \subseteq 0 .. addr[p]
  /\ \A p \in Peers : registered[p] \in Groups \cup {<<>>}
  /\ flaps \in 0 .. setting.flaps /\ lags \in 0 .. setting.lags

\* A program that takes the members from the events it reads has the view of
\* its group once it read them all, unless the last event was dropped
\* (refreshLocked, emitLocked, handle).
EventsShowTheView ==
  \A g \in Groups : Running(g) /\ ~missed[g] => last[g] = members[g]

\* The end of a group never takes the Handler from the one that the endpoint
\* joined after it (register, unregister).
LatestIsServed ==
  \A g \in Groups :
    Running(g) /\ (\A h \in Groups : h[1] = g[1] /\ h[2] > g[2] =>
                     phase[h] \notin {"running", "ended"})
    => registered[g[1]] = g

\* Groups that stay find each other, with the addresses they came to have,
\* whatever gossip lost, reordered or told of neighbours (announceLoop, handle,
\* setMember).
StayingFindEachOther ==
  \A g \in Groups : \A q \in Peers \ {g[1]} :
    <>[](Running(g) /\ g \in open /\ \E h \in open \cap looping : h[1] = q)
    => <>[](q \in DOMAIN members[g] /\ members[g][q] = addr[q])

\* A neighbour that left is dropped from the view, unless an announcement of it
\* is still on its way (NeighborDown, removeMember).
DepartedAreDropped ==
  \A g \in Groups : \A q \in Peers :
    (Running(g) /\ g \in open /\ q \in near[g] /\ ~Present(q) /\ wire[q][g] = {})
    ~> (q \notin DOMAIN members[g] \/ Present(q) \/ ~Running(g) \/ g \notin open)

\* The views come to fit those who are there, in both respects.
ViewsSettle == StayingFindEachOther /\ DepartedAreDropped

\* Close returns: the group's goroutines end, and with them its events (Close,
\* announceLoop, run).
CloseReturns == \A g \in Groups : (g \in cancelled) ~> (phase[g] = "ended" /\ g \notin looping)
=============================================================================
