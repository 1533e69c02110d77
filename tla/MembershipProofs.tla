-------------------------- MODULE MembershipProofs --------------------------
(***************************************************************************)
(* Proofs about Membership: the types, what a group's events show, which   *)
(* group of a name the Handler serves, and that Close waits for nothing    *)
(* that cannot end.                                                        *)
(***************************************************************************)
EXTENDS Membership, TLAPS

Phases == {"new", "joining", "failed", "running", "ended"}

Typed ==
  /\ setting \in Settings
  /\ addr \in [Peers -> Nat]
  /\ phase \in [Groups -> Phases]
  /\ cancelled \subseteq Groups /\ open \subseteq Groups /\ looping \subseteq Groups
  /\ DOMAIN members = Groups /\ DOMAIN last = Groups
  /\ registered \in [Peers -> Groups \cup {<<>>}]
  /\ unread \in [Groups -> 0 .. Capacity]
  /\ missed \in [Groups -> BOOLEAN]
  /\ near \in [Groups -> SUBSET Peers]
  /\ wire \in [Peers -> [Groups -> SUBSET Nat]]
  /\ flaps \in 0 .. setting.flaps /\ lags \in 0 .. setting.lags

\* Views and announcements hold addresses that their members had.
AddressesFit ==
  /\ \A p \in Peers : addr[p] <= setting.final[p]
  /\ \A g \in Groups : /\ DOMAIN members[g] \subseteq Peers /\ DOMAIN last[g] \subseteq Peers
                       /\ \A q \in DOMAIN members[g] : members[g][q] \in 0 .. addr[q]
  /\ \A p \in Peers, g \in Groups : wire[p][g] \subseteq 0 .. addr[p]

\* The last event shows the view from the moment the group is made.
Shown(g) == phase[g] \in {"joining", "running"} /\ ~missed[g] => last[g] = members[g]

\* An endpoint joins its groups one after the other.
InTurn ==
  \A g, h \in Groups : g[1] = h[1] /\ h[2] < g[2] /\ phase[g] # "new" => phase[h] \notin {"new", "joining"}

MInv == Typed /\ AddressesFit /\ (\A g \in Groups : Shown(g)) /\ InTurn /\ LatestIsServed

LEMMA GroupIsPair ==
  ASSUME NEW g \in Groups
  PROVE  g[1] \in Peers /\ g[2] \in Nat /\ g[2] > 0 /\ g = <<g[1], g[2]>>
         /\ \A n \in 1 .. g[2] - 1 : <<g[1], n>> \in Groups
<1>1. PICK s \in Settings, p \in Peers : g \in {p} \X (1 .. s.joins[p])
  BY DEF Groups
<1>2. s.joins[p] \in Nat
  BY MembershipAssumption
<1>3. PICK m \in 1 .. s.joins[p] : g = <<p, m>>
  BY <1>1
<1>4. g[1] = p /\ g[2] = m /\ m \in Nat /\ m > 0 /\ m <= s.joins[p]
  BY <1>2, <1>3
<1>5. ASSUME NEW n \in 1 .. m - 1 PROVE <<p, n>> \in Groups
  <2>1. n \in 1 .. s.joins[p]
    BY <1>2, <1>4
  <2>2. <<p, n>> \in {p} \X (1 .. s.joins[p])
    BY <2>1
  <2> DEFINE Joined == {{q} \X (1 .. t.joins[q]) : t \in Settings, q \in Peers}
  <2>3. {p} \X (1 .. s.joins[p]) \in Joined
    OBVIOUS
  <2> HIDE DEF Joined
  <2>4. <<p, n>> \in UNION Joined
    BY <2>2, <2>3
  <2> QED
    BY <2>4 DEF Groups, Joined
<1> QED
  BY <1>3, <1>4, <1>5

LEMMA InitHolds == Init => MInv
<1> SUFFICES ASSUME Init PROVE MInv
  OBVIOUS
<1>1. /\ Capacity \in Nat /\ setting \in Settings /\ setting.first \in [Peers -> Nat]
      /\ \A p \in Peers : setting.first[p] <= setting.final[p]
      /\ setting.flaps \in Nat /\ setting.lags \in Nat
  BY MembershipAssumption DEF Init
<1>2. Typed
  BY <1>1 DEF Init, Typed, Phases, Nobody
<1>3. AddressesFit
  BY <1>1 DEF Init, AddressesFit, Nobody
<1>4. (\A g \in Groups : Shown(g)) /\ InTurn /\ LatestIsServed
  BY DEF Init, Shown, InTurn, LatestIsServed, Running
<1> QED
  BY <1>2, <1>3, <1>4 DEF MInv

(* Operators                                                              *)

LEMMA EmitsWell ==
  ASSUME Typed, NEW g \in Groups, NEW n \in Nat, NEW view, DOMAIN view \subseteq Peers, Emits(g, n, view)
  PROVE  /\ unread' \in [Groups -> 0 .. Capacity]
         /\ missed' \in [Groups -> BOOLEAN]
         /\ DOMAIN last' = Groups
         /\ \A h \in Groups \ {g} : last'[h] = last[h] /\ missed'[h] = missed[h]
         /\ n = 0 => last'[g] = last[g] /\ missed'[g] = missed[g]
         /\ n > 0 => missed'[g] \/ last'[g] = view
         /\ last'[g] = last[g] \/ last'[g] = view
<1> DEFINE kept == IF unread[g] + n <= Capacity THEN n ELSE Capacity - unread[g]
<1>1. Capacity \in Nat /\ unread[g] \in 0 .. Capacity
  BY MembershipAssumption DEF Typed
<1>2. kept \in Nat /\ unread[g] + kept \in 0 .. Capacity /\ (n = 0 => kept = 0)
  BY <1>1
<1>3. /\ unread' = [unread EXCEPT ![g] = @ + kept]
      /\ last' = IF kept > 0 THEN [last EXCEPT ![g] = view] ELSE last
      /\ missed' = IF n > 0 THEN [missed EXCEPT ![g] = kept = 0] ELSE missed
  BY DEF Emits
<1> HIDE DEF kept
<1>4. unread' \in [Groups -> 0 .. Capacity]
  BY <1>2, <1>3 DEF Typed
<1>5. CASE n = 0
  <2>1. last' = last /\ missed' = missed
    BY <1>2, <1>3, <1>5
  <2> QED
    BY <1>4, <1>5, <2>1 DEF Typed
<1>6. CASE n > 0
  <2>1. missed' = [missed EXCEPT ![g] = (kept = 0)]
    BY <1>3, <1>6
  <2>2. missed' \in [Groups -> BOOLEAN] /\ \A h \in Groups \ {g} : missed'[h] = missed[h]
    BY <2>1 DEF Typed
  <2>3. missed'[g] <=> kept = 0
    BY <2>1 DEF Typed
  <2>4. CASE kept = 0
    <3>1. last' = last
      BY <1>3, <2>4
    <3>2. missed'[g] /\ n # 0
      BY <1>6, <2>3, <2>4
    <3>3. DOMAIN last' = Groups
      BY <3>1 DEF Typed
    <3> QED
      BY <1>4, <2>2, <3>1, <3>2, <3>3
  <2>5. CASE kept # 0
    <3>1. last' = [last EXCEPT ![g] = view]
      BY <1>2, <1>3, <2>5
    <3>2. last'[g] = view /\ DOMAIN last' = Groups /\ \A h \in Groups \ {g} : last'[h] = last[h]
      BY <3>1 DEF Typed
    <3> QED
      BY <1>4, <1>6, <2>2, <3>2
  <2> QED
    BY <2>4, <2>5
<1> QED
  BY <1>5, <1>6

LEMMA AnnouncesWell ==
  ASSUME Typed, NEW g \in Groups, Announces(g)
  PROVE  /\ wire' \in [Peers -> [Groups -> SUBSET Nat]]
         /\ \A p \in Peers, h \in Groups : wire'[p][h] \subseteq wire[p][h] \cup {addr[p]}
<1>1. g[1] \in Peers
  BY GroupIsPair
<1>2. PICK reach \in SUBSET Others(g) : wire' = Announced(g, reach)
  BY DEF Announces
<1> DEFINE row == [h \in Groups |-> IF h \in reach THEN wire[g[1]][h] \cup {addr[g[1]]} ELSE wire[g[1]][h]]
<1>3. wire' = [wire EXCEPT ![g[1]] = row]
  BY <1>2 DEF Announced
<1>4. row \in [Groups -> SUBSET Nat] /\ \A h \in Groups : row[h] \subseteq wire[g[1]][h] \cup {addr[g[1]]}
  BY <1>1 DEF Typed
<1> HIDE DEF row
<1> QED
  BY <1>1, <1>3, <1>4 DEF Typed

LEMMA ClosesWell ==
  ASSUME Typed, NEW g \in Groups, TopicCloses(g)
  PROVE  /\ open' \subseteq Groups
         /\ near' \in [Groups -> SUBSET Peers]
         /\ wire' \in [Peers -> [Groups -> SUBSET Nat]]
         /\ \A p \in Peers, h \in Groups : wire'[p][h] \subseteq wire[p][h]
<1>1. /\ open' = open \ {g} /\ near' = [near EXCEPT ![g] = {}]
      /\ wire' = [p \in Peers |-> [wire[p] EXCEPT ![g] = {}]]
  BY DEF TopicCloses
<1>2. \A p \in Peers : wire[p] \in [Groups -> SUBSET Nat]
  BY DEF Typed
<1> QED
  BY <1>1, <1>2 DEF Typed

LEMMA WithMemberIs ==
  ASSUME NEW g, NEW q, NEW a
  PROVE  /\ DOMAIN WithMember(g, q, a) = DOMAIN members[g] \cup {q}
         /\ WithMember(g, q, a)[q] = Entry(g, q, a)
         /\ \A p \in DOMAIN members[g] \ {q} : WithMember(g, q, a)[p] = members[g][p]
BY DEF WithMember

(* Every step of one group                                                *)

\* What a step must leave right, of the group it is about and of the others.
LEMMA OneGroup ==
  ASSUME MInv, NEW g \in Groups, Typed', AddressesFit',
         \A h \in Groups \ {g} : /\ phase'[h] = phase[h] /\ members'[h] = members[h]
                                 /\ last'[h] = last[h] /\ missed'[h] = missed[h],
         Shown(g)',
         phase'[g] \in {"new", "joining"} => phase[g] = phase'[g] \/ phase[g] = "new",
         phase'[g] # "new" => phase[g] # "new" \/
           \A h \in Groups : h[1] = g[1] /\ h[2] < g[2] => phase[h] \notin {"new", "joining"},
         LatestIsServed'
  PROVE  MInv'
<1>1. \A h \in Groups : Shown(h)'
  BY DEF MInv, Shown
<1>2. ASSUME NEW h \in Groups, NEW k \in Groups, h[1] = k[1], k[2] < h[2], phase'[h] # "new"
      PROVE  phase'[k] \notin {"new", "joining"}
  <2>1. h # k
    BY <1>2, GroupIsPair
  <2>2. CASE k = g
    <3>1. phase[h] # "new"
      BY <1>2, <2>1, <2>2
    <3>2. phase[g] \notin {"new", "joining"}
      BY <1>2, <2>2, <3>1 DEF MInv, InTurn
    <3> QED
      BY <2>2, <3>2
  <2>3. CASE k # g
    <3>1. phase'[k] = phase[k]
      BY <2>3
    <3>2. CASE h = g
      BY <1>2, <3>1, <3>2 DEF MInv, InTurn
    <3>3. CASE h # g
      BY <1>2, <3>1, <3>3 DEF MInv, InTurn
    <3> QED
      BY <3>2, <3>3
  <2> QED
    BY <2>2, <2>3
<1>3. InTurn'
  BY <1>2 DEF InTurn
<1> QED
  BY <1>1, <1>3 DEF MInv

\* A step that changes no phase keeps the Handler right.
LEMMA StillServed ==
  ASSUME MInv, UNCHANGED <<phase, registered>>
  PROVE  LatestIsServed'
BY DEF MInv, LatestIsServed, Running

LEMMA JoinHolds ==
  ASSUME MInv, NEW g \in Groups, Join(g)
  PROVE  MInv'
<1> DEFINE view == [p \in {g[1]} |-> addr[p]]
<1>1. Typed /\ g[1] \in Peers /\ AddressesFit /\ addr[g[1]] \in Nat
  BY GroupIsPair DEF MInv, Typed
<1>2. /\ members' = [members EXCEPT ![g] = view] /\ phase[g] = "new" /\ g[2] <= setting.joins[g[1]]
      /\ \A n \in 1 .. g[2] - 1 : phase[<<g[1], n>>] \notin {"new", "joining"}
      /\ Emits(g, 1, members'[g])
      /\ phase' = [phase EXCEPT ![g] = "joining"] \/ phase' = [phase EXCEPT ![g] = "failed"]
      /\ open' \subseteq open \cup {g}
      /\ Announces(g) \/ wire' = wire
      /\ UNCHANGED <<setting, addr, cancelled, looping, registered, near, flaps, lags>>
  BY DEF Join, network
<1>3. DOMAIN members' = Groups /\ members'[g] = view /\ \A h \in Groups \ {g} : members'[h] = members[h]
  BY <1>1, <1>2 DEF Typed
<1>4. DOMAIN view \subseteq Peers /\ \A q \in DOMAIN view : view[q] \in 0 .. addr[q]
  BY <1>1
<1> HIDE DEF view
<1>5. Emits(g, 1, view)
  BY <1>2, <1>3
<1>6. /\ unread' \in [Groups -> 0 .. Capacity]
      /\ missed' \in [Groups -> BOOLEAN]
      /\ DOMAIN last' = Groups
      /\ \A h \in Groups \ {g} : last'[h] = last[h] /\ missed'[h] = missed[h]
      /\ missed'[g] \/ last'[g] = view
      /\ last'[g] = last[g] \/ last'[g] = view
  BY <1>1, <1>4, <1>5, EmitsWell
<1>7. /\ wire' \in [Peers -> [Groups -> SUBSET Nat]]
      /\ \A p \in Peers, h \in Groups : wire'[p][h] \subseteq wire[p][h] \cup {addr[p]}
  BY <1>1, <1>2, AnnouncesWell DEF Typed
<1>8. /\ phase' \in [Groups -> Phases] /\ phase'[g] \in {"joining", "failed"}
      /\ \A h \in Groups \ {g} : phase'[h] = phase[h]
  BY <1>1, <1>2 DEF Typed, Phases
<1>9. Typed'
  BY <1>1, <1>2, <1>3, <1>6, <1>7, <1>8 DEF Typed
<1>10. AddressesFit'
  <2>1. \A p \in Peers, h \in Groups : wire'[p][h] \subseteq 0 .. addr[p]
    BY <1>1, <1>7 DEF AddressesFit, Typed
  <2>2. \A h \in Groups : /\ DOMAIN members'[h] \subseteq Peers /\ DOMAIN last'[h] \subseteq Peers
                          /\ \A q \in DOMAIN members'[h] : members'[h][q] \in 0 .. addr[q]
    BY <1>1, <1>3, <1>4, <1>6 DEF AddressesFit
  <2> QED
    BY <1>1, <1>2, <2>1, <2>2 DEF AddressesFit
<1>11. Shown(g)'
  BY <1>3, <1>6 DEF Shown
<1>12. \A h \in Groups : h[1] = g[1] /\ h[2] < g[2] => phase[h] \notin {"new", "joining"}
  <2> SUFFICES ASSUME NEW h \in Groups, h[1] = g[1], h[2] < g[2]
               PROVE  phase[h] \notin {"new", "joining"}
    OBVIOUS
  <2>1. h[2] \in 1 .. g[2] - 1 /\ h = <<g[1], h[2]>>
    BY GroupIsPair
  <2> QED
    BY <1>2, <2>1
<1>13. LatestIsServed'
  <2> SUFFICES ASSUME NEW h \in Groups, phase'[h] = "running",
                      \A k \in Groups : k[1] = h[1] /\ k[2] > h[2] => phase'[k] \notin {"running", "ended"}
               PROVE  registered'[h[1]] = h
    BY DEF LatestIsServed, Running
  <2>1. phase[h] = "running" /\ \A k \in Groups : k[1] = h[1] /\ k[2] > h[2] => phase[k] \notin {"running", "ended"}
    BY <1>2, <1>8
  <2> QED
    BY <1>2, <2>1 DEF MInv, LatestIsServed, Running
<1> QED
  BY <1>2, <1>3, <1>6, <1>8, <1>9, <1>10, <1>11, <1>12, <1>13, OneGroup

\* A step of run: the view changes, and events tell of it.
LEMMA ViewStep ==
  ASSUME MInv, NEW g \in Groups, NEW n \in Nat, NEW view,
         members' = [members EXCEPT ![g] = view], Emits(g, n, view),
         DOMAIN view \subseteq Peers, \A q \in DOMAIN view : view[q] \in 0 .. addr[q],
         n > 0 \/ view = members[g],
         UNCHANGED <<setting, addr, phase, cancelled, open, looping, registered>>,
         near' \in [Groups -> SUBSET Peers],
         wire' \in [Peers -> [Groups -> SUBSET Nat]],
         \A p \in Peers, h \in Groups : wire'[p][h] \subseteq wire[p][h] \cup {addr[p]},
         flaps' \in 0 .. setting.flaps, lags' \in 0 .. setting.lags
  PROVE  MInv'
<1>1. Typed /\ AddressesFit
  BY DEF MInv
<1>2. DOMAIN members' = Groups /\ members'[g] = view /\ \A h \in Groups \ {g} : members'[h] = members[h]
  BY <1>1 DEF Typed
<1>3. /\ unread' \in [Groups -> 0 .. Capacity]
      /\ missed' \in [Groups -> BOOLEAN]
      /\ DOMAIN last' = Groups
      /\ \A h \in Groups \ {g} : last'[h] = last[h] /\ missed'[h] = missed[h]
      /\ n = 0 => last'[g] = last[g] /\ missed'[g] = missed[g]
      /\ n > 0 => missed'[g] \/ last'[g] = view
      /\ last'[g] = last[g] \/ last'[g] = view
  BY <1>1, EmitsWell
<1>4. Typed'
  BY <1>1, <1>2, <1>3 DEF Typed
<1>5. AddressesFit'
  <2>1. \A p \in Peers, h \in Groups : wire'[p][h] \subseteq 0 .. addr[p]
    BY <1>1 DEF AddressesFit, Typed
  <2>2. \A h \in Groups : /\ DOMAIN members'[h] \subseteq Peers /\ DOMAIN last'[h] \subseteq Peers
                          /\ \A q \in DOMAIN members'[h] : members'[h][q] \in 0 .. addr[q]
    BY <1>1, <1>2, <1>3 DEF AddressesFit
  <2> QED
    BY <1>1, <2>1, <2>2 DEF AddressesFit
<1>6. Shown(g)'
  <2>1. CASE n > 0
    BY <1>2, <1>3, <2>1 DEF Shown
  <2>2. CASE n = 0
    BY <1>2, <1>3, <2>2 DEF Shown, MInv
  <2> QED
    BY <2>1, <2>2
<1>7. LatestIsServed'
  BY StillServed
<1>8. phase'[g] = phase[g]
  OBVIOUS
<1> QED
  BY <1>2, <1>3, <1>4, <1>5, <1>6, <1>7, <1>8, OneGroup

LEMMA MemberFits ==
  ASSUME MInv, NEW g \in Groups, NEW q \in Peers, NEW a \in 0 .. addr[q]
  PROVE  /\ DOMAIN WithMember(g, q, a) \subseteq Peers
         /\ \A p \in DOMAIN WithMember(g, q, a) : WithMember(g, q, a)[p] \in 0 .. addr[p]
<1>1. DOMAIN members[g] \subseteq Peers /\ \A p \in DOMAIN members[g] : members[g][p] \in 0 .. addr[p]
  BY DEF MInv, AddressesFit
<1>2. Entry(g, q, a) \in 0 .. addr[q]
  BY <1>1 DEF Entry
<1> DEFINE view == WithMember(g, q, a)
<1>3. /\ DOMAIN view = DOMAIN members[g] \cup {q} /\ view[q] = Entry(g, q, a)
      /\ \A p \in DOMAIN members[g] \ {q} : view[p] = members[g][p]
  BY DEF WithMember
<1> HIDE DEF view
<1>4. ASSUME NEW p \in DOMAIN view PROVE view[p] \in 0 .. addr[p]
  <2>1. CASE p = q
    BY <1>2, <1>3, <2>1
  <2>2. CASE p # q
    <3>1. p \in DOMAIN members[g] \ {q}
      BY <1>3, <2>2
    <3>2. view[p] = members[g][p]
      BY <1>3, <3>1
    <3> QED
      BY <1>1, <3>1, <3>2
  <2> QED
    BY <2>1, <2>2
<1>5. DOMAIN view \subseteq Peers
  BY <1>1, <1>3
<1> QED
  BY <1>4, <1>5 DEF view

LEMMA NeighborUpHolds ==
  ASSUME MInv, NEW g \in Groups, NEW q \in Peers, NeighborUp(g, q)
  PROVE  MInv'
<1> DEFINE view == WithMember(g, q, 0)
           n == Refreshed(g, view) + 1
<1>1. Typed /\ 0 \in 0 .. addr[q]
  BY DEF MInv, Typed
<1>2. DOMAIN view \subseteq Peers /\ \A p \in DOMAIN view : view[p] \in 0 .. addr[p]
  BY <1>1, MemberFits
<1>3. n \in Nat /\ n > 0
  BY DEF Refreshed
<1>4. members' = [members EXCEPT ![g] = view] /\ members'[g] = view
  BY <1>1 DEF NeighborUp, Typed
<1>5. Emits(g, n, view)
  BY <1>4 DEF NeighborUp
<1>6. /\ Announces(g) /\ near' = [near EXCEPT ![g] = @ \cup {q}]
      /\ UNCHANGED <<setting, addr, phase, cancelled, open, looping, registered, flaps, lags>>
  BY DEF NeighborUp, handle
<1>7. near' \in [Groups -> SUBSET Peers] /\ flaps' \in 0 .. setting.flaps /\ lags' \in 0 .. setting.lags
  BY <1>1, <1>6 DEF Typed
<1>8. /\ wire' \in [Peers -> [Groups -> SUBSET Nat]]
      /\ \A p \in Peers, h \in Groups : wire'[p][h] \subseteq wire[p][h] \cup {addr[p]}
  BY <1>1, <1>6, AnnouncesWell
<1> HIDE DEF view, n
<1> QED
  BY <1>2, <1>3, <1>4, <1>5, <1>6, <1>7, <1>8, ViewStep

LEMMA NeighborDownHolds ==
  ASSUME MInv, NEW g \in Groups, NEW q \in Peers, NeighborDown(g, q)
  PROVE  MInv'
<1> DEFINE view == WithoutMember(g, q)
           n == Refreshed(g, view) + 1
<1>1. Typed /\ AddressesFit /\ setting.flaps \in Nat
  BY MembershipAssumption DEF MInv, Typed
<1>2. DOMAIN view \subseteq Peers /\ \A p \in DOMAIN view : view[p] \in 0 .. addr[p]
  BY <1>1 DEF WithoutMember, AddressesFit
<1>3. n \in Nat /\ n > 0
  BY DEF Refreshed
<1>4. members' = [members EXCEPT ![g] = view] /\ members'[g] = view
  BY <1>1 DEF NeighborDown, Typed
<1>5. Emits(g, n, view)
  BY <1>4 DEF NeighborDown
<1>6. /\ near' = [near EXCEPT ![g] = @ \ {q}]
      /\ flaps' = flaps \/ (flaps < setting.flaps /\ flaps' = flaps + 1)
      /\ UNCHANGED <<setting, addr, phase, cancelled, open, looping, registered, wire, lags>>
  BY DEF NeighborDown, handle
<1>7. near' \in [Groups -> SUBSET Peers] /\ flaps' \in 0 .. setting.flaps /\ lags' \in 0 .. setting.lags
  BY <1>1, <1>6 DEF Typed
<1>8. /\ wire' \in [Peers -> [Groups -> SUBSET Nat]]
      /\ \A p \in Peers, h \in Groups : wire'[p][h] \subseteq wire[p][h] \cup {addr[p]}
  BY <1>1, <1>6 DEF Typed
<1> HIDE DEF view, n
<1> QED
  BY <1>2, <1>3, <1>4, <1>5, <1>6, <1>7, <1>8, ViewStep

LEMMA ReceiveHolds ==
  ASSUME MInv, NEW g \in Groups, NEW q \in Peers, NEW a, Receive(g, q, a)
  PROVE  MInv'
<1> DEFINE view == WithMember(g, q, a)
           n == Refreshed(g, view)
<1>1. Typed /\ a \in 0 .. addr[q]
  BY DEF MInv, AddressesFit, Receive
<1>2. DOMAIN view \subseteq Peers /\ \A p \in DOMAIN view : view[p] \in 0 .. addr[p]
  BY <1>1, MemberFits
<1>3. n \in Nat /\ (n > 0 \/ view = members[g])
  BY DEF Refreshed
<1>4. members' = [members EXCEPT ![g] = view] /\ members'[g] = view
  BY <1>1 DEF Receive, Typed
<1>5. Emits(g, n, view)
  BY <1>4 DEF Receive
<1>6. /\ wire' = [wire EXCEPT ![q][g] = @ \ {a}]
      /\ UNCHANGED <<setting, addr, phase, cancelled, open, looping, registered, near, flaps, lags>>
  BY DEF Receive, handle, network
<1>7. near' \in [Groups -> SUBSET Peers] /\ flaps' \in 0 .. setting.flaps /\ lags' \in 0 .. setting.lags
  BY <1>1, <1>6 DEF Typed
<1>8. /\ wire' \in [Peers -> [Groups -> SUBSET Nat]]
      /\ \A p \in Peers, h \in Groups : wire'[p][h] \subseteq wire[p][h] \cup {addr[p]}
  BY <1>1, <1>6 DEF Typed
<1> HIDE DEF view, n
<1> QED
  BY <1>2, <1>3, <1>4, <1>5, <1>6, <1>7, <1>8, ViewStep

\* Steps that change neither views nor phases nor what was told of them.
LEMMA OtherStep ==
  ASSUME MInv, Typed',
         UNCHANGED <<setting, phase, members, registered, last, missed>>,
         \A p \in Peers : addr[p] <= addr'[p] /\ addr'[p] <= setting.final[p],
         \A p \in Peers, h \in Groups : wire'[p][h] \subseteq wire[p][h] \cup {addr[p]}
  PROVE  MInv'
<1>1. AddressesFit'
  <2>1. \A p \in Peers : addr[p] \in Nat /\ addr'[p] \in Nat
    BY DEF MInv, Typed
  <2>2. \A p \in Peers : addr[p] \in 0 .. addr'[p] /\ \A a \in 0 .. addr[p] : a \in 0 .. addr'[p]
    BY <2>1
  <2>3. \A p \in Peers, h \in Groups : wire'[p][h] \subseteq 0 .. addr'[p]
    BY <2>2 DEF MInv, AddressesFit
  <2> QED
    BY <2>2, <2>3 DEF MInv, AddressesFit
<1> QED
  BY <1>1, StillServed DEF MInv, Shown, InTurn

LEMMA RegisterHolds ==
  ASSUME MInv, NEW g \in Groups, Register(g)
  PROVE  MInv'
<1>1. Typed /\ g[1] \in Peers
  BY GroupIsPair DEF MInv
<1>2. /\ phase[g] = "joining" /\ phase' = [phase EXCEPT ![g] = "running"]
      /\ registered' = [registered EXCEPT ![g[1]] = g] /\ looping' = looping \cup {g}
      /\ UNCHANGED <<setting, addr, cancelled, open, members, unread, last, missed, wire, near, flaps, lags>>
  BY DEF Register, channel, network
<1>3. /\ phase' \in [Groups -> Phases] /\ phase'[g] = "running"
      /\ \A h \in Groups \ {g} : phase'[h] = phase[h]
  BY <1>1, <1>2 DEF Typed, Phases
<1>4. Typed'
  BY <1>1, <1>2, <1>3 DEF Typed
<1>5. AddressesFit'
  BY <1>2 DEF MInv, AddressesFit
<1>6. Shown(g)'
  BY <1>2 DEF MInv, Shown
<1>7. registered'[g[1]] = g /\ \A p \in Peers : p # g[1] => registered'[p] = registered[p]
  BY <1>1, <1>2 DEF Typed
<1>8. LatestIsServed'
  <2> SUFFICES ASSUME NEW h \in Groups, phase'[h] = "running",
                      \A k \in Groups : k[1] = h[1] /\ k[2] > h[2] => phase'[k] \notin {"running", "ended"}
               PROVE  registered'[h[1]] = h
    BY DEF LatestIsServed, Running
  <2>1. CASE h = g
    BY <1>7, <2>1
  <2>2. CASE h # g /\ h[1] = g[1]
    <3>1. phase[h] = "running" /\ ~(g[2] > h[2])
      BY <1>3, <2>2
    <3>2. g[2] < h[2]
      BY <2>2, <3>1, GroupIsPair
    <3> QED
      BY <1>2, <2>2, <3>1, <3>2 DEF MInv, InTurn
  <2>3. CASE h # g /\ h[1] # g[1]
    <3>1. phase[h] = "running" /\ \A k \in Groups : k[1] = h[1] /\ k[2] > h[2] => phase[k] \notin {"running", "ended"}
      BY <1>3, <2>3
    <3>2. registered[h[1]] = h
      BY <3>1 DEF MInv, LatestIsServed, Running
    <3> QED
      BY <1>7, <2>3, <3>2, GroupIsPair
  <2> QED
    BY <2>1, <2>2, <2>3
<1> QED
  BY <1>2, <1>3, <1>4, <1>5, <1>6, <1>8, OneGroup

\* The end of run, for either reason.
LEMMA GroupEnds ==
  ASSUME MInv, NEW g \in Groups, phase[g] = "running", phase' = [phase EXCEPT ![g] = "ended"],
         registered' = Unregistered(g),
         UNCHANGED <<setting, addr, members, last, missed>>,
         cancelled' \subseteq Groups, open' \subseteq Groups, looping' \subseteq Groups,
         unread' \in [Groups -> 0 .. Capacity], near' \in [Groups -> SUBSET Peers],
         wire' \in [Peers -> [Groups -> SUBSET Nat]],
         \A p \in Peers, h \in Groups : wire'[p][h] \subseteq wire[p][h],
         flaps' \in 0 .. setting.flaps, lags' \in 0 .. setting.lags
  PROVE  MInv'
<1>1. Typed /\ g[1] \in Peers
  BY GroupIsPair DEF MInv
<1>2. /\ phase' \in [Groups -> Phases] /\ phase'[g] = "ended"
      /\ \A h \in Groups \ {g} : phase'[h] = phase[h]
  BY <1>1 DEF Typed, Phases
<1>3. /\ registered' \in [Peers -> Groups \cup {<<>>}]
      /\ \A p \in Peers : registered[p] # g => registered'[p] = registered[p]
  BY <1>1 DEF Typed, Unregistered
<1>4. Typed'
  BY <1>1, <1>2, <1>3 DEF Typed
<1>5. AddressesFit'
  BY DEF MInv, AddressesFit
<1>6. Shown(g)'
  BY <1>2 DEF Shown
<1>7. LatestIsServed'
  <2> SUFFICES ASSUME NEW h \in Groups, phase'[h] = "running",
                      \A k \in Groups : k[1] = h[1] /\ k[2] > h[2] => phase'[k] \notin {"running", "ended"}
               PROVE  registered'[h[1]] = h
    BY DEF LatestIsServed, Running
  <2>1. h # g
    BY <1>2
  <2>2. phase[h] = "running" /\ \A k \in Groups : k[1] = h[1] /\ k[2] > h[2] => phase[k] \notin {"running", "ended"}
    BY <1>2, <2>1
  <2>3. registered[h[1]] = h
    BY <2>2 DEF MInv, LatestIsServed, Running
  <2> QED
    BY <1>3, <2>1, <2>3, GroupIsPair
<1> QED
  BY <1>2, <1>4, <1>5, <1>6, <1>7, OneGroup

LEMMA RunEndsHolds ==
  ASSUME MInv, NEW g \in Groups, RunEnds(g) \/ Lagged(g)
  PROVE  MInv'
<1>1. Typed /\ Capacity \in Nat /\ setting.lags \in Nat
  BY MembershipAssumption DEF MInv, Typed
<1>2. CASE RunEnds(g)
  <2>1. /\ phase[g] = "running" /\ phase' = [phase EXCEPT ![g] = "ended"] /\ registered' = Unregistered(g)
        /\ UNCHANGED <<setting, addr, cancelled, open, looping, members, unread, last, missed, wire, near, flaps, lags>>
    BY <1>2 DEF RunEnds, Running, channel, network
  <2> QED
    BY <1>1, <2>1, GroupEnds DEF Typed
<1>3. CASE Lagged(g)
  <2>1. /\ phase[g] = "running" /\ phase' = [phase EXCEPT ![g] = "ended"] /\ registered' = Unregistered(g)
        /\ lags < setting.lags /\ lags' = lags + 1 /\ TopicCloses(g)
        /\ unread' = [unread EXCEPT ![g] = IF @ < Capacity THEN @ + 1 ELSE @]
        /\ UNCHANGED <<setting, addr, cancelled, looping, members, last, missed, flaps>>
    BY <1>3 DEF Lagged, Running
  <2>2. /\ open' \subseteq Groups /\ near' \in [Groups -> SUBSET Peers]
        /\ wire' \in [Peers -> [Groups -> SUBSET Nat]]
        /\ \A p \in Peers, h \in Groups : wire'[p][h] \subseteq wire[p][h]
    BY <1>1, <2>1, ClosesWell
  <2>3. unread' \in [Groups -> 0 .. Capacity]
    BY <1>1, <2>1 DEF Typed
  <2>4. /\ cancelled' \subseteq Groups /\ looping' \subseteq Groups
        /\ flaps' \in 0 .. setting.flaps /\ lags' \in 0 .. setting.lags
    BY <1>1, <2>1 DEF Typed
  <2> QED
    BY <2>1, <2>2, <2>3, <2>4, GroupEnds
<1> QED
  BY <1>2, <1>3

LEMMA MembershipNext == MInv /\ [Next]_vars => MInv'
<1> SUFFICES ASSUME MInv, [Next]_vars PROVE MInv'
  OBVIOUS
<1>1. Typed /\ \A p \in Peers : addr[p] \in Nat /\ addr[p] <= setting.final[p] /\ setting.final[p] \in Nat
  BY MembershipAssumption DEF MInv, Typed, AddressesFit
<1>2. ASSUME NEW p \in Peers, Move(p) PROVE MInv'
  <2>1. /\ addr' = [addr EXCEPT ![p] = @ + 1] /\ addr[p] < setting.final[p]
        /\ UNCHANGED <<setting, phase, cancelled, open, looping, members, registered, unread, last, missed,
                       wire, near, flaps, lags>>
    BY <1>2 DEF Move, handle, channel, network
  <2>2. Typed'
    BY <1>1, <2>1 DEF Typed
  <2>3. \A q \in Peers : addr[q] <= addr'[q] /\ addr'[q] <= setting.final[q]
    BY <1>1, <2>1 DEF Typed
  <2> QED
    BY <2>1, <2>2, <2>3, OtherStep
<1>3. ASSUME NEW g \in Groups, Announce(g) PROVE MInv'
  <2>1. /\ Announces(g) \/ wire' = wire
        /\ UNCHANGED <<setting, addr, phase, cancelled, open, looping, members, registered, unread, last, missed,
                       near, flaps, lags>>
    BY <1>3 DEF Announce, handle, channel, network
  <2>2. /\ wire' \in [Peers -> [Groups -> SUBSET Nat]]
        /\ \A p \in Peers, h \in Groups : wire'[p][h] \subseteq wire[p][h] \cup {addr[p]}
    BY <1>1, <2>1, AnnouncesWell DEF Typed
  <2>3. Typed'
    BY <1>1, <2>1, <2>2 DEF Typed
  <2> QED
    BY <1>1, <2>1, <2>2, <2>3, OtherStep
<1>4. ASSUME NEW g \in Groups, LoopEnds(g) PROVE MInv'
  <2>1. /\ TopicCloses(g) /\ looping' = looping \ {g}
        /\ UNCHANGED <<setting, addr, phase, cancelled, members, registered, unread, last, missed, flaps, lags>>
    BY <1>4 DEF LoopEnds, channel
  <2>2. /\ open' \subseteq Groups /\ near' \in [Groups -> SUBSET Peers]
        /\ wire' \in [Peers -> [Groups -> SUBSET Nat]]
        /\ \A p \in Peers, h \in Groups : wire'[p][h] \subseteq wire[p][h]
    BY <1>1, <2>1, ClosesWell
  <2>3. Typed'
    BY <1>1, <2>1, <2>2 DEF Typed
  <2>4. \A p \in Peers, h \in Groups : wire'[p][h] \subseteq wire[p][h] \cup {addr[p]}
    BY <2>2
  <2> QED
    BY <1>1, <2>1, <2>3, <2>4, OtherStep
<1>5. ASSUME NEW g \in Groups, Close(g) \/ Read(g) PROVE MInv'
  <2>1. /\ UNCHANGED <<setting, addr, phase, open, looping, members, registered, last, missed,
                       wire, near, flaps, lags>>
        /\ \/ unread' = unread /\ cancelled' = cancelled \cup {g}
           \/ unread[g] > 0 /\ unread' = [unread EXCEPT ![g] = @ - 1] /\ cancelled' = cancelled
    BY <1>5 DEF Close, Read, handle, channel, network
  <2>2. cancelled' \subseteq Groups
    BY <1>1, <2>1 DEF Typed
  <2>4. unread' \in [Groups -> 0 .. Capacity]
    <3>1. Capacity \in Nat /\ unread \in [Groups -> 0 .. Capacity]
      BY <1>1, MembershipAssumption DEF Typed
    <3>2. unread[g] > 0 => unread[g] - 1 \in 0 .. Capacity
      BY <3>1
    <3> QED
      BY <2>1, <3>1, <3>2
  <2>3. Typed'
    BY <1>1, <2>1, <2>2, <2>4 DEF Typed
  <2> QED
    BY <1>1, <2>1, <2>3, OtherStep
<1>6. CASE UNCHANGED vars
  BY <1>6 DEF vars, handle, channel, network, MInv, Typed, AddressesFit, Shown, InTurn, LatestIsServed, Running
<1>7. ASSUME NEW g \in Groups, NEW q \in Peers,
             NeighborUp(g, q) \/ NeighborDown(g, q) \/ \E a \in Addresses : Receive(g, q, a)
      PROVE  MInv'
  BY <1>7, NeighborUpHolds, NeighborDownHolds, ReceiveHolds
<1> QED
  BY <1>2, <1>3, <1>4, <1>5, <1>6, <1>7, JoinHolds, RegisterHolds, RunEndsHolds DEF Next

(* Views, events and the handler's map agree: each event shows what        *)
(* happened to the view, and a name is served by its latest group.         *)
THEOREM MembershipInductive == Spec => []MInv
BY InitHolds, MembershipNext, PTL DEF Spec

\* Types: views and announcements show addresses that a member had, and the
\* channel of events never holds more than fit (emitLocked, setMember).
THEOREM Types == Spec => []TypeOK
<1>1. MInv => TypeOK
  <2> SUFFICES ASSUME MInv PROVE TypeOK
    OBVIOUS
  <2>1. Typed /\ AddressesFit
    BY DEF MInv
  <2>2. ASSUME NEW p \in Peers PROVE addr[p] \in 0 .. setting.final[p]
    <3>1. addr[p] \in Nat /\ addr[p] <= setting.final[p]
      BY <2>1 DEF Typed, AddressesFit
    <3>2. setting.final[p] \in Nat
      BY <2>1, MembershipAssumption DEF Typed
    <3> QED
      BY <3>1, <3>2
  <2> QED
    BY <2>1, <2>2 DEF Typed, AddressesFit, TypeOK, Phases
<1> QED
  BY <1>1, MembershipInductive, PTL

\* A program that read all events has the view of its group, unless the last
\* one was dropped (refreshLocked, emitLocked, handle).
THEOREM EventsFollowTheView == Spec => []EventsShowTheView
<1>1. MInv => EventsShowTheView
  BY DEF MInv, Shown, EventsShowTheView, Running
<1> QED
  BY <1>1, MembershipInductive, PTL

\* The Handler serves the latest group of a name as long as it runs, whatever
\* earlier ones end beside it (register, unregister).
THEOREM LatestServed == Spec => []LatestIsServed
<1>1. MInv => LatestIsServed
  BY DEF MInv
<1> QED
  BY <1>1, MembershipInductive, PTL

(* Close comes to an end                                                   *)

\* A running group whose topic is open has its announceLoop, and only a group
\* that came to run is closed.
Goroutines ==
  /\ \A g \in Groups : Running(g) /\ g \in open => g \in looping
  /\ \A g \in looping \cup cancelled : phase[g] \in {"running", "ended"}

\* Of a group that Close was called on everything has ended, or one of its
\* goroutines has no more to wait for.
CanEnd(g) ==
  \/ phase[g] = "ended" /\ g \notin looping
  \/ g \in looping
  \/ Running(g) /\ g \notin open
EndIsDue == \A g \in cancelled : CanEnd(g)

\* No step takes back what ended, and the steps that are due end what they should.
EndsOnly == \A g \in cancelled :
  /\ g \in cancelled'
  /\ g \in looping' => g \in looping
  /\ g \in open' => g \in open
  /\ phase'[g] = phase[g] \/ phase'[g] = "ended"
  /\ LoopEnds(g) => g \notin looping' /\ g \notin open'
  /\ RunEnds(g) => phase'[g] = "ended"


LEMMA GoroutinesInit == Init => Goroutines
BY DEF Init, Goroutines, Running

LEMMA GoroutinesNext == MInv /\ Goroutines /\ [Next]_vars => Goroutines' /\ EndsOnly
<1> SUFFICES ASSUME MInv, Goroutines, [Next]_vars PROVE Goroutines' /\ EndsOnly
  OBVIOUS
<1>1. /\ phase \in [Groups -> Phases] /\ open \subseteq Groups
      /\ cancelled \subseteq Groups /\ looping \subseteq Groups
  BY DEF MInv, Typed
<1>2. /\ \A g \in Groups : LoopEnds(g) => g \notin looping' /\ g \notin open'
      /\ \A g \in Groups : RunEnds(g) => phase'[g] = "ended"
  BY <1>1 DEF LoopEnds, RunEnds, TopicCloses
<1>3. ASSUME UNCHANGED handle
      PROVE  Goroutines' /\ EndsOnly
  BY <1>1, <1>2, <1>3 DEF handle, Goroutines, EndsOnly, Running
<1>4. ASSUME NEW g \in Groups, Join(g)
      PROVE  Goroutines' /\ EndsOnly
  <2>1. /\ phase[g] = "new" /\ cancelled' = cancelled /\ looping' = looping
        /\ phase' = [phase EXCEPT ![g] = "joining"] \/ phase' = [phase EXCEPT ![g] = "failed"]
        /\ open' = open \/ open' = open \cup {g}
    BY <1>4 DEF Join
  <2>2. g \notin looping /\ g \notin cancelled
    BY <2>1 DEF Goroutines
  <2>3. ~Running(g)' /\ \A h \in Groups \ {g} : phase'[h] = phase[h] /\ (h \in open' <=> h \in open)
    BY <1>1, <2>1 DEF Running
  <2> QED
    BY <1>1, <1>2, <2>1, <2>2, <2>3 DEF Goroutines, EndsOnly, Running
<1>5. ASSUME NEW g \in Groups, Register(g)
      PROVE  Goroutines' /\ EndsOnly
  <2>1. /\ phase[g] = "joining" /\ phase' = [phase EXCEPT ![g] = "running"]
        /\ looping' = looping \cup {g} /\ cancelled' = cancelled /\ open' = open
    BY <1>5 DEF Register
  <2>2. g \notin cancelled
    BY <2>1 DEF Goroutines
  <2> QED
    BY <1>1, <1>2, <2>1, <2>2 DEF Goroutines, EndsOnly, Running
<1>6. ASSUME NEW g \in Groups, LoopEnds(g)
      PROVE  Goroutines' /\ EndsOnly
  <2>1. /\ looping' = looping \ {g} /\ open' = open \ {g}
        /\ phase' = phase /\ cancelled' = cancelled
    BY <1>6 DEF LoopEnds, TopicCloses
  <2> QED
    BY <1>1, <1>2, <2>1 DEF Goroutines, EndsOnly, Running
<1>7. ASSUME NEW g \in Groups, Close(g)
      PROVE  Goroutines' /\ EndsOnly
  <2>1. /\ phase[g] \in {"running", "ended"} /\ cancelled' = cancelled \cup {g}
        /\ phase' = phase /\ open' = open /\ looping' = looping
    BY <1>7 DEF Close
  <2> QED
    BY <1>1, <1>2, <2>1 DEF Goroutines, EndsOnly, Running
<1>8. ASSUME NEW g \in Groups, RunEnds(g) \/ Lagged(g)
      PROVE  Goroutines' /\ EndsOnly
  <2>1. /\ phase[g] = "running" /\ phase' = [phase EXCEPT ![g] = "ended"]
        /\ open' = open \/ open' = open \ {g}
        /\ cancelled' = cancelled /\ looping' = looping
    BY <1>8 DEF RunEnds, Lagged, Running, TopicCloses
  <2> QED
    BY <1>1, <1>2, <2>1 DEF Goroutines, EndsOnly, Running
<1>9. ASSUME NEW g \in Groups, NEW q \in Peers,
             NeighborUp(g, q) \/ NeighborDown(g, q) \/ \E a \in Addresses : Receive(g, q, a)
      PROVE  UNCHANGED handle
  BY <1>9 DEF NeighborUp, NeighborDown, Receive
<1>10. ASSUME NEW g \in Groups, Announce(g) \/ Read(g) PROVE UNCHANGED handle
  BY <1>10 DEF Announce, Read
<1>11. ASSUME NEW p \in Peers, Move(p) PROVE UNCHANGED handle
  BY <1>11 DEF Move
<1>12. UNCHANGED vars => UNCHANGED handle
  BY DEF vars
<1> QED
  BY <1>3, <1>4, <1>5, <1>6, <1>7, <1>8, <1>9, <1>10, <1>11, <1>12 DEF Next

\* Close never waits for a group that has nothing left to do: of a cancelled
\* group both goroutines have ended, or announceLoop can end and close the
\* topic, or run can end on the closed topic, and no step takes one of the two
\* back, so Close waits for two steps at most (Close, announceLoop, run).
THEOREM CloseNeverWaitsInVain == Spec => []EndIsDue /\ [][EndsOnly]_vars
<1>1. MInv /\ Goroutines => EndIsDue
  <2> SUFFICES ASSUME MInv, Goroutines, NEW g \in cancelled PROVE CanEnd(g)
    BY DEF EndIsDue
  <2>1. g \in Groups
    BY DEF MInv, Typed
  <2> QED
    BY <2>1 DEF Goroutines, CanEnd, Running
<1>2. MInv /\ Goroutines /\ [Next]_vars => Goroutines' /\ EndsOnly
  BY GoroutinesNext
<1> QED
  BY <1>1, <1>2, GoroutinesInit, MembershipInductive, PTL DEF Spec


=============================================================================
