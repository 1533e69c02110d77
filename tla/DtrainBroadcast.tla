--------------------------- MODULE DtrainBroadcast ---------------------------
(***************************************************************************)
(* Group.Broadcast of dtrain: the member that takes itself for rank 0      *)
(* sends its data on the gossip topic under the number of its broadcast;   *)
(* the others wait for that number, and what arrives before they ask is    *)
(* kept for them.                                                          *)
(*                                                                         *)
(* The data of a broadcast is the member that sent it.  Members forget who *)
(* gossip reports as gone, also a neighbour that is still there.           *)
(***************************************************************************)
EXTENDS Naturals

CONSTANTS
  Members,     \* endpoint IDs, in the order of their strings
  Rounds,      \* bound: the broadcasts each member calls
  Met,         \* the members each member knows before its first call
  Failing,     \* members whose calls may fail
  Losing,      \* members whose gossip may lose a neighbour that is still there
  Redelivery,  \* may gossip deliver a message more than once?
  None

ASSUME ConstantsAssumption ==
  /\ Members \subseteq Nat
  /\ Rounds \in Nat
  /\ Met \in [Members -> SUBSET Members]
  /\ \A m \in Members : m \in Met[m]
  /\ Failing \subseteq Members
  /\ Losing \subseteq Members
  /\ Redelivery \in BOOLEAN
  /\ None \notin Members

VARIABLES
  known,    \* members: the IDs a member's gossip handler has recorded
  bseq,     \* the number of a member's last broadcast
  waiting,  \* members in waitBroadcast
  sent,     \* messages ever broadcast on the topic
  got,      \* messages gossip has delivered to a member
  bcast,    \* messages kept for a member, one for each number
  returned, \* the data each call gave its member, or None
  parted    \* history: the members that have lost sight of one before them

vars == <<known, bseq, waiting, sent, got, bcast, returned, parted>>

Messages == [seq : 1 .. Rounds, data : Members]

IsFirst(m) == \A p \in known[m] : m <= p

-----------------------------------------------------------------------------
Init ==
  /\ known = Met
  /\ bseq = [m \in Members |-> 0]
  /\ waiting = {}
  /\ sent = {}
  /\ got = [m \in Members |-> {}]
  /\ bcast = [m \in Members |-> {}]
  /\ returned = [m \in Members |-> [n \in 1 .. Rounds |-> None]]
  /\ parted = {}

\* An announcement of p, or NeighborUp: setMember.
Learn(m) == \E p \in Members \ known[m] :
  /\ known' = [known EXCEPT ![m] = @ \cup {p}]
  /\ UNCHANGED <<bseq, waiting, sent, got, bcast, returned, parted>>

\* NeighborDown: removeMember, though p is still there.
Lose(m) == \E p \in known[m] \ {m} :
  /\ m \in Losing
  /\ known' = [known EXCEPT ![m] = @ \ {p}]
  /\ parted' = IF p < m THEN parted \cup {m} ELSE parted
  /\ UNCHANGED <<bseq, waiting, sent, got, bcast, returned>>

Begin(m) ==
  /\ m \notin waiting
  /\ bseq[m] < Rounds
  /\ bseq' = [bseq EXCEPT ![m] = @ + 1]

\* Variation: the message carries the number before the increment.
SendUncounted(m) ==
  /\ IsFirst(m)
  /\ Begin(m)
  /\ sent' = sent \cup {[seq |-> bseq[m], data |-> m]}
  /\ returned' = [returned EXCEPT ![m][bseq'[m]] = m]
  /\ UNCHANGED <<known, waiting, got, bcast, parted>>

\* Rank 0: the data goes on the topic, and to the caller.
SendData(m) ==
  /\ IsFirst(m)
  /\ Begin(m)
  /\ sent' = sent \cup {[seq |-> bseq'[m], data |-> m]}
  /\ returned' = [returned EXCEPT ![m][bseq'[m]] = m]
  /\ UNCHANGED <<known, waiting, got, bcast, parted>>

\* Rank 0: topic.Broadcast fails.
FailToSend(m) ==
  /\ m \in Failing
  /\ IsFirst(m)
  /\ Begin(m)
  /\ UNCHANGED <<known, waiting, sent, got, bcast, returned, parted>>

AwaitData(m) ==
  /\ ~ IsFirst(m)
  /\ Begin(m)
  /\ waiting' = waiting \cup {m}
  /\ UNCHANGED <<known, sent, got, bcast, returned, parted>>

\* Gossip gives a member what others sent; a second time only if it redelivers.
Gossip(m, msg) ==
  /\ msg.data # m
  /\ msg \notin got[m] \/ Redelivery
  /\ got' = [got EXCEPT ![m] = @ \cup {msg}]

\* Variation: only a number that is waited for has a channel.
DeliverToWaiting(m) == \E msg \in sent :
  /\ Gossip(m, msg)
  /\ bcast' = IF m \in waiting /\ bseq[m] = msg.seq
              THEN [bcast EXCEPT ![m] = @ \cup {msg}] ELSE bcast
  /\ UNCHANGED <<known, bseq, waiting, sent, returned, parted>>

\* deliverBroadcast: a second message with the same number is dropped while
\* the first is kept.
Deliver(m) == \E msg \in sent :
  /\ Gossip(m, msg)
  /\ bcast' = IF \E kept \in bcast[m] : kept.seq = msg.seq
              THEN bcast ELSE [bcast EXCEPT ![m] = @ \cup {msg}]
  /\ UNCHANGED <<known, bseq, waiting, sent, returned, parted>>

\* Variation: any broadcast will do.
TakeAny(m) == \E msg \in bcast[m] :
  /\ m \in waiting
  /\ waiting' = waiting \ {m}
  /\ bcast' = [bcast EXCEPT ![m] = @ \ {msg}]
  /\ returned' = [returned EXCEPT ![m][bseq[m]] = msg.data]
  /\ UNCHANGED <<known, bseq, sent, got, parted>>

\* waitBroadcast finds the message with its number.
Take(m) == \E msg \in bcast[m] :
  /\ m \in waiting
  /\ msg.seq = bseq[m]
  /\ waiting' = waiting \ {m}
  /\ bcast' = [bcast EXCEPT ![m] = @ \ {msg}]
  /\ returned' = [returned EXCEPT ![m][bseq[m]] = msg.data]
  /\ UNCHANGED <<known, bseq, sent, got, parted>>

\* The deadline passes: what arrives later stays in the map.
GiveUp(m) ==
  /\ m \in Failing \cap waiting
  /\ waiting' = waiting \ {m}
  /\ UNCHANGED <<known, bseq, sent, got, bcast, returned, parted>>

Next == \E m \in Members :
  \/ Learn(m) \/ Lose(m)
  \/ SendData(m) \/ FailToSend(m) \/ AwaitData(m)
  \/ Deliver(m) \/ Take(m) \/ GiveUp(m)

Spec == Init /\ [][Next]_vars

-----------------------------------------------------------------------------
TypeOK ==
  /\ known \in [Members -> SUBSET Members]
  /\ bseq \in [Members -> 0 .. Rounds]
  /\ waiting \subseteq Members
  /\ sent \subseteq Messages
  /\ got \in [Members -> SUBSET Messages]
  /\ bcast \in [Members -> SUBSET Messages]
  /\ returned \in [Members -> [1 .. Rounds -> Members \cup {None}]]
  /\ parted \subseteq Members

\* "Broadcast sends rank 0 data to every group member" (group.go): where all
\* members know rank 0, what the n-th call of a member returns is the data of the
\* n-th call of rank 0, or else of a member that had lost sight of one before it
\* and took itself for rank 0, though calls fail, members run ahead of one
\* another and messages come in any order or again.
SameData == \A m \in Members, n \in 1 .. Rounds :
  LET d == returned[m][n] IN
  d # None =>
    /\ returned[d][n] = d
    /\ (\A p \in Members : d <= p) \/ d \in parted

\* The group's goroutines are scheduled and gossip delivers what is sent, once.
Fairness == \A m \in Members :
  WF_vars(Deliver(m) /\ got' # got) /\ WF_vars(Take(m))

FairSpec == Spec /\ Fairness

\* A member that does not give up is given the data of its n-th call, even if
\* it makes the call after rank 0's message arrived: the message is kept until
\* then (deliverBroadcast).
DataIsTaken == \A m \in Members \ Failing, n \in 1 .. Rounds :
  (m \in waiting /\ bseq[m] = n /\ \E msg \in sent : msg.seq = n)
    ~> returned[m][n] # None

=============================================================================
