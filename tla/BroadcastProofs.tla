-------------------------- MODULE BroadcastProofs --------------------------
(***************************************************************************)
(* Theorems about DtrainBroadcast, for any group and number of broadcasts: *)
(* what calls return is rank 0's data, or that of a member which had lost  *)
(* sight of one before it, and none that reached a waiting member is lost, *)
(* whoever takes itself for rank 0.                                        *)
(***************************************************************************)
EXTENDS DtrainBroadcast, TLAPS

-----------------------------------------------------------------------------
\* The state of a group and its topic is well typed in every reachable state.
THEOREM TypeCorrect == Spec => []TypeOK
<1>1. Init => TypeOK
  BY ConstantsAssumption DEF Init, TypeOK
<1>2. TypeOK /\ [Next]_vars => TypeOK'
  <2> SUFFICES ASSUME TypeOK, [Next]_vars PROVE TypeOK'
    OBVIOUS
  <2> USE ConstantsAssumption DEF TypeOK, Messages
  <2>1. CASE UNCHANGED vars
    BY <2>1 DEF vars
  <2>2. ASSUME NEW m \in Members, Learn(m) PROVE TypeOK'
    BY <2>2 DEF Learn
  <2>3. ASSUME NEW m \in Members, SendData(m) PROVE TypeOK'
    <3>1. bseq[m] + 1 \in 1 .. Rounds
      BY <2>3 DEF SendData, Begin
    <3>2. bseq' \in [Members -> 0 .. Rounds] /\ bseq'[m] = bseq[m] + 1
      BY <2>3, <3>1 DEF SendData, Begin
    <3>3. sent' \subseteq Messages
      BY <2>3, <3>1, <3>2 DEF SendData
    <3>4. returned' \in [Members -> [1 .. Rounds -> Members \cup {None}]]
      BY <2>3, <3>1, <3>2 DEF SendData
    <3> QED
      BY <2>3, <3>2, <3>3, <3>4 DEF SendData
  <2>4. ASSUME NEW m \in Members, FailToSend(m) PROVE TypeOK'
    BY <2>4 DEF FailToSend, Begin
  <2>5. ASSUME NEW m \in Members, AwaitData(m) PROVE TypeOK'
    BY <2>5 DEF AwaitData, Begin
  <2>6. ASSUME NEW m \in Members, Deliver(m) PROVE TypeOK'
    BY <2>6 DEF Deliver, Gossip
  <2>7. ASSUME NEW m \in Members, Take(m) PROVE TypeOK'
    BY <2>7 DEF Take
  <2>8. ASSUME NEW m \in Members, GiveUp(m) PROVE TypeOK'
    BY <2>8 DEF GiveUp
  <2>9. ASSUME NEW m \in Members, Lose(m) PROVE TypeOK'
    BY <2>9 DEF Lose
  <2> QED
    BY <2>1, <2>2, <2>3, <2>4, <2>5, <2>6, <2>7, <2>8, <2>9 DEF Next
<1> QED
  BY <1>1, <1>2, PTL DEF Spec

-----------------------------------------------------------------------------
(* What came is not lost *)

\* Data under the number of a message is kept for m, or m's call returned it.
IsKept(m, msg) ==
  \/ \E kept \in bcast[m] : kept.seq = msg.seq
  \/ returned[m][msg.seq] # None

\* A call that waits has a number and no data yet; nor have later ones; and who
\* sent a message has had its data.
Numbered ==
  /\ \A m \in Members, n \in 1 .. Rounds : n > bseq[m] => returned[m][n] = None
  /\ \A m \in waiting : bseq[m] \in 1 .. Rounds /\ returned[m][bseq[m]] = None
  /\ \A msg \in sent : returned[msg.data][msg.seq] # None

KeptInv == TypeOK /\ Numbered /\ \A m \in Members : \A msg \in got[m] : IsKept(m, msg)

\* Of the number that m waits for, gossip has yet to deliver what was sent, or m
\* can take it.
DataIsThere == \A m \in waiting, msg \in sent :
  msg.seq = bseq[m] => \/ msg.data # m /\ msg \notin got[m]
                       \/ \E kept \in bcast[m] : kept.seq = bseq[m]

LEMMA KeptInit == Init => KeptInv
BY ConstantsAssumption DEF Init, KeptInv, TypeOK, Numbered

\* A call that is given data has had none, and what others have is the same.
LEMMA GivenData ==
  ASSUME KeptInv, NEW m \in Members, NEW k \in 1 .. Rounds, NEW d \in Members,
         returned' = [returned EXCEPT ![m][k] = d]
  PROVE  /\ \A x \in Members, n \in 1 .. Rounds :
              returned'[x][n] = IF x = m /\ n = k THEN d ELSE returned[x][n]
         /\ \A x \in Members, n \in 1 .. Rounds : returned[x][n] # None => returned'[x][n] # None
         /\ returned[m][k] = None =>
              \A x \in Members, n \in 1 .. Rounds :
                returned[x][n] # None => returned'[x][n] = returned[x][n]
<1>1. returned \in [Members -> [1 .. Rounds -> Members \cup {None}]] /\ d # None
  BY ConstantsAssumption DEF KeptInv, TypeOK
<1> QED
  BY <1>1

LEMMA KeptStep == KeptInv /\ TypeOK' /\ [Next]_vars => KeptInv'
<1> SUFFICES ASSUME KeptInv, TypeOK', [Next]_vars PROVE KeptInv'
  OBVIOUS
<1>1. /\ bseq \in [Members -> 0 .. Rounds] /\ got \in [Members -> SUBSET Messages]
      /\ bcast \in [Members -> SUBSET Messages] /\ sent \subseteq Messages /\ waiting \subseteq Members
      /\ \A msg \in Messages : msg.seq \in 1 .. Rounds /\ msg.data \in Members
      /\ Rounds \in Nat
  BY ConstantsAssumption DEF KeptInv, TypeOK, Messages
<1>2. ASSUME UNCHANGED <<bseq, waiting, sent, got, bcast, returned>> PROVE KeptInv'
  BY <1>2 DEF KeptInv, Numbered, IsKept
<1>3. ASSUME NEW m \in Members, Learn(m) \/ Lose(m) PROVE KeptInv'
  BY <1>2, <1>3 DEF Learn, Lose
<1>4. ASSUME NEW m \in Members, SendData(m) PROVE KeptInv'
  <2>1. PICK k \in 1 .. Rounds : k = bseq[m] + 1
    BY <1>1, <1>4 DEF SendData, Begin
  <2>2. /\ m \notin waiting /\ bseq' = [bseq EXCEPT ![m] = k]
        /\ sent' = sent \cup {[seq |-> k, data |-> m]}
        /\ returned' = [returned EXCEPT ![m][k] = m]
        /\ UNCHANGED <<waiting, got, bcast>>
    BY <1>1, <1>4, <2>1 DEF SendData, Begin
  <2>3. /\ \A x \in Members, n \in 1 .. Rounds :
             returned'[x][n] = IF x = m /\ n = k THEN m ELSE returned[x][n]
        /\ \A x \in Members, n \in 1 .. Rounds : returned[x][n] # None => returned'[x][n] # None
    BY <2>2, GivenData
  <2>4. Numbered'
    BY <1>1, <2>1, <2>2, <2>3, ConstantsAssumption DEF KeptInv, Numbered
  <2>5. \A x \in Members : \A msg \in got'[x] : IsKept(x, msg)'
    BY <1>1, <2>2, <2>3 DEF KeptInv, IsKept
  <2> QED
    BY <2>4, <2>5 DEF KeptInv
<1>5. ASSUME NEW m \in Members, FailToSend(m) \/ AwaitData(m) PROVE KeptInv'
  <2>1. /\ m \notin waiting /\ bseq[m] < Rounds /\ bseq' = [bseq EXCEPT ![m] = bseq[m] + 1]
        /\ waiting' \subseteq waiting \cup {m}
        /\ UNCHANGED <<sent, got, bcast, returned>>
    BY <1>5 DEF FailToSend, AwaitData, Begin
  <2>2. Numbered'
    BY <1>1, <2>1 DEF KeptInv, Numbered
  <2> QED
    BY <2>1, <2>2 DEF KeptInv, IsKept
<1>6. ASSUME NEW m \in Members, Deliver(m) PROVE KeptInv'
  <2>1. PICK msg \in sent :
          /\ got' = [got EXCEPT ![m] = @ \cup {msg}]
          /\ bcast' = IF \E kept \in bcast[m] : kept.seq = msg.seq
                      THEN bcast ELSE [bcast EXCEPT ![m] = @ \cup {msg}]
          /\ UNCHANGED <<bseq, waiting, sent, returned>>
    BY <1>6 DEF Deliver, Gossip
  <2>2. IsKept(m, msg)'
    BY <1>1, <2>1 DEF IsKept
  <2>3. \A x \in Members : bcast[x] \subseteq bcast'[x]
    BY <1>1, <2>1
  <2>4. \A x \in Members : \A s \in got[x] : IsKept(x, s)'
    BY <2>1, <2>3 DEF KeptInv, IsKept
  <2>5. \A x \in Members : \A s \in got'[x] : s \in got[x] \/ (x = m /\ s = msg)
    BY <1>1, <2>1
  <2> QED
    BY <2>1, <2>2, <2>4, <2>5 DEF KeptInv, Numbered
<1>7. ASSUME NEW m \in Members, Take(m) PROVE KeptInv'
  <2>1. PICK msg \in bcast[m] :
          /\ m \in waiting /\ msg.seq = bseq[m] /\ waiting' = waiting \ {m}
          /\ bcast' = [bcast EXCEPT ![m] = @ \ {msg}]
          /\ returned' = [returned EXCEPT ![m][bseq[m]] = msg.data]
          /\ UNCHANGED <<bseq, sent, got>>
    BY <1>7 DEF Take
  <2> DEFINE k == msg.seq
  <2>2. k \in 1 .. Rounds /\ msg.data \in Members /\ msg.data # None
    BY <1>1, ConstantsAssumption
  <2>3. /\ \A x \in Members, n \in 1 .. Rounds :
             returned'[x][n] = IF x = m /\ n = k THEN msg.data ELSE returned[x][n]
        /\ \A x \in Members, n \in 1 .. Rounds : returned[x][n] # None => returned'[x][n] # None
    BY <2>1, <2>2, GivenData
  <2>4. Numbered'
    BY <1>1, <2>1, <2>2, <2>3 DEF KeptInv, Numbered
  <2>5. ASSUME NEW x \in Members, NEW s \in got[x] PROVE IsKept(x, s)'
    <3>1. IsKept(x, s) /\ s.seq \in 1 .. Rounds
      BY <1>1 DEF KeptInv
    <3>2. CASE x = m /\ s.seq = k
      BY <2>2, <2>3, <3>1, <3>2 DEF IsKept
    <3>3. CASE ~(x = m /\ s.seq = k)
      <4>1. \A kept \in bcast[x] : kept.seq = s.seq => kept \in bcast'[x]
        BY <1>1, <2>1, <3>3
      <4> QED
        BY <2>3, <3>1, <4>1 DEF IsKept
    <3> QED
      BY <3>2, <3>3
  <2> QED
    BY <2>1, <2>4, <2>5 DEF KeptInv
<1>8. ASSUME NEW m \in Members, GiveUp(m) PROVE KeptInv'
  BY <1>8 DEF GiveUp, KeptInv, Numbered, IsKept
<1>9. CASE UNCHANGED vars
  BY <1>2, <1>9 DEF vars
<1> QED
  BY <1>3, <1>4, <1>5, <1>6, <1>7, <1>8, <1>9 DEF Next

\* No data is lost between gossip and the call that waits for it: whether a
\* message came before the call, during it or after one that gave up, in any
\* order or again, of whomever took itself for rank 0, the member that waits for
\* its number finds it, as soon as gossip delivered it (deliverBroadcast,
\* waitBroadcast).
THEOREM NoDataIsLost == Spec => []DataIsThere
<1>1. KeptInv => DataIsThere
  <2> SUFFICES ASSUME KeptInv, NEW m \in waiting, NEW msg \in sent, msg.seq = bseq[m]
               PROVE  \/ msg.data # m /\ msg \notin got[m]
                      \/ \E kept \in bcast[m] : kept.seq = bseq[m]
    BY DEF DataIsThere
  <2>1. m \in Members /\ returned[m][bseq[m]] = None
    BY DEF KeptInv, Numbered, TypeOK
  <2>2. msg.data # m
    BY <2>1 DEF KeptInv, Numbered
  <2>3. msg \in got[m] => \E kept \in bcast[m] : kept.seq = msg.seq
    BY <2>1 DEF KeptInv, IsKept
  <2> QED
    BY <2>2, <2>3
<1> QED
  BY <1>1, KeptInit, KeptStep, TypeCorrect, PTL DEF Spec

-----------------------------------------------------------------------------
(* Agreement *)

\* Rank 0 of the whole membership is known to every member from the start.
AllKnowFirst == \E f \in Members : \A m \in Members : f <= m /\ f \in Met[m]

\* Who has met a member before it knows it still, or has lost sight of one.
EarlierStayKnown == \A m \in Members : \A p \in Met[m] :
  p < m => p \in known[m] \/ m \in parted

\* What is on the topic, and so what is kept for a member, is of rank 0 or of one
\* that took itself for it, whose own call with that number returned the same.
FromFirst(msg) ==
  /\ (\A p \in Members : msg.data <= p) \/ msg.data \in parted
  /\ returned[msg.data][msg.seq] = msg.data

SentFromFirst == \A msg \in sent : FromFirst(msg)
KeptWereSent == \A m \in Members : bcast[m] \subseteq sent

AgreementInv == KeptInv /\ EarlierStayKnown /\ SentFromFirst /\ KeptWereSent /\ SameData

\* Whoever takes itself for rank 0 is, or has lost sight of one before it.
LEMMA FirstOrParted ==
  ASSUME AllKnowFirst, EarlierStayKnown, NEW m \in Members, IsFirst(m), m \notin parted
  PROVE  \A p \in Members : m <= p
<1>1. PICK f \in Members : \A p \in Members : f <= p /\ f \in Met[p]
  BY DEF AllKnowFirst
<1>2. m \in Nat /\ f \in Nat /\ f <= m
  BY <1>1, ConstantsAssumption
<1>3. CASE f < m
  <2>1. f \in known[m]
    BY <1>1, <1>3 DEF EarlierStayKnown
  <2> QED
    BY <1>2, <1>3, <2>1 DEF IsFirst
<1>4. CASE f = m
  BY <1>1, <1>4
<1>5. f < m \/ f = m
  BY <1>2
<1> QED
  BY <1>3, <1>4, <1>5

\* A call that is given data, and had none, leaves what was agreed as it was.
LEMMA AgreementKept ==
  ASSUME KeptInv, SentFromFirst, SameData, UNCHANGED parted,
         NEW m \in Members, NEW k \in 1 .. Rounds, NEW d \in Members,
         returned[m][k] = None,
         (\A p \in Members : d <= p) \/ d \in parted,
         returned' = [returned EXCEPT ![m][k] = d],
         returned'[d][k] = d
  PROVE  /\ \A msg \in sent : FromFirst(msg)'
         /\ SameData'
<1>1. /\ \A x \in Members, n \in 1 .. Rounds :
           returned'[x][n] = IF x = m /\ n = k THEN d ELSE returned[x][n]
      /\ \A x \in Members, n \in 1 .. Rounds : returned[x][n] # None => returned'[x][n] = returned[x][n]
  BY GivenData
<1>2. ASSUME NEW msg \in sent PROVE FromFirst(msg)'
  <2>1. msg.data \in Members /\ msg.seq \in 1 .. Rounds /\ msg.data # None
    BY ConstantsAssumption DEF KeptInv, TypeOK, Messages
  <2>2. /\ (\A p \in Members : msg.data <= p) \/ msg.data \in parted
        /\ returned[msg.data][msg.seq] = msg.data
    BY DEF SentFromFirst, FromFirst
  <2> QED
    BY <1>1, <2>1, <2>2 DEF FromFirst
<1>3. ASSUME NEW x \in Members, NEW n \in 1 .. Rounds, returned'[x][n] # None
      PROVE  /\ returned'[returned'[x][n]][n] = returned'[x][n]
             /\ (\A p \in Members : returned'[x][n] <= p) \/ returned'[x][n] \in parted'
  <2>1. CASE x = m /\ n = k
    BY <1>1, <2>1
  <2>2. CASE ~ (x = m /\ n = k)
    <3> DEFINE r == returned[x][n]
    <3>1. returned'[x][n] = r /\ r # None
      BY <1>1, <1>3, <2>2
    <3>2. r \in Members
      <4>1. returned[x] \in [1 .. Rounds -> Members \cup {None}]
        BY DEF KeptInv, TypeOK
      <4> QED
        BY <3>1, <4>1
    <3>3. returned[r][n] = r /\ ((\A p \in Members : r <= p) \/ r \in parted)
      BY <3>1 DEF SameData
    <3>4. returned'[r][n] = r
      BY <1>1, <3>1, <3>2, <3>3
    <3> QED
      BY <3>1, <3>3, <3>4
  <2> QED
    BY <2>1, <2>2
<1> QED
  BY <1>2, <1>3 DEF SameData

\* "Broadcast sends rank 0 data to every group member" (group.go): in a group
\* of any size whose members know rank 0, for any number of broadcasts, the
\* n-th call of a member that is given data is given what the n-th call of rank
\* 0 returned, or else that of one which lost sight of a member before it
\* (removeMember on NeighborDown): where nobody does, all return the same.
THEOREM Agreement ==
  ASSUME AllKnowFirst
  PROVE  Spec => []SameData
<1>1. Init => AgreementInv
  <2> SUFFICES ASSUME Init PROVE AgreementInv
    OBVIOUS
  <2>1. KeptInv
    BY KeptInit
  <2> QED
    BY <2>1 DEF Init, AgreementInv, EarlierStayKnown, SentFromFirst, KeptWereSent, SameData
<1>2. AgreementInv /\ TypeOK' /\ [Next]_vars => AgreementInv'
  <2> SUFFICES ASSUME AgreementInv, TypeOK', [Next]_vars PROVE AgreementInv'
    OBVIOUS
  <2> KeptInv /\ KeptInv' /\ TypeOK
    BY KeptStep DEF AgreementInv, KeptInv
  <2> USE DEF AgreementInv
  \* Steps that neither send nor return anything.
  <2>1. ASSUME UNCHANGED <<sent, returned>>, parted \subseteq parted', EarlierStayKnown', KeptWereSent'
        PROVE  AgreementInv'
    BY <2>1 DEF SentFromFirst, FromFirst, SameData
  <2>2. CASE UNCHANGED vars
    BY <2>1, <2>2 DEF vars, EarlierStayKnown, KeptWereSent
  <2>3. ASSUME NEW m \in Members, Learn(m) PROVE AgreementInv'
    <3>1. EarlierStayKnown'
      BY <2>3 DEF Learn, EarlierStayKnown, TypeOK
    <3> QED
      BY <2>1, <2>3, <3>1 DEF Learn, KeptWereSent
  <2>4. ASSUME NEW m \in Members, Lose(m) PROVE AgreementInv'
    <3>1. PICK p \in known[m] \ {m} :
            /\ known' = [known EXCEPT ![m] = @ \ {p}]
            /\ parted' = IF p < m THEN parted \cup {m} ELSE parted
      BY <2>4 DEF Lose
    <3>2. parted \subseteq parted' /\ (p < m => m \in parted')
      BY <3>1
    <3>3. ASSUME NEW x \in Members, NEW q \in Met[x], q < x
          PROVE  q \in known'[x] \/ x \in parted'
      <4>1. q \in known[x] \/ x \in parted
        BY <3>3 DEF EarlierStayKnown
      <4>2. known'[x] = IF x = m THEN known[x] \ {p} ELSE known[x]
        BY <3>1 DEF TypeOK
      <4> QED
        BY <3>2, <3>3, <4>1, <4>2
    <3>4. EarlierStayKnown'
      BY <3>3 DEF EarlierStayKnown
    <3> QED
      BY <2>1, <2>4, <3>2, <3>4 DEF Lose, KeptWereSent
  <2>5. ASSUME NEW m \in Members, SendData(m) PROVE AgreementInv'
    <3>1. PICK k \in 1 .. Rounds : k = bseq'[m] /\ k > bseq[m]
      BY <2>5 DEF SendData, Begin, TypeOK
    <3>2. (\A p \in Members : m <= p) \/ m \in parted
      BY <2>5, FirstOrParted DEF SendData
    <3>3. returned' = [returned EXCEPT ![m][k] = m] /\ returned'[m][k] = m /\ UNCHANGED parted
      BY <2>5, <3>1 DEF SendData, TypeOK
    <3>4. returned[m][k] = None
      BY <3>1 DEF KeptInv, Numbered
    <3>5. (\A msg \in sent : FromFirst(msg)') /\ SameData'
      BY <3>1, <3>2, <3>3, <3>4, AgreementKept
    <3>6. FromFirst([seq |-> k, data |-> m])'
      BY <3>2, <3>3 DEF FromFirst
    <3>7. SentFromFirst'
      <4>1. sent' = sent \cup {[seq |-> k, data |-> m]}
        BY <2>5, <3>1 DEF SendData
      <4> QED
        BY <3>5, <3>6, <4>1 DEF SentFromFirst
    <3>8. EarlierStayKnown' /\ KeptWereSent'
      BY <2>5 DEF SendData, EarlierStayKnown, KeptWereSent
    <3> QED
      BY <3>5, <3>7, <3>8
  <2>6. ASSUME NEW m \in Members, FailToSend(m) PROVE AgreementInv'
    BY <2>1, <2>6 DEF FailToSend, EarlierStayKnown, KeptWereSent
  <2>7. ASSUME NEW m \in Members, AwaitData(m) PROVE AgreementInv'
    BY <2>1, <2>7 DEF AwaitData, EarlierStayKnown, KeptWereSent
  <2>8. ASSUME NEW m \in Members, Deliver(m) PROVE AgreementInv'
    <3>1. KeptWereSent'
      BY <2>8 DEF Deliver, KeptWereSent, TypeOK
    <3> QED
      BY <2>1, <2>8, <3>1 DEF Deliver, EarlierStayKnown
  <2>9. ASSUME NEW m \in Members, Take(m) PROVE AgreementInv'
    <3>1. PICK msg \in bcast[m] :
            /\ m \in waiting
            /\ msg.seq = bseq[m]
            /\ bcast' = [bcast EXCEPT ![m] = @ \ {msg}]
            /\ returned' = [returned EXCEPT ![m][bseq[m]] = msg.data]
      BY <2>9 DEF Take
    <3>2. UNCHANGED <<known, sent, parted>>
      BY <2>9 DEF Take
    <3>3. msg \in sent /\ msg.data \in Members /\ msg.seq \in 1 .. Rounds
      BY DEF KeptWereSent, TypeOK, Messages
    <3>4. /\ (\A p \in Members : msg.data <= p) \/ msg.data \in parted
          /\ returned[msg.data][msg.seq] = msg.data
      BY <3>3 DEF SentFromFirst, FromFirst
    <3>5. returned'[msg.data][msg.seq] = msg.data
      BY <3>1, <3>3, <3>4 DEF TypeOK
    <3>6. returned[m][msg.seq] = None
      BY <3>1 DEF KeptInv, Numbered
    <3>7. (\A s \in sent : FromFirst(s)') /\ SameData'
      BY <3>1, <3>2, <3>3, <3>4, <3>5, <3>6, AgreementKept
    <3>8. SentFromFirst'
      BY <3>2, <3>7 DEF SentFromFirst
    <3>9. EarlierStayKnown' /\ KeptWereSent'
      BY <3>1, <3>2 DEF EarlierStayKnown, KeptWereSent, TypeOK
    <3> QED
      BY <3>7, <3>8, <3>9
  <2>10. ASSUME NEW m \in Members, GiveUp(m) PROVE AgreementInv'
    BY <2>1, <2>10 DEF GiveUp, EarlierStayKnown, KeptWereSent
  <2> QED
    BY <2>2, <2>3, <2>4, <2>5, <2>6, <2>7, <2>8, <2>9, <2>10 DEF Next
<1>3. AgreementInv => SameData
  BY DEF AgreementInv
<1> QED
  BY <1>1, <1>2, <1>3, TypeCorrect, PTL DEF Spec

=============================================================================
