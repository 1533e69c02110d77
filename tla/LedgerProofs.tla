---------------------------- MODULE LedgerProofs ----------------------------
(***************************************************************************)
(* Proofs about Ledger: the types, one settlement of a nonce by one        *)
(* ledger, the bound on how late a restarted ledger settles it again, that *)
(* a request that is sent again is answered once by one ledger, and that   *)
(* payments neither make nor lose credit.                                  *)
(***************************************************************************)
EXTENDS Ledger, FiniteSetTheorems, TLAPS

(* The types of what the actions compute with; a request that is being     *)
(* handled has been paid for, and its payment no longer changes.           *)
States == {"none", "received", "verified", "early", "refused", "served"}

PaymentOK(a, r) ==
  /\ a.nonce = r
  /\ a.from \in Accounts
  /\ a.to \in Accounts
  /\ a.value \in Nat
  /\ a.validBefore \in Int

Typed ==
  /\ now \in 0 .. MaxTime
  /\ epoch \in Nat
  /\ balances \in [Accounts -> 0 .. Modulus - 1 \cup {None}]
  /\ spent \subseteq Requests
  /\ credited \subseteq Credits
  /\ asked \in [Requests -> {"idle", "paid", "unpayable"}]
  /\ DOMAIN payment = Requests
  /\ handling \in [Requests -> [1 .. Deliveries -> States]]
  /\ settled \subseteq [nonce : Requests, delivery : 1 .. Deliveries, at : 0 .. MaxTime, epoch : 0 .. epoch]
  /\ \A r \in Requests : asked[r] = "paid" => PaymentOK(payment[r].auth, r)
  /\ \A r \in Requests, k \in 1 .. Deliveries : handling[r][k] # "none" => asked[r] = "paid"

(* The nonces of this epoch's settlements are exactly the spent ones.      *)
Remembered ==
  /\ \A n \in spent : \E x \in settled : x.nonce = n /\ x.epoch = epoch
  /\ \A x \in settled : x.epoch = epoch => x.nonce \in spent

(* Every settlement was made within MaxValidity of the end of its window.  *)
WithinWindow == \A x \in settled :
  /\ x.at <= now
  /\ asked[x.nonce] = "paid"
  /\ payment[x.nonce].auth.validBefore <= x.at + MaxValidity

IInv == Typed /\ Remembered /\ SettledOnce /\ WithinWindow /\ ExposureIsBounded

-----------------------------------------------------------------------------
(* What the operators of the ledger return *)

LEMMA Widths == Modulus \in Nat \ {0} /\ Faucet \in 0 .. Modulus - 1
BY ConstantsAssumption

LEMMA Remainder ==
  ASSUME NEW x \in Int, NEW m \in Nat \ {0}
  PROVE  x % m \in 0 .. m - 1
OBVIOUS

\* A number is its quotient and its remainder, and they are the only ones.
LEMMA Quotient ==
  ASSUME NEW x \in Int, NEW m \in Nat \ {0}
  PROVE  \E k \in Int : x = k * m + (x % m)
<1>1. m \in Int /\ m > 0
  OBVIOUS
<1> DEFINE k == x \div m
<1>2. x = m * k + (x % m)
  BY <1>1
<1>3. k \in Int
  OBVIOUS
<1> HIDE DEF k
<1>4. m * k = k * m
  BY <1>1, <1>3
<1> QED
  BY <1>2, <1>3, <1>4
\* Only the remainder counts.
LEMMA SameRemainder ==
  ASSUME NEW x \in Int, NEW y \in Int, NEW k \in Int, NEW m \in Nat \ {0}, y = x + k * m
  PROVE  y % m = x % m
<1>1. PICK p \in Int : x = p * m + (x % m)
  BY Quotient
<1>2. PICK q \in Int : y = q * m + (y % m)
  BY Quotient
<1>3. x % m \in 0 .. m - 1 /\ y % m \in 0 .. m - 1
  BY Remainder
<1> DEFINE d == q - p - k
<1>4. d * m = q * m - p * m - k * m
  OBVIOUS
<1>5. d \in Int
  OBVIOUS
<1>6. d * m = (x % m) - (y % m)
  <2> DEFINE a == x % m
             b == y % m
             qm == q * m
             pm == p * m
             km == k * m
             dm == d * m
  <2>1. qm \in Int /\ pm \in Int /\ km \in Int /\ a \in Int /\ b \in Int
    BY <1>3
  <2>2. x = pm + a /\ y = qm + b /\ y = x + km /\ dm = qm - pm - km
    BY <1>1, <1>2, <1>4
  <2> HIDE DEF a, b, qm, pm, km, dm
  <2>3. dm = a - b
    BY <2>1, <2>2
  <2> QED
    BY <2>3 DEF a, b, dm
<1>7. d * m < m /\ -m < d * m
  BY <1>3, <1>6
<1> HIDE DEF d
<1>8. ~(d >= 1)
  BY <1>5, <1>7
<1>9. ~(d <= -1)
  BY <1>5, <1>7
<1>10. d = 0
  BY <1>5, <1>8, <1>9
<1>11. d * m = 0
  BY <1>10
<1> QED
  BY <1>3, <1>6, <1>11

LEMMA BalanceType ==
  ASSUME Typed, NEW a \in Accounts
  PROVE  Balance(a) \in 0 .. Modulus - 1
BY Widths DEF Typed, Balance

LEMMA SeeType ==
  ASSUME Typed, NEW S \in SUBSET Accounts
  PROVE  See(S) \in [Accounts -> 0 .. Modulus - 1 \cup {None}]
BY BalanceType DEF Typed, See

\* Between accounts that are seen, credit moves within the width of a balance.
LEMMA MoveType ==
  ASSUME Typed, NEW r \in Requests, asked[r] = "paid"
  PROVE  LET a == payment[r].auth
         IN MoveTo(See({a.from, a.to}), a) \in [Accounts -> 0 .. Modulus - 1 \cup {None}]
<1> DEFINE a == payment[r].auth
           b == See({a.from, a.to})
           less == [b EXCEPT ![a.from] = (@ - a.value) % Modulus]
<1>1. a.from \in Accounts /\ a.to \in Accounts /\ a.value \in Nat
  BY DEF Typed, PaymentOK
<1>2. b \in [Accounts -> 0 .. Modulus - 1 \cup {None}]
  BY <1>1, SeeType
<1>3. b[a.from] \in 0 .. Modulus - 1 /\ b[a.to] \in 0 .. Modulus - 1
  BY <1>1, BalanceType DEF See
<1>4. (b[a.from] - a.value) % Modulus \in 0 .. Modulus - 1
  <2>1. b[a.from] - a.value \in Int
    BY <1>1, <1>3, Widths
  <2> QED
    BY <2>1, Remainder, Widths
<1> HIDE DEF b
<1>5. less \in [Accounts -> 0 .. Modulus - 1 \cup {None}] /\ less[a.to] \in 0 .. Modulus - 1
  BY <1>1, <1>2, <1>3, <1>4
<1>6. (less[a.to] + a.value) % Modulus \in 0 .. Modulus - 1
  <2>1. less[a.to] + a.value \in Int
    <3>1. less[a.to] \in Nat
      BY <1>5, Widths
    <3> QED
      BY <1>1, <3>1
  <2> QED
    BY <2>1, Remainder, Widths
<1> QED
  BY <1>1, <1>5, <1>6 DEF MoveTo, b

\* A payment without a problem is unspent and inside its window.
LEMMA NoProblem ==
  ASSUME NEW p, NEW req, Problem(p, req) = None
  PROVE  InWindow(p.auth) /\ p.auth.nonce \notin spent
BY NoneAssumption DEF Problem

\* Only a payment that is being handled has its payer seen.
LEMMA SeenType ==
  ASSUME Typed, NEW r \in Requests, asked[r] = "paid", NEW problem
  PROVE  SeenWith(payment[r], problem) \in SUBSET Accounts
BY DEF Typed, PaymentOK, SeenWith
-----------------------------------------------------------------------------
LEMMA InitHolds == Init => IInv
<1> SUFFICES ASSUME Init PROVE IInv
  OBVIOUS
<1>1. Typed
  BY ConstantsAssumption, OffersAssumption DEF Init, Typed, States
<1>2. Remembered /\ SettledOnce /\ WithinWindow /\ ExposureIsBounded
  BY DEF Init, Remembered, SettledOnce, WithinWindow, ExposureIsBounded
<1> QED
  BY <1>1, <1>2 DEF IInv

(* Steps of the request r and its delivery k *)

\* What the wallet signs carries the request's nonce and is of its type.
LEMMA PaymentIsOK ==
  ASSUME Typed, NEW r \in Requests, NEW i \in DOMAIN Accepts[Server[r]]
  PROVE  PaymentOK(Payment(r, Accepts[Server[r]][i]).auth, r)
<1> DEFINE req == Accepts[Server[r]][i]
<1>1. Server[r] \in Accounts /\ Client[r] \in Accounts /\ Ahead[Client[r]] \in Nat
  BY ConstantsAssumption
<1>2. req.payTo \in Accounts /\ req.amount \in Nat /\ req.timeout \in Nat
  BY <1>1, OffersAssumption
<1> HIDE DEF req
<1>3. Timeout(req) \in Nat
  BY <1>2, ConstantsAssumption DEF Timeout
<1>4. PaymentOK(Payment(r, req).auth, r)
  BY <1>1, <1>2, <1>3 DEF Typed, PaymentOK, Payment, Authorization
<1> QED
  BY <1>4 DEF req

LEMMA PayHolds ==
  ASSUME IInv, NEW r \in Requests, Pay(r)
  PROVE  IInv'
<1> USE DEF IInv
<1>1. /\ asked[r] = "idle"
      /\ asked' \in [Requests -> {"idle", "paid", "unpayable"}]
      /\ asked'[r] # "idle"
      /\ \A q \in Requests \ {r} : asked'[q] = asked[q] /\ payment'[q] = payment[q]
      /\ DOMAIN payment' = Requests
      /\ asked'[r] = "paid" => PaymentOK(payment'[r].auth, r)
      /\ UNCHANGED <<now, epoch, credited, balances, spent, minted, handling, settled>>
  <2>1. CASE asked' = [asked EXCEPT ![r] = "unpayable"]
    BY <2>1 DEF Pay, Typed, ledgerVars
  <2>2. CASE \E i \in DOMAIN Accepts[Server[r]] :
               /\ payment' = [payment EXCEPT ![r] = Payment(r, Accepts[Server[r]][i])]
               /\ asked' = [asked EXCEPT ![r] = "paid"]
    <3>1. PICK i \in DOMAIN Accepts[Server[r]] :
               /\ payment' = [payment EXCEPT ![r] = Payment(r, Accepts[Server[r]][i])]
               /\ asked' = [asked EXCEPT ![r] = "paid"]
      BY <2>2
    <3>2. payment'[r] = Payment(r, Accepts[Server[r]][i])
      BY <3>1 DEF Typed
    <3>3. PaymentOK(payment'[r].auth, r)
      BY <3>2, PaymentIsOK
    <3> QED
      BY <3>1, <3>3 DEF Pay, Typed, ledgerVars
  <2> QED
    BY <2>1, <2>2 DEF Pay
<1>2. Typed'
  BY <1>1 DEF Typed
<1>3. Remembered' /\ SettledOnce' /\ ExposureIsBounded'
  BY <1>1 DEF Remembered, SettledOnce, ExposureIsBounded
<1>4. WithinWindow'
  <2>1. \A x \in settled : x.nonce \in Requests \ {r}
    BY <1>1 DEF WithinWindow, Typed
  <2> QED
    BY <1>1, <2>1 DEF WithinWindow
<1> QED
  BY <1>2, <1>3, <1>4

LEMMA DeliverHolds ==
  ASSUME IInv, NEW r \in Requests, NEW k \in 1 .. Deliveries, Deliver(r, k)
  PROVE  IInv'
<1> USE DEF IInv
<1>1. Typed'
  BY DEF Typed, Deliver, States, ledgerVars
<1>2. Remembered' /\ SettledOnce' /\ WithinWindow' /\ ExposureIsBounded'
  BY DEF Deliver, ledgerVars, Remembered, SettledOnce, WithinWindow, ExposureIsBounded
<1> QED
  BY <1>1, <1>2

LEMMA VerifyHolds ==
  ASSUME IInv, NEW r \in Requests, NEW k \in 1 .. Deliveries, Verify(r, k)
  PROVE  IInv'
<1> USE DEF IInv
<1> DEFINE problem == Problem(payment[r], payment[r].accepted)
<1>1. asked[r] = "paid"
  BY DEF Verify, Typed
<1>2. balances' \in [Accounts -> 0 .. Modulus - 1 \cup {None}]
  BY <1>1, SeenType, SeeType DEF Verify
<1>3. PICK verdict \in Verdicts(problem) : handling' = [handling EXCEPT ![r][k] = verdict]
  BY DEF Verify
<1>4. verdict \in States
  BY <1>3 DEF Verdicts, Refusal, States
<1>5. handling' \in [Requests -> [1 .. Deliveries -> States]]
  BY <1>3, <1>4 DEF Typed
<1>6. \A q \in Requests, j \in 1 .. Deliveries : handling'[q][j] # "none" => asked[q] = "paid"
  BY <1>1, <1>3 DEF Typed
<1>7. UNCHANGED <<now, epoch, credited, spent, asked, payment, settled>>
  BY DEF Verify
<1>8. Typed'
  BY <1>2, <1>5, <1>6, <1>7 DEF Typed
<1>9. Remembered' /\ SettledOnce' /\ WithinWindow' /\ ExposureIsBounded'
  BY <1>7 DEF Remembered, SettledOnce, WithinWindow, ExposureIsBounded
<1> QED
  BY <1>8, <1>9

\* A settlement is of a payment that is unspent and within its window.
LEMMA SettleHolds ==
  ASSUME IInv, NEW r \in Requests, NEW k \in 1 .. Deliveries, Settle(r, k)
  PROVE  IInv'
<1> USE DEF IInv
<1> DEFINE a == payment[r].auth
           problem == Problem(payment[r], payment[r].accepted)
           x == Settlement(r, k)
<1>1. asked[r] = "paid"
  BY DEF Settle, Typed
<1>2. PaymentOK(a, r)
  BY <1>1 DEF Typed
<1>3. balances' \in [Accounts -> 0 .. Modulus - 1 \cup {None}]
  BY <1>1, SeenType, SeeType, MoveType DEF Settle
<1>4. PICK answer \in Answers(problem) : handling' = [handling EXCEPT ![r][k] = answer]
  BY DEF Settle
<1>5. answer \in States
  BY <1>4 DEF Answers, Refusal, States
<1>6. handling' \in [Requests -> [1 .. Deliveries -> States]]
  BY <1>4, <1>5 DEF Typed
<1>7. \A q \in Requests, j \in 1 .. Deliveries : handling'[q][j] # "none" => asked[q] = "paid"
  BY <1>1, <1>4 DEF Typed
<1>8. UNCHANGED <<now, epoch, credited, asked, payment>>
  BY DEF Settle
<1>9. x \in [nonce : Requests, delivery : 1 .. Deliveries, at : 0 .. MaxTime, epoch : 0 .. epoch]
      /\ x.nonce = r /\ x.at = now /\ x.epoch = epoch
  BY DEF Settlement, Typed
<1>10. CASE problem # None
  <2>1. UNCHANGED <<spent, settled>>
    BY <1>10 DEF Settle
  <2>2. Typed'
    BY <1>3, <1>6, <1>7, <1>8, <2>1 DEF Typed
  <2>3. Remembered' /\ SettledOnce' /\ WithinWindow' /\ ExposureIsBounded'
    BY <1>8, <2>1 DEF Remembered, SettledOnce, WithinWindow, ExposureIsBounded
  <2> QED
    BY <2>2, <2>3
<1>11. CASE problem = None
  <2>1. spent' = spent \cup {r} /\ settled' = settled \cup {x}
    BY <1>2, <1>11 DEF Settle, PaymentOK
  <2>2. InWindow(a) /\ r \notin spent
    BY <1>2, <1>11, NoProblem DEF PaymentOK
  <2>3. Typed'
    BY <1>3, <1>6, <1>7, <1>8, <1>9, <2>1 DEF Typed
  <2>4. Remembered'
    BY <1>8, <1>9, <2>1 DEF Remembered
  <2>5. SettledOnce'
    <3>1. \A y \in settled : y.epoch = epoch => y.nonce # r
      BY <2>2 DEF Remembered
    <3> QED
      BY <1>9, <2>1, <3>1 DEF SettledOnce
  <2>6. now \in Nat /\ a.validBefore \in Int /\ MaxValidity \in Nat
    BY <1>2, ConstantsAssumption DEF Typed, PaymentOK
  <2>7. a.validBefore <= now + MaxValidity /\ now <= a.validBefore
    BY <2>2 DEF InWindow
  <2>8. WithinWindow'
    BY <1>1, <1>8, <1>9, <2>1, <2>7 DEF WithinWindow
  <2>9. ExposureIsBounded'
    <3>1. \A y \in settled : y.at \in Nat /\ y.at <= now
      BY <2>6 DEF Typed, WithinWindow
    <3>2. \A y \in settled : y.nonce = r => now <= y.at + MaxValidity
      BY <2>6, <2>7, <3>1 DEF WithinWindow
    <3>3. \A y \in settled : y.at <= now + MaxValidity
      BY <2>6, <3>1
    <3> QED
      BY <1>9, <2>1, <2>6, <3>2, <3>3 DEF ExposureIsBounded
  <2> QED
    BY <2>3, <2>4, <2>5, <2>8, <2>9
<1> QED
  BY <1>10, <1>11

\* The other steps leave the settlements and the requests alone.
LEMMA CreditHolds == IInv /\ Credit => IInv'
<1> SUFFICES ASSUME IInv, Credit PROVE IInv'
  OBVIOUS
<1> USE DEF IInv
<1>1. PICK e \in credited :
        /\ balances' = [balances EXCEPT ![e[1]] = (Balance(e[1]) + e[2]) % Modulus]
        /\ credited' = credited \ {e}
  BY DEF Credit
<1>2. UNCHANGED <<now, epoch, spent, asked, payment, handling, settled>>
  BY DEF Credit, requestVars
<1>3. e[1] \in Accounts /\ e[2] \in Nat
  BY OffersAssumption DEF Typed
<1>4. Balance(e[1]) + e[2] \in Int
  <2>1. Balance(e[1]) \in Nat
    BY <1>3, BalanceType, Widths
  <2> QED
    BY <1>3, <2>1
<1>5. (Balance(e[1]) + e[2]) % Modulus \in 0 .. Modulus - 1
  BY <1>4, Widths, Remainder
<1>6. Typed'
  BY <1>1, <1>2, <1>3, <1>5 DEF Typed
<1> QED
  BY <1>2, <1>6 DEF Remembered, SettledOnce, WithinWindow, ExposureIsBounded

LEMMA AskBalanceHolds == IInv /\ AskBalance => IInv'
<1> SUFFICES ASSUME IInv, AskBalance PROVE IInv'
  OBVIOUS
<1> USE DEF IInv
<1>1. UNCHANGED <<now, epoch, credited, spent, asked, payment, handling, settled>>
  BY DEF AskBalance, requestVars
<1>2. balances' \in [Accounts -> 0 .. Modulus - 1 \cup {None}]
  BY SeeType DEF AskBalance
<1>3. Typed'
  BY <1>1, <1>2 DEF Typed
<1> QED
  BY <1>1, <1>3 DEF Remembered, SettledOnce, WithinWindow, ExposureIsBounded

\* No settlement is of the epoch that a restart begins.
LEMMA RestartHolds == IInv /\ Restart => IInv'
<1> SUFFICES ASSUME IInv, Restart PROVE IInv'
  OBVIOUS
<1> USE DEF IInv
<1>1. /\ spent' = {} /\ epoch' = epoch + 1
      /\ UNCHANGED <<now, credited, asked, payment, handling, settled>>
  BY DEF Restart, requestVars
<1>2. \A x \in settled : x.epoch \in 0 .. epoch + 1 /\ x.epoch # epoch + 1
  BY DEF Typed
<1>3. settled \subseteq
        [nonce : Requests, delivery : 1 .. Deliveries, at : 0 .. MaxTime, epoch : 0 .. epoch + 1]
  BY <1>2 DEF Typed
<1>4. Typed'
  BY <1>1, <1>3 DEF Typed, Restart
<1>5. Remembered'
  BY <1>1, <1>2 DEF Remembered
<1> QED
  BY <1>1, <1>4, <1>5 DEF SettledOnce, WithinWindow, ExposureIsBounded

LEMMA TickHolds == IInv /\ Tick => IInv'
<1> SUFFICES ASSUME IInv, Tick PROVE IInv'
  OBVIOUS
<1> USE DEF IInv
<1>1. /\ now < MaxTime /\ now' = now + 1
      /\ UNCHANGED <<epoch, credited, balances, spent, asked, payment, handling, settled>>
  BY DEF Tick, ledgerVars, requestVars
<1>2. Typed'
  BY <1>1, ConstantsAssumption DEF Typed
<1>3. WithinWindow'
  <2>1. \A x \in settled : x.at \in Int /\ now \in Int
    BY DEF Typed
  <2> QED
    BY <1>1, <2>1 DEF WithinWindow
<1> QED
  BY <1>1, <1>2, <1>3 DEF Remembered, SettledOnce, ExposureIsBounded

\* A delivery is served for a settlement of its own.
ServedIsPaid == \A r \in Requests, k \in 1 .. Deliveries : handling[r][k] = "served" =>
  \E x \in settled : x.nonce = r /\ x.delivery = k

\* Only a step of Settle that settles for a delivery has it served; what was
\* settled stays settled.
LEMMA ServedStaysPaid == IInv /\ ServedIsPaid /\ [Next]_vars => ServedIsPaid'
<1> SUFFICES ASSUME IInv, ServedIsPaid, [Next]_vars PROVE ServedIsPaid'
  OBVIOUS
<1>1. ASSUME UNCHANGED <<handling, settled>> PROVE ServedIsPaid'
  BY <1>1 DEF ServedIsPaid
<1>2. ASSUME NEW r \in Requests, NEW k \in 1 .. Deliveries, Deliver(r, k) PROVE ServedIsPaid'
  BY <1>2 DEF Deliver, ServedIsPaid, IInv, Typed
<1>3. ASSUME NEW r \in Requests, NEW k \in 1 .. Deliveries, Verify(r, k) PROVE ServedIsPaid'
  <2> DEFINE problem == Problem(payment[r], payment[r].accepted)
  <2>1. PICK verdict \in Verdicts(problem) : handling' = [handling EXCEPT ![r][k] = verdict]
    BY <1>3 DEF Verify
  <2>2. verdict # "served"
    BY <2>1 DEF Verdicts, Refusal
  <2>3. UNCHANGED settled
    BY <1>3 DEF Verify
  <2> HIDE DEF problem
  <2> QED
    BY <2>1, <2>2, <2>3 DEF ServedIsPaid, IInv, Typed
<1>4. ASSUME NEW r \in Requests, NEW k \in 1 .. Deliveries, Settle(r, k) PROVE ServedIsPaid'
  <2> DEFINE problem == Problem(payment[r], payment[r].accepted)
  <2>1. PICK answer \in Answers(problem) : handling' = [handling EXCEPT ![r][k] = answer]
    BY <1>4 DEF Settle
  <2>2. settled \subseteq settled'
    BY <1>4 DEF Settle
  <2>3. answer = "served" => problem = None
    BY <2>1 DEF Answers, Refusal
  <2>4. problem = None => Settlement(r, k) \in settled'
    BY <1>4 DEF Settle
  <2>5. Settlement(r, k).nonce = r /\ Settlement(r, k).delivery = k
    BY DEF Settlement
  <2> HIDE DEF problem
  <2> QED
    BY <2>1, <2>2, <2>3, <2>4, <2>5 DEF ServedIsPaid, IInv, Typed
<1> QED
  BY <1>1, <1>2, <1>3, <1>4 DEF Next, vars, requestVars, Pay, Credit, AskBalance, Restart, Tick

LEMMA StutterHolds == IInv /\ UNCHANGED vars => IInv'
BY DEF vars, ledgerVars, requestVars, IInv, Typed, Remembered, SettledOnce, WithinWindow, ExposureIsBounded

(* The ledger remembers what this epoch settled, inside the window of each *)
(* payment (Verify, Settle).                                               *)
THEOREM Inductive == Spec => []IInv
<1>1. IInv /\ [Next]_vars => IInv'
  BY PayHolds, DeliverHolds, VerifyHolds, SettleHolds, CreditHolds, AskBalanceHolds,
     RestartHolds, TickHolds, StutterHolds DEF Next
<1> QED
  BY <1>1, InitHolds, PTL DEF Spec

\* The variables of Ledger are of their types, and what is spent was settled
\* by the ledger that runs now (Settle, check).
THEOREM Types == Spec => []TypeOK
<1>1. IInv => TypeOK
  BY DEF IInv, Typed, Remembered, TypeOK, States
<1> QED
  BY <1>1, Inductive, PTL

\* One ledger settles a nonce once, whatever was verified before, for any
\* number of requests, deliveries and accounts (Settle checks again).
THEOREM OneSettlement == Spec => []SettledOnce
<1>1. IInv => SettledOnce
  BY DEF IInv
<1> QED
  BY <1>1, Inductive, PTL

\* A restarted ledger settles a payment again at most MaxValidity after the
\* first time, for every length of window and every clock (check).
THEOREM BoundedExposure == Spec => []ExposureIsBounded
<1>1. IInv => ExposureIsBounded
  BY DEF IInv
<1> QED
  BY <1>1, Inductive, PTL

\* A request that is sent again is answered once by one ledger, and by a
\* restarted one only inside the payment's window, for any number of requests,
\* deliveries and restarts, and however the deliveries' verifications and
\* settlements interleave (Settle checks and marks the nonce under one lock).
THEOREM OneAnswer == Spec => []AnsweredOnce
<1>1. Init => ServedIsPaid
  BY DEF Init, ServedIsPaid
<1>2. IInv /\ ServedIsPaid => AnsweredOnce
  <2> SUFFICES ASSUME IInv, ServedIsPaid, NEW r \in Requests,
                      NEW j \in 1 .. Deliveries, NEW k \in 1 .. Deliveries,
                      j # k, handling[r][j] = "served", handling[r][k] = "served"
               PROVE  \E x, y \in settled :
                        /\ x.nonce = r /\ x.delivery = j
                        /\ y.nonce = r /\ y.delivery = k
                        /\ x.epoch # y.epoch
                        /\ x.at <= y.at + MaxValidity
                        /\ y.at <= x.at + MaxValidity
    BY DEF AnsweredOnce
  <2>1. PICK x \in settled : x.nonce = r /\ x.delivery = j
    BY DEF ServedIsPaid
  <2>2. PICK y \in settled : y.nonce = r /\ y.delivery = k
    BY DEF ServedIsPaid
  <2>3. x.epoch # y.epoch
    BY <2>1, <2>2 DEF IInv, SettledOnce
  <2>4. x.at <= y.at + MaxValidity /\ y.at <= x.at + MaxValidity
    BY <2>1, <2>2 DEF IInv, ExposureIsBounded
  <2> QED
    BY <2>1, <2>2, <2>3, <2>4
<1> QED
  BY <1>1, <1>2, ServedStaysPaid, Inductive, PTL DEF Spec
-----------------------------------------------------------------------------
(* Sums of amounts, as the number of the units that they count          *)

LEMMA UnitOf ==
  ASSUME NEW f, NEW S, NEW u
  PROVE  u \in Units(f, S) <=> \E a \in S : \E i \in 1 .. f[a] : u = <<a, i>>
BY DEF Units

\* A finite number of bounded amounts has a sum.
LEMMA SumType ==
  ASSUME NEW S, IsFiniteSet(S), NEW n \in Nat, NEW f, \A a \in S : f[a] \in 0 .. n
  PROVE  IsFiniteSet(Units(f, S)) /\ SumOver(f, S) \in Nat
<1>1. IsFiniteSet(S \X (1 .. n))
  <2>1. IsFiniteSet(1 .. n)
    BY FS_Interval
  <2> QED
    BY <2>1, FS_Product
<1>2. Units(f, S) \in SUBSET (S \X (1 .. n))
  BY DEF Units
<1>3. IsFiniteSet(Units(f, S))
  BY <1>1, <1>2, FS_Subset
<1> QED
  BY <1>3, FS_CardinalityType DEF SumOver

\* A sum depends on the amounts it adds up only.
LEMMA SumOfEquals ==
  ASSUME NEW S, NEW f, NEW g, \A a \in S : f[a] = g[a]
  PROVE  SumOver(f, S) = SumOver(g, S)
<1>1. Units(f, S) = Units(g, S)
  BY DEF Units
<1> QED
  BY <1>1 DEF SumOver

\* The sum over a single account is its amount.
LEMMA SumOfOne ==
  ASSUME NEW f, NEW a, f[a] \in Nat
  PROVE  SumOver(f, {a}) = f[a]
<1>1. Units(f, {a}) = {a} \X (1 .. f[a])
  BY DEF Units
<1>2. IsFiniteSet(1 .. f[a]) /\ Cardinality(1 .. f[a]) = f[a]
  BY FS_Interval
<1>3. IsFiniteSet({a}) /\ Cardinality({a}) = 1
  BY FS_Singleton
<1>4. Cardinality({a} \X (1 .. f[a])) = 1 * f[a]
  BY <1>2, <1>3, FS_Product
<1>5. 1 * f[a] = f[a]
  OBVIOUS
<1> QED
  BY <1>1, <1>4, <1>5 DEF SumOver

\* An account's amount adds to the sum over the others.
LEMMA SumWithout ==
  ASSUME NEW S, IsFiniteSet(S), NEW n \in Nat, NEW f, \A b \in S : f[b] \in 0 .. n, NEW a \in S
  PROVE  /\ SumOver(f, S) = SumOver(f, S \ {a}) + f[a]
         /\ SumOver(f, S \ {a}) \in Nat
<1>1. IsFiniteSet(S \ {a})
  BY FS_RemoveElement
<1>2. IsFiniteSet(Units(f, S \ {a})) /\ SumOver(f, S \ {a}) \in Nat
  BY <1>1, SumType
<1>3. IsFiniteSet({a})
  BY FS_Singleton
<1>4. IsFiniteSet(Units(f, {a})) /\ SumOver(f, {a}) \in Nat
  BY <1>3, SumType
<1>5. Units(f, S) = Units(f, S \ {a}) \cup Units(f, {a})
  BY DEF Units
<1>6. Units(f, S \ {a}) \cap Units(f, {a}) = {}
  BY DEF Units
<1>7. SumOver(f, S) = SumOver(f, S \ {a}) + SumOver(f, {a}) - Cardinality({})
  BY <1>2, <1>4, <1>5, <1>6, FS_Union DEF SumOver
<1>8. SumOver(f, {a}) = f[a] /\ f[a] \in Nat
  BY SumOfOne
<1>9. Cardinality({}) = 0
  BY FS_EmptySet
<1> QED
  BY <1>2, <1>7, <1>8, <1>9

\* One account changes: so does the sum, by as much.
LEMMA SumOfChange ==
  ASSUME NEW S, IsFiniteSet(S), NEW n \in Nat, NEW f \in [S -> 0 .. n], NEW g \in [S -> 0 .. n],
         NEW a \in S, \A b \in S \ {a} : g[b] = f[b]
  PROVE  SumOver(g, S) = SumOver(f, S) - f[a] + g[a]
<1>1. SumOver(g, S \ {a}) = SumOver(f, S \ {a})
  BY SumOfEquals
<1>2. /\ SumOver(f, S) = SumOver(f, S \ {a}) + f[a]
      /\ SumOver(f, S \ {a}) \in Nat
  BY SumWithout
<1>3. SumOver(g, S) = SumOver(g, S \ {a}) + g[a]
  BY SumWithout
<1>4. f[a] \in Int /\ g[a] \in Int
  OBVIOUS
<1> QED
  BY <1>1, <1>2, <1>3, <1>4

\* Some accounts get an amount where they had none.
LEMMA SumOfGrants ==
  ASSUME NEW S, IsFiniteSet(S), NEW T \in SUBSET S, NEW n \in Nat,
         NEW f \in [S -> 0 .. n], NEW g \in [S -> 0 .. n], NEW h \in [S -> 0 .. n],
         \A a \in T : (f[a] = 0 \/ h[a] = 0) /\ g[a] = f[a] + h[a],
         \A a \in S \ T : g[a] = f[a]
  PROVE  SumOver(g, S) = SumOver(f, S) + SumOver(h, T) /\ SumOver(h, T) \in Nat
<1>1. IsFiniteSet(T)
  BY FS_Subset
<1>2. IsFiniteSet(Units(f, S)) /\ SumOver(f, S) \in Nat
  BY SumType
<1>3. IsFiniteSet(Units(h, T)) /\ SumOver(h, T) \in Nat
  BY <1>1, SumType
<1>4. Units(g, S) = Units(f, S) \cup Units(h, T)
  <2>1. ASSUME NEW a \in T, NEW i
        PROVE  i \in 1 .. g[a] <=> i \in 1 .. f[a] \/ i \in 1 .. h[a]
    <3>1. f[a] \in 0 .. n /\ h[a] \in 0 .. n
      OBVIOUS
    <3>2. (f[a] = 0 /\ g[a] = h[a]) \/ (h[a] = 0 /\ g[a] = f[a])
      BY <3>1
    <3> QED
      BY <3>1, <3>2
  <2>2. ASSUME NEW u PROVE u \in Units(g, S) <=> u \in Units(f, S) \/ u \in Units(h, T)
    BY <2>1, UnitOf
  <2> QED
    BY <2>2
<1>5. Units(f, S) \cap Units(h, T) = {}
  <2>1. ASSUME NEW u, u \in Units(f, S), u \in Units(h, T) PROVE FALSE
    <3>1. PICK a \in S : \E i \in 1 .. f[a] : u = <<a, i>>
      BY <2>1, UnitOf
    <3>2. PICK b \in T : \E i \in 1 .. h[b] : u = <<b, i>>
      BY <2>1, UnitOf
    <3>3. a = b
      BY <3>1, <3>2
    <3>4. f[a] = 0 \/ h[a] = 0
      BY <3>2, <3>3
    <3> QED
      BY <3>1, <3>2, <3>3, <3>4
  <2> QED
    BY <2>1
<1>6. SumOver(g, S) = SumOver(f, S) + SumOver(h, T) - 0
  BY <1>2, <1>3, <1>4, <1>5, FS_Union, FS_EmptySet DEF SumOver
<1> QED
  BY <1>2, <1>3, <1>6
-----------------------------------------------------------------------------
(* What was given out is what the accounts hold, and what wrapped around.  *)
HeldIn(b) == [a \in Accounts |-> IF b[a] = None THEN 0 ELSE b[a]]
TotalIn(b) == SumOver(HeldIn(b), Accounts)
Total == SumOver(Held, Accounts)
Balanced == minted \in Nat /\ \E w \in Nat : minted = Total + w * Modulus

LEMMA HeldType ==
  ASSUME Typed
  PROVE  /\ Held \in [Accounts -> 0 .. Modulus - 1]
         /\ Total \in Nat
         /\ \A a \in Accounts : Held[a] <= Total
<1>1. 0 \in 0 .. Modulus - 1 /\ Modulus - 1 \in Nat
  BY Widths
<1>2. Held \in [Accounts -> 0 .. Modulus - 1]
  BY <1>1 DEF Typed, Held
<1>3. IsFiniteSet(Accounts)
  BY ConstantsAssumption
<1> HIDE DEF Held
<1>4. Total \in Nat
  BY <1>1, <1>2, <1>3, SumType DEF Total
<1>5. ASSUME NEW a \in Accounts PROVE Held[a] <= Total
  <2>1. /\ Total = SumOver(Held, Accounts \ {a}) + Held[a]
        /\ SumOver(Held, Accounts \ {a}) \in Nat
    BY <1>1, <1>2, <1>3, SumWithout DEF Total
  <2>2. Held[a] \in Nat
    BY <1>1, <1>2
  <2> QED
    BY <2>1, <2>2
<1> QED
  BY <1>2, <1>4, <1>5

\* The sum is right up to the width of a balance, and exactly right as long
\* as what was given out fits one.
LEMMA BalancedIsKept ==
  ASSUME Typed, Balanced
  PROVE  CreditIsKept
<1>1. PICK w \in Nat : minted = Total + w * Modulus
  BY DEF Balanced
<1>2. Total \in Nat /\ minted \in Nat /\ \A a \in Accounts : Held[a] <= Total
  BY HeldType DEF Balanced
<1>3. Conserved
  BY <1>1, <1>2, Widths, SameRemainder DEF Conserved, Total
<1>4. NoOverdraft
  <2> SUFFICES ASSUME NEW a \in Accounts, balances[a] # None PROVE balances[a] <= minted
    BY DEF NoOverdraft
  <2>1. w * Modulus \in Nat
    BY <1>1, Widths
  <2>2. Total <= minted
    BY <1>1, <1>2, <2>1
  <2>3. balances[a] = Held[a] /\ Held[a] \in Nat
    BY HeldType, Widths DEF Held
  <2> QED
    BY <1>2, <2>2, <2>3
<1> QED
  BY <1>3, <1>4 DEF CreditIsKept

\* What wraps around when a number is cut to the width of a balance.
LEMMA Wraps ==
  ASSUME NEW x \in Nat
  PROVE  \E k \in Nat : x = k * Modulus + (x % Modulus)
<1>0. x \in Int /\ Modulus \in Nat \ {0}
  BY Widths
<1>1. PICK k \in Int : x = k * Modulus + (x % Modulus)
  BY <1>0, Quotient
<1>2. x % Modulus \in 0 .. Modulus - 1
  BY Widths, Remainder
<1>3. k * Modulus \in Int /\ Modulus \in Nat \ {0}
  BY <1>1, Widths
<1>4. k * Modulus > -Modulus
  <2> DEFINE y == k * Modulus
             z == x % Modulus
  <2>1. x = y + z
    BY <1>1
  <2> HIDE DEF y, z
  <2>2. y > -Modulus
    BY <1>2, <1>3, <2>1 DEF y, z
  <2> QED
    BY <2>2 DEF y
<1>5. ~(k <= -1)
  BY <1>1, <1>3, <1>4
<1>6. k \in Nat
  BY <1>1, <1>5
<1> QED
  BY <1>1, <1>6

LEMMA NoneIsNoAmount == None \notin 0 .. Modulus - 1
BY NoneAssumption

\* Seeing accounts adds what the faucet grants them.
LEMMA SeeAdds ==
  ASSUME Typed, NEW S \in SUBSET Accounts
  PROVE  TotalIn(See(S)) = Total + Grants(S) /\ Grants(S) \in Nat
<1> DEFINE g == HeldIn(See(S))
           h == [a \in Accounts |-> Granted(a)]
<1>1. 0 \in 0 .. Modulus - 1 /\ Modulus - 1 \in Nat /\ Faucet \in 0 .. Modulus - 1
  BY Widths
<1>2. Held \in [Accounts -> 0 .. Modulus - 1]
  BY HeldType
<1>3. h \in [Accounts -> 0 .. Modulus - 1]
  BY <1>1 DEF Granted
<1>4. See(S) \in [Accounts -> 0 .. Modulus - 1 \cup {None}]
  BY SeeType
<1>5. g \in [Accounts -> 0 .. Modulus - 1]
  BY <1>1, <1>4 DEF HeldIn
<1>6. \A a \in S : (Held[a] = 0 \/ h[a] = 0) /\ g[a] = Held[a] + h[a]
  <2> SUFFICES ASSUME NEW a \in S
               PROVE  (Held[a] = 0 \/ h[a] = 0) /\ g[a] = Held[a] + h[a]
    OBVIOUS
  <2>1. CASE balances[a] = None
    BY <1>1, <2>1, NoneIsNoAmount DEF Held, HeldIn, See, Balance, Granted
  <2>2. CASE balances[a] # None
    <3>1. Held[a] = balances[a] /\ h[a] = 0 /\ g[a] = balances[a]
      BY <2>2 DEF Held, HeldIn, See, Balance, Granted
    <3>2. balances[a] \in Int
      BY <1>1, <1>2, <3>1
    <3> QED
      BY <3>1, <3>2
  <2> QED
    BY <2>1, <2>2
<1>7. \A a \in Accounts \ S : g[a] = Held[a]
  BY DEF Held, HeldIn, See
<1>8. IsFiniteSet(Accounts)
  BY ConstantsAssumption
<1>9. SumOver(g, Accounts) = SumOver(Held, Accounts) + SumOver(h, S) /\ SumOver(h, S) \in Nat
  <2> DEFINE n == Modulus - 1
             f == Held
  <2>1. /\ n \in Nat /\ f \in [Accounts -> 0 .. n] /\ g \in [Accounts -> 0 .. n]
        /\ h \in [Accounts -> 0 .. n]
        /\ \A a \in S : (f[a] = 0 \/ h[a] = 0) /\ g[a] = f[a] + h[a]
        /\ \A a \in Accounts \ S : g[a] = f[a]
    BY <1>1, <1>2, <1>3, <1>5, <1>6, <1>7
  <2> HIDE DEF n, f, g, h
  <2>2. SumOver(g, Accounts) = SumOver(f, Accounts) + SumOver(h, S) /\ SumOver(h, S) \in Nat
    BY <1>8, <2>1, SumOfGrants
  <2> QED
    BY <2>2 DEF f
<1> HIDE DEF g, h
<1> QED
  BY <1>9 DEF TotalIn, Total, Grants, g, h

\* A change of one balance changes the sum by as much.
LEMMA ChangeAdds ==
  ASSUME NEW b \in [Accounts -> 0 .. Modulus - 1 \cup {None}], NEW a \in Accounts,
         b[a] \in 0 .. Modulus - 1, NEW v \in 0 .. Modulus - 1
  PROVE  TotalIn([b EXCEPT ![a] = v]) = TotalIn(b) - b[a] + v /\ TotalIn(b) \in Nat
<1> DEFINE f == HeldIn(b)
           g == HeldIn([b EXCEPT ![a] = v])
<1>1. 0 \in 0 .. Modulus - 1 /\ Modulus - 1 \in Nat
  BY Widths
<1>2. f \in [Accounts -> 0 .. Modulus - 1] /\ f[a] = b[a]
  BY <1>1, NoneIsNoAmount DEF HeldIn
<1>3. g \in [Accounts -> 0 .. Modulus - 1] /\ g[a] = v
  BY <1>1, NoneIsNoAmount DEF HeldIn
<1>4. \A c \in Accounts \ {a} : g[c] = f[c]
  BY DEF HeldIn
<1>5. IsFiniteSet(Accounts)
  BY ConstantsAssumption
<1> HIDE DEF f, g
<1>6. SumOver(g, Accounts) = SumOver(f, Accounts) - f[a] + g[a]
  BY <1>1, <1>2, <1>3, <1>4, <1>5, SumOfChange
<1>7. SumOver(f, Accounts) \in Nat
  BY <1>1, <1>2, <1>5, SumType
<1> QED
  BY <1>2, <1>3, <1>6, <1>7 DEF TotalIn, f, g

\* What the balances are set to and what is given out stay in balance, but
\* for what wraps around.
LEMMA StaysBalanced ==
  ASSUME Typed, Balanced, NEW g \in Nat, NEW k \in Nat, TotalIn(balances') \in Int,
         TotalIn(balances') + k * Modulus = Total + g, minted' = minted + g
  PROVE  Balanced'
<1> DEFINE t == TotalIn(balances')
<1>1. PICK w \in Nat : minted = Total + w * Modulus
  BY DEF Balanced
<1>2. (w + k) * Modulus = w * Modulus + k * Modulus /\ w + k \in Nat
  BY <1>1, Widths
<1>3. w * Modulus \in Nat /\ k * Modulus \in Nat
  BY <1>1, Widths
<1>4. Total \in Nat /\ minted \in Nat
  BY HeldType DEF Balanced
<1>5. t = Total'
  BY DEF TotalIn, Total, HeldIn, Held
<1> HIDE DEF t
<1>6. minted + g = t + (w + k) * Modulus
  <2> DEFINE wm == w * Modulus
             km == k * Modulus
  <2>1. t + km = Total + g /\ minted = Total + wm /\ t \in Int
    BY <1>1 DEF t
  <2> HIDE DEF wm, km
  <2>2. minted + g = t + (wm + km)
    BY <1>3, <1>4, <2>1 DEF wm, km
  <2> QED
    BY <1>2, <2>2 DEF wm, km
<1>7. minted' \in Nat
  BY <1>4
<1> QED
  BY <1>2, <1>5, <1>6, <1>7 DEF Balanced

\* Credit moves between accounts that are seen: none is lost but what the
\* payee's balance cannot hold.
LEMMA MoveKeeps ==
  ASSUME Typed, NEW r \in Requests, asked[r] = "paid",
         Balance(payment[r].auth.from) >= payment[r].auth.value
  PROVE  LET a == payment[r].auth
             b == See({a.from, a.to})
         IN \E k \in Nat : TotalIn(MoveTo(b, a)) = TotalIn(b) - k * Modulus
<1> DEFINE a == payment[r].auth
           b == See({a.from, a.to})
           less == [b EXCEPT ![a.from] = (@ - a.value) % Modulus]
           left == b[a.from] - a.value
<1>1. a.from \in Accounts /\ a.to \in Accounts /\ a.value \in Nat
  BY DEF Typed, PaymentOK
<1>2. b \in [Accounts -> 0 .. Modulus - 1 \cup {None}]
  BY <1>1, SeeType
<1>3. b[a.from] \in 0 .. Modulus - 1 /\ b[a.to] \in 0 .. Modulus - 1 /\ b[a.from] >= a.value
  BY <1>1, BalanceType DEF See
<1> HIDE DEF b
<1>4. left \in 0 .. Modulus - 1 /\ left % Modulus = left
  <2>1. left \in 0 .. Modulus - 1
    BY <1>1, <1>3, Widths
  <2>2. left \in Int /\ Modulus \in Int /\ Modulus > 0 /\ 0 <= left /\ left < Modulus
    BY <2>1, Widths
  <2> HIDE DEF left
  <2>3. left % Modulus = left
    BY <2>2
  <2> QED
    BY <2>1, <2>3
<1>5. less = [b EXCEPT ![a.from] = left]
  BY <1>4
<1>6. less \in [Accounts -> 0 .. Modulus - 1 \cup {None}] /\ less[a.to] \in 0 .. Modulus - 1
  BY <1>1, <1>2, <1>3, <1>4, <1>5
<1>7. TotalIn(less) = TotalIn(b) - b[a.from] + left /\ TotalIn(b) \in Nat
  <2> DEFINE p == a.from
  <2>1. /\ p \in Accounts /\ b[p] \in 0 .. Modulus - 1 /\ left \in 0 .. Modulus - 1
        /\ less = [b EXCEPT ![p] = left]
    BY <1>1, <1>3, <1>4, <1>5
  <2> HIDE DEF p, less, left
  <2>2. TotalIn(less) = TotalIn(b) - b[p] + left /\ TotalIn(b) \in Nat
    BY <1>2, <2>1, ChangeAdds
  <2> QED
    BY <2>2 DEF p
<1>8. TotalIn(less) = TotalIn(b) - a.value
  <2>1. b[a.from] \in Int
    BY <1>3
  <2> HIDE DEF less
  <2> QED
    BY <1>1, <1>7, <2>1
<1> DEFINE more == less[a.to] + a.value
<1>9. MoveTo(b, a) = [less EXCEPT ![a.to] = more % Modulus]
  BY <1>1, <1>6 DEF MoveTo
<1> HIDE DEF less, left
<1>10. more \in Nat /\ less[a.to] \in Int
  BY <1>1, <1>6, Widths
<1>11. more % Modulus \in 0 .. Modulus - 1
  BY <1>10, Widths, Remainder
<1>12. PICK k \in Nat : more = k * Modulus + (more % Modulus)
  BY <1>10, Wraps
<1>13. TotalIn(MoveTo(b, a)) = TotalIn(less) - less[a.to] + (more % Modulus)
  <2> DEFINE p == a.to
             v == more % Modulus
  <2>1. /\ p \in Accounts /\ less[p] \in 0 .. Modulus - 1 /\ v \in 0 .. Modulus - 1
        /\ MoveTo(b, a) = [less EXCEPT ![p] = v]
        /\ less \in [Accounts -> 0 .. Modulus - 1 \cup {None}]
    BY <1>1, <1>6, <1>9, <1>11
  <2> HIDE DEF p, v
  <2>2. TotalIn([less EXCEPT ![p] = v]) = TotalIn(less) - less[p] + v
    BY <2>1, ChangeAdds
  <2> QED
    BY <2>1, <2>2 DEF p, v
<1>14. TotalIn(MoveTo(b, a)) = TotalIn(b) - k * Modulus
  <2> DEFINE km == k * Modulus
             rest == more % Modulus
             c == less[a.to]
  <2>1. km \in Int /\ rest \in Int /\ c \in Int
    BY <1>10, <1>11, <1>12, Widths
  <2>2. /\ c + a.value = km + rest
        /\ TotalIn(MoveTo(b, a)) = TotalIn(less) - c + rest
        /\ TotalIn(less) = TotalIn(b) - a.value
    BY <1>8, <1>12, <1>13
  <2> HIDE DEF km, rest, c, more
  <2>3. TotalIn(MoveTo(b, a)) = TotalIn(b) - km
    BY <1>1, <1>7, <2>1, <2>2
  <2> QED
    BY <2>3 DEF km
<1> QED
  BY <1>14 DEF b

-----------------------------------------------------------------------------
(* Each step keeps the balance                                             *)

LEMMA SeeingBalances ==
  ASSUME Typed, Balanced, NEW S \in SUBSET Accounts,
         balances' = See(S), minted' = minted + Grants(S)
  PROVE  Balanced'
<1>1. TotalIn(balances') = Total + Grants(S) /\ Grants(S) \in Nat /\ Total \in Nat
  BY SeeAdds, HeldType
<1>2. 0 * Modulus = 0
  BY Widths
<1>3. TotalIn(balances') + 0 * Modulus = Total + Grants(S) /\ TotalIn(balances') \in Int
  BY <1>1, <1>2
<1> QED
  BY <1>1, <1>3, StaysBalanced

\* What the payer has to cover is checked last.
LEMMA Covered ==
  ASSUME Typed, NEW r \in Requests, asked[r] = "paid", NEW req, Problem(payment[r], req) = None
  PROVE  Balance(payment[r].auth.from) >= payment[r].auth.value
<1> DEFINE a == payment[r].auth
<1>1. a.from \in Accounts /\ a.value \in Nat
  BY DEF Typed, PaymentOK
<1>2. Balance(a.from) \in Int
  BY <1>1, BalanceType, Widths
<1>3. ~(Balance(a.from) < a.value)
  BY NoneAssumption DEF Problem
<1> QED
  BY <1>1, <1>2, <1>3

\* The payer's balance covers the payment, whatever was settled since Verify.
LEMMA SettleBalances ==
  ASSUME IInv, Balanced, NEW r \in Requests, NEW k \in 1 .. Deliveries, Settle(r, k)
  PROVE  Balanced'
<1> DEFINE a == payment[r].auth
           problem == Problem(payment[r], payment[r].accepted)
           S == {a.from, a.to}
<1>1. Typed /\ asked[r] = "paid"
  BY DEF Settle, IInv, Typed
<1>2. CASE problem # None
  BY <1>1, <1>2, SeenType, SeeingBalances DEF Settle
<1>3. CASE problem = None
  <2>1. balances' = MoveTo(See(S), a) /\ minted' = minted + Grants(S)
    BY <1>3 DEF Settle
  <2>2. S \in SUBSET Accounts
    BY <1>1 DEF Typed, PaymentOK
  <2>3. Balance(a.from) >= a.value
    BY <1>1, <1>3, Covered
  <2>4. PICK w \in Nat : TotalIn(MoveTo(See(S), a)) = TotalIn(See(S)) - w * Modulus
    BY <1>1, <2>3, MoveKeeps
  <2> HIDE DEF a, S, problem
  <2>5. TotalIn(See(S)) = Total + Grants(S) /\ Grants(S) \in Nat /\ Total \in Nat
    BY <1>1, <2>2, SeeAdds, HeldType
  <2>6. TotalIn(balances') + w * Modulus = Total + Grants(S) /\ TotalIn(balances') \in Int
    <3>1. w * Modulus \in Int
      BY <2>4, Widths
    <3> QED
      BY <2>1, <2>4, <2>5, <3>1
  <2> QED
    BY <1>1, <2>1, <2>4, <2>5, <2>6, StaysBalanced
<1> QED
  BY <1>2, <1>3

\* A credit adds to the faucet's grant; what does not fit wraps around.
LEMMA CreditBalances ==
  ASSUME Typed, Balanced, Credit
  PROVE  Balanced'
<1>1. PICK e \in credited :
        /\ balances' = [balances EXCEPT ![e[1]] = (Balance(e[1]) + e[2]) % Modulus]
        /\ minted' = minted + Grants({e[1]}) + e[2]
  BY DEF Credit
<1> DEFINE p == e[1]
           v == e[2]
           b == See({p})
           more == Balance(p) + v
           rest == more % Modulus
<1>2. p \in Accounts /\ v \in Nat
  BY OffersAssumption DEF Typed
<1>3. Balance(p) \in 0 .. Modulus - 1 /\ Balance(p) \in Nat
  BY <1>2, BalanceType, Widths
<1>4. /\ b \in [Accounts -> 0 .. Modulus - 1 \cup {None}]
      /\ b[p] = Balance(p)
      /\ balances' = [b EXCEPT ![p] = rest]
  <2>1. b \in [Accounts -> 0 .. Modulus - 1 \cup {None}]
    BY <1>2, SeeType
  <2>2. b[p] = Balance(p) /\ \A c \in Accounts \ {p} : b[c] = balances[c]
    BY <1>2 DEF See
  <2>3. balances' = [balances EXCEPT ![p] = rest] /\ DOMAIN balances = Accounts
    BY <1>1 DEF Typed
  <2> HIDE DEF b, p, rest
  <2> QED
    BY <1>2, <2>1, <2>2, <2>3
<1>5. minted' = minted + Grants({p}) + v
  BY <1>1
<1>6. TotalIn(b) = Total + Grants({p}) /\ Grants({p}) \in Nat /\ Total \in Nat
  BY <1>2, SeeAdds, HeldType
<1> HIDE DEF p, v, b
<1>7. more \in Nat
  BY <1>2, <1>3
<1> HIDE DEF more
<1>8. rest \in 0 .. Modulus - 1 /\ rest \in Int
  BY <1>7, Widths, Remainder
<1>9. PICK k \in Nat : more = k * Modulus + rest
  BY <1>7, Wraps
<1> HIDE DEF rest
<1>10. TotalIn(balances') = TotalIn(b) - b[p] + rest
  BY <1>2, <1>3, <1>4, <1>8, ChangeAdds
<1>11. TotalIn(balances') + k * Modulus = Total + (Grants({p}) + v) /\ TotalIn(balances') \in Int
  <2> DEFINE km == k * Modulus
  <2>1. km \in Int
    BY <1>9, Widths
  <2>2. Balance(p) + v = km + rest
    BY <1>9 DEF more
  <2> HIDE DEF km
  <2>3. TotalIn(balances') + km = Total + (Grants({p}) + v) /\ TotalIn(balances') \in Int
    BY <1>2, <1>3, <1>4, <1>6, <1>8, <1>10, <2>1, <2>2
  <2> QED
    BY <2>3 DEF km
<1>12. minted' = minted + (Grants({p}) + v) /\ Grants({p}) + v \in Nat
  BY <1>2, <1>5, <1>6 DEF Balanced
<1> QED
  BY <1>9, <1>11, <1>12, StaysBalanced

\* Where nobody holds anything, the sum is zero.
LEMMA SumOfNothing ==
  ASSUME NEW f, \A a \in Accounts : f[a] = 0
  PROVE  SumOver(f, Accounts) = 0
<1>1. Units(f, Accounts) = {}
  <2>1. ASSUME NEW u PROVE u \notin Units(f, Accounts)
    BY UnitOf
  <2> QED
    BY <2>1
<1> QED
  BY <1>1, FS_EmptySet DEF SumOver

LEMMA InitBalances == Init => Balanced
<1> SUFFICES ASSUME Init PROVE Balanced
  OBVIOUS
<1>1. \A a \in Accounts : Held[a] = 0
  BY DEF Init, Held
<1>2. Total = 0 /\ 0 * Modulus = 0
  BY <1>1, SumOfNothing, Widths DEF Total
<1>3. minted = Total + 0 * Modulus /\ minted = 0
  BY <1>2 DEF Init
<1> QED
  BY <1>3 DEF Balanced

\* A restarted ledger has given nothing out, and nobody holds anything.
LEMMA RestartBalances == Restart => Balanced'
<1> SUFFICES ASSUME Restart PROVE Balanced'
  OBVIOUS
<1>1. \A a \in Accounts : Held'[a] = 0
  BY DEF Restart, Held
<1>2. Total' = 0 /\ 0 * Modulus = 0
  BY <1>1, SumOfNothing, Widths DEF Total
<1>3. minted' = Total' + 0 * Modulus /\ minted' = 0
  BY <1>2 DEF Restart
<1> QED
  BY <1>3 DEF Balanced

LEMMA BalancedHolds == IInv /\ Balanced /\ [Next]_vars => Balanced'
<1> SUFFICES ASSUME IInv, Balanced, [Next]_vars PROVE Balanced'
  OBVIOUS
<1>0. Typed
  BY DEF IInv
<1>1. ASSUME UNCHANGED <<balances, minted>> PROVE Balanced'
  BY <1>1 DEF Balanced, Total, Held
<1>2. ASSUME NEW r \in Requests, NEW k \in 1 .. Deliveries, Verify(r, k) PROVE Balanced'
  <2>1. asked[r] = "paid"
    BY <1>0, <1>2 DEF Verify, Typed
  <2> QED
    BY <1>0, <1>2, <2>1, SeenType, SeeingBalances DEF Verify
<1>3. ASSUME AskBalance PROVE Balanced'
  <2>1. PICK a \in Accounts : balances' = See({a}) /\ minted' = minted + Grants({a})
    BY <1>3 DEF AskBalance
  <2> QED
    BY <1>0, <2>1, SeeingBalances
<1>4. ASSUME NEW r \in Requests, Pay(r) PROVE Balanced'
  BY <1>1, <1>4 DEF Pay, ledgerVars
<1>5. ASSUME NEW r \in Requests, NEW k \in 1 .. Deliveries, Deliver(r, k) PROVE Balanced'
  BY <1>1, <1>5 DEF Deliver, ledgerVars
<1>6. ASSUME Tick PROVE Balanced'
  BY <1>1, <1>6 DEF Tick, ledgerVars
<1>7. ASSUME UNCHANGED vars PROVE Balanced'
  BY <1>1, <1>7 DEF vars, ledgerVars
<1> QED
  BY <1>0, <1>2, <1>3, <1>4, <1>5, <1>6, <1>7, SettleBalances, CreditBalances, RestartBalances DEF Next

\* Payments neither make nor lose credit: for any accounts, requests, amounts
\* and width, the balances add up to what Credit and the faucet gave out, and
\* no balance exceeds it, as long as it fits a balance; so no payment between
\* Verify and Settle has taken a balance below zero (Settle, Credit, account).
THEOREM CreditKept == Spec => []CreditIsKept
<1>1. IInv /\ Balanced => CreditIsKept
  BY BalancedIsKept DEF IInv
<1> QED
  BY <1>1, Inductive, InitBalances, BalancedHolds, PTL DEF Spec
=============================================================================
