------------------------------- MODULE Ledger -------------------------------
(***************************************************************************)
(* x402iroh: clients ask servers for a resource, wallets sign a payment    *)
(* for what the challenge asks, servers have the ledger verify and settle  *)
(* it before they answer.  The ledger keeps balances and spent nonces in   *)
(* memory.                                                                 *)
(*                                                                         *)
(* Abstractions.  An account is an endpoint ID in its canonical form.  A   *)
(* nonce is fresh, so a payment's nonce is the request it pays for.  Time  *)
(* is in the units of the validity window; wallets' clocks may run ahead   *)
(* of the ledger's.  The paywall and the HTTP client come from other       *)
(* repositories: the first verifies, then settles, then answers; the       *)
(* second may send a request again on another connection.  A restarted     *)
(* ledger is one that its servers reach again: the package allows it, the  *)
(* demonstration command gives it another key.                             *)
(***************************************************************************)
EXTENDS Integers, Sequences, FiniteSets

CONSTANTS
  Accounts,    \* endpoint IDs
  Requests,    \* requests of clients' programs
  Client,      \* Client[r]: the account whose wallet pays
  Server,      \* Server[r]: the account that is asked
  Accepts,     \* Accepts[s]: the requirements in s's challenge, in order
  MaxAmount,   \* MaxAmount[c]: the cap of c's wallet, zero for none
  Ahead,       \* Ahead[c]: by how much c's clock is ahead of the ledger's
  Faucet,      \* the balance of an account when it is first seen
  Credits,     \* the pairs <<account, amount>> the ledger's program credits
  MaxValidity, \* how far in the future a payment's window may end
  DefaultTimeout, \* the length of the window where a requirement names none
  Skew,        \* by how much a wallet backdates the start of the window
  Modulus,     \* balances are of this width: 2^64 in the code
  Deliveries,  \* bound: how often a paid request is sent
  MaxTime,     \* bound: the clock
  MaxRestarts, \* bound: how often the ledger restarts
  None

Scheme == "exact"
Network == "iroh:ed25519"

ASSUME ConstantsAssumption ==
  /\ IsFiniteSet(Accounts)
  /\ Client \in [Requests -> Accounts]
  /\ Server \in [Requests -> Accounts]
  /\ MaxValidity \in Nat
  /\ Skew \in Nat
  /\ Faucet \in Nat
  /\ Modulus \in Nat \ {0}
  /\ Faucet < Modulus
  /\ Ahead \in [Accounts -> Nat]
  /\ DefaultTimeout \in Nat
  /\ Deliveries \in Nat
  /\ MaxTime \in Nat

ASSUME OffersAssumption ==
  /\ Credits \subseteq Accounts \X Nat
  /\ \A s \in Accounts : \A i \in DOMAIN Accepts[s] :
       /\ Accepts[s][i].payTo \in Accounts
       /\ Accepts[s][i].amount \in Nat
       /\ Accepts[s][i].timeout \in Nat

ASSUME NoneAssumption ==
  /\ None \notin {"invalid", "not yet valid", "insufficient funds"}
  /\ None \notin 0 .. Modulus - 1

VARIABLES
  now,      \* the ledger's clock
  balances, \* balances[a], or None where a has not been seen
  spent,    \* nonces of settled payments
  epoch,    \* how often the ledger has been restarted
  credited, \* what is yet to be credited
  asked,    \* where the client of a request is
  payment,  \* the payment of a request, or None
  handling, \* handling[r][k]: where the k-th delivery's handler is
  settled,  \* history: which delivery was settled when, by which ledger
  minted    \* history: what Credit and the faucet have given out, in an epoch

ledgerVars == <<balances, spent, minted>>
requestVars == <<asked, payment, handling>>
vars == <<now, epoch, credited, ledgerVars, requestVars, settled>>

-----------------------------------------------------------------------------
(* The wallet *)

\* A signature shows who signed which message.
SignAuthorization(signer, network, a) == [by |-> signer, message |-> <<network, a>>]
VerifyAuthorization(network, p) == p.signature = SignAuthorization(p.auth.from, network, p.auth)

Timeout(req) == IF req.timeout = 0 THEN DefaultTimeout ELSE req.timeout

Authorization(r, req) ==
  [from |-> Client[r], to |-> req.payTo, value |-> req.amount, nonce |-> r,
   validAfter |-> now + Ahead[Client[r]] - Skew,
   validBefore |-> now + Ahead[Client[r]] + Timeout(req)]

Payment(r, req) ==
  LET a == Authorization(r, req)
  IN [auth |-> a, signature |-> SignAuthorization(Client[r], req.network, a), accepted |-> req]

Payable(c, req) ==
  /\ req.scheme = Scheme
  /\ req.network = Network
  /\ MaxAmount[c] = 0 \/ req.amount <= MaxAmount[c]

\* The first requirement that the wallet can pay.
IsFirstPayable(c, accepts, i) ==
  /\ Payable(c, accepts[i])
  /\ \A j \in 1 .. i - 1 : ~Payable(c, accepts[j])

-----------------------------------------------------------------------------
(* The ledger *)

\* account: an account gets the faucet's balance when it is first seen.
Balance(a) == IF balances[a] = None THEN Faucet ELSE balances[a]
Granted(a) == IF balances[a] = None THEN Faucet ELSE 0

\* What the payment says is what the requirements ask.
Matches(a, req) ==
  /\ req.scheme = Scheme
  /\ req.network = Network
  /\ a.to = req.payTo
  /\ a.value = req.amount

\* Variation: windows of any length.
InWindowOfAnyLength(a) == a.validAfter <= now /\ now <= a.validBefore

InWindow(a) ==
  /\ a.validAfter <= now
  /\ now <= a.validBefore
  /\ a.validBefore <= now + MaxValidity

\* What is wrong with a payment, in the order of the checks; None if nothing.
Problem(p, req) ==
  LET a == p.auth
  IN IF ~Matches(a, req) THEN "invalid"
     ELSE IF now < a.validAfter THEN "not yet valid"
     ELSE IF ~InWindow(a) \/ a.nonce \in spent \/ ~VerifyAuthorization(req.network, p) THEN "invalid"
     ELSE IF Balance(a.from) < a.value THEN "insufficient funds"
     ELSE None

\* The check of the balance is the last, and the one that sees the payer.
SeenWith(p, problem) == IF problem \in {None, "insufficient funds"} THEN {p.auth.from} ELSE {}

\* What a server makes of the ledger's refusal.
Refusal(problem) == IF problem = "not yet valid" THEN "early" ELSE "refused"

\* The server goes on only where it learns what the ledger did; its
\* connection to the ledger may be lost before that.
Verdicts(problem) == IF problem = None THEN {"verified", "refused"} ELSE {Refusal(problem)}
Answers(problem) == IF problem = None THEN {"served", "refused"} ELSE {Refusal(problem)}

\* Every account in S is seen.
See(S) == [a \in Accounts |-> IF a \in S THEN Balance(a) ELSE balances[a]]

\* The sum of f over S is the number of the units that f counts, one by one.
Units(f, S) == UNION {{a} \X (1 .. f[a]) : a \in S}
SumOver(f, S) == Cardinality(Units(f, S))
Held == [a \in Accounts |-> IF balances[a] = None THEN 0 ELSE balances[a]]
Grants(S) == SumOver([a \in Accounts |-> Granted(a)], S)

Settlement(r, k) == [nonce |-> r, delivery |-> k, at |-> now, epoch |-> epoch]

\* From the payer, then to the payee, who may be the payer.
MoveTo(b, a) ==
  LET less == [b EXCEPT ![a.from] = (@ - a.value) % Modulus]
  IN [less EXCEPT ![a.to] = (@ + a.value) % Modulus]

-----------------------------------------------------------------------------
Init ==
  /\ now = 0
  /\ balances = [a \in Accounts |-> None]
  /\ spent = {}
  /\ epoch = 0
  /\ credited = Credits
  /\ asked = [r \in Requests |-> "idle"]
  /\ payment = [r \in Requests |-> None]
  /\ handling = [r \in Requests |-> [k \in 1 .. Deliveries |-> "none"]]
  /\ settled = {}
  /\ minted = 0

(* Clients *)

\* The server answers the bare request with its challenge, and the wallet
\* pays the first requirement it can, or the call fails.
Pay(r) ==
  LET accepts == Accepts[Server[r]]
      c == Client[r]
  IN /\ asked[r] = "idle"
     /\ \/ \E i \in DOMAIN accepts :
             /\ IsFirstPayable(c, accepts, i)
             /\ payment' = [payment EXCEPT ![r] = Payment(r, accepts[i])]
             /\ asked' = [asked EXCEPT ![r] = "paid"]
        \/ /\ \A i \in DOMAIN accepts : ~Payable(c, accepts[i])
           /\ asked' = [asked EXCEPT ![r] = "unpayable"]
           /\ UNCHANGED payment
     /\ UNCHANGED <<now, epoch, credited, ledgerVars, handling, settled>>

\* The paid request reaches the server, once or again.
Deliver(r, k) ==
  /\ asked[r] = "paid"
  /\ handling[r][k] = "none"
  /\ \A j \in 1 .. k - 1 : handling[r][j] # "none"
  /\ handling' = [handling EXCEPT ![r][k] = "received"]
  /\ UNCHANGED <<now, epoch, credited, ledgerVars, asked, payment, settled>>

(* The ledger, asked by a server's paywall *)

Verify(r, k) ==
  LET p == payment[r]
      problem == Problem(p, p.accepted)
      seen == SeenWith(p, problem)
  IN /\ handling[r][k] = "received"
     /\ \E verdict \in Verdicts(problem) : handling' = [handling EXCEPT ![r][k] = verdict]
     /\ balances' = See(seen)
     /\ minted' = minted + Grants(seen)
     /\ UNCHANGED <<now, epoch, credited, spent, asked, payment, settled>>

\* Variation: what was verified is settled without another look.
SettleVerified(r, k) ==
  LET a == payment[r].auth
  IN /\ handling[r][k] = "verified"
     /\ spent' = spent \cup {a.nonce}
     /\ balances' = MoveTo(See({a.from, a.to}), a)
     /\ minted' = minted + Grants({a.from, a.to})
     /\ settled' = settled \cup {Settlement(r, k)}
     /\ handling' = [handling EXCEPT ![r][k] = "served"]
     /\ UNCHANGED <<now, epoch, credited, asked, payment>>

\* Variation: a settlement that was made before is reported as made again.
SettleRetried(r, k) ==
  LET p == payment[r]
      a == p.auth
  IN /\ handling[r][k] = "verified"
     /\ handling' = [handling EXCEPT ![r][k] = "served"]
     /\ \/ /\ a.nonce \in spent
           /\ UNCHANGED <<ledgerVars, settled>>
        \/ /\ Problem(p, p.accepted) = None
           /\ spent' = spent \cup {a.nonce}
           /\ balances' = MoveTo(See({a.from, a.to}), a)
           /\ minted' = minted + Grants({a.from, a.to})
           /\ settled' = settled \cup {Settlement(r, k)}
     /\ UNCHANGED <<now, epoch, credited, asked, payment>>

\* Settle checks everything again.
Settle(r, k) ==
  LET p == payment[r]
      a == p.auth
      problem == Problem(p, p.accepted)
      seen == SeenWith(p, problem)
  IN /\ handling[r][k] = "verified"
     /\ \E answer \in Answers(problem) : handling' = [handling EXCEPT ![r][k] = answer]
     /\ \/ /\ problem = None
           /\ spent' = spent \cup {a.nonce}
           /\ balances' = MoveTo(See({a.from, a.to}), a)
           /\ minted' = minted + Grants({a.from, a.to})
           /\ settled' = settled \cup {Settlement(r, k)}
        \/ /\ problem # None
           /\ balances' = See(seen)
           /\ minted' = minted + Grants(seen)
           /\ UNCHANGED <<spent, settled>>
     /\ UNCHANGED <<now, epoch, credited, asked, payment>>

(* The ledger's own program *)

\* Variation: a credit to an account not seen before replaces the faucet.
CreditUnseen == \E e \in credited :
  /\ balances' = [balances EXCEPT ![e[1]] = ((IF @ = None THEN 0 ELSE @) + e[2]) % Modulus]
  /\ minted' = minted + Grants({e[1]}) + e[2]
  /\ credited' = credited \ {e}
  /\ UNCHANGED <<now, epoch, spent, requestVars, settled>>

Credit == \E e \in credited :
  /\ balances' = [balances EXCEPT ![e[1]] = (Balance(e[1]) + e[2]) % Modulus]
  /\ minted' = minted + Grants({e[1]}) + e[2]
  /\ credited' = credited \ {e}
  /\ UNCHANGED <<now, epoch, spent, requestVars, settled>>

\* Ledger.Balance sees the account too.
AskBalance == \E a \in Accounts :
  /\ balances[a] = None
  /\ balances' = See({a})
  /\ minted' = minted + Grants({a})
  /\ UNCHANGED <<now, epoch, credited, spent, requestVars, settled>>

\* Variation: the nonces are kept and the balances are not.
RestartKeepingNonces ==
  /\ epoch < MaxRestarts
  /\ epoch' = epoch + 1
  /\ balances' = [a \in Accounts |-> None]
  /\ minted' = 0
  /\ UNCHANGED <<now, spent, credited, requestVars, settled>>

\* Nothing survives the process.
Restart ==
  /\ epoch < MaxRestarts
  /\ epoch' = epoch + 1
  /\ balances' = [a \in Accounts |-> None]
  /\ spent' = {}
  /\ minted' = 0
  /\ UNCHANGED <<now, credited, requestVars, settled>>

Tick ==
  /\ now < MaxTime
  /\ now' = now + 1
  /\ UNCHANGED <<epoch, credited, ledgerVars, requestVars, settled>>

Next ==
  \/ \E r \in Requests : Pay(r)
  \/ \E r \in Requests, k \in 1 .. Deliveries : Deliver(r, k) \/ Verify(r, k) \/ Settle(r, k)
  \/ Credit
  \/ AskBalance
  \/ Restart
  \/ Tick

Spec == Init /\ [][Next]_vars

-----------------------------------------------------------------------------
(* Properties *)

\* Payments, settlements and the ledger's memory are of their types; what is
\* spent was settled by the ledger that runs now.
TypeOK ==
  /\ now \in 0 .. MaxTime
  /\ epoch \in Nat
  /\ balances \in [Accounts -> 0 .. Modulus - 1 \cup {None}]
  /\ spent \subseteq Requests
  /\ asked \in [Requests -> {"idle", "paid", "unpayable"}]
  /\ DOMAIN payment = Requests
  /\ handling \in [Requests -> [1 .. Deliveries ->
       {"none", "received", "verified", "early", "refused", "served"}]]
  /\ settled \subseteq [nonce : Requests, delivery : 1 .. Deliveries, at : 0 .. MaxTime, epoch : 0 .. epoch]
  /\ \A n \in spent : \E x \in settled : x.nonce = n /\ x.epoch = epoch

\* Payments move credit and neither make nor lose any: the balances add up to
\* what the faucet and Credit gave out, up to the width of a balance, which
\* Credit does not check (Settle, Credit, account).
Conserved == SumOver(Held, Accounts) % Modulus = minted % Modulus

\* As long as what was given out fits a balance, no account holds more than
\* that: no payment between Verify and Settle takes a balance below zero,
\* where it would wrap around (Settle's second check).
NoOverdraft == minted < Modulus =>
  \A a \in Accounts : balances[a] # None => balances[a] <= minted

\* Credit is neither made nor lost, nor spent by those who have none.
CreditIsKept == Conserved /\ NoOverdraft

\* One ledger settles a nonce once, whichever deliveries of the payment were
\* verified before (spent, checked and marked under one lock).
SettledOnce == \A x, y \in settled : x.nonce = y.nonce /\ x.epoch = y.epoch => x = y

\* A payment settles again, by a ledger that was restarted and forgot it, no
\* later than MaxValidity after the first time ("keeping ... the exposure of
\* a restarted ledger bounded", the comment of defaultMaxValidity).
ExposureIsBounded == \A x, y \in settled :
  x.nonce = y.nonce => y.at <= x.at + MaxValidity

\* A paid request that is sent again is answered once: two deliveries of it are
\* both served only by two ledgers, the second of which was restarted and forgot
\* the payment, and both inside its window (verify, settle, then answer; the
\* deliveries may both have been verified before either is settled).
AnsweredOnce == \A r \in Requests, j, k \in 1 .. Deliveries :
  j # k /\ handling[r][j] = "served" /\ handling[r][k] = "served" =>
    \E x, y \in settled :
      /\ x.nonce = r /\ x.delivery = j
      /\ y.nonce = r /\ y.delivery = k
      /\ x.epoch # y.epoch
      /\ x.at <= y.at + MaxValidity
      /\ y.at <= x.at + MaxValidity

=============================================================================
