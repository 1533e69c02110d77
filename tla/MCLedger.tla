------------------------------ MODULE MCLedger ------------------------------
(***************************************************************************)
(* A small instance of Ledger for TLC: Alice, whose clock is ahead, asks   *)
(* the shop and Bob; balances are of four bits.                            *)
(***************************************************************************)
EXTENDS Ledger, TLC

CONSTANTS alice, bob, shop, r1, r2

Requirement(scheme, amount, to, timeout) ==
  [scheme |-> scheme, network |-> Network, amount |-> amount, payTo |-> to, timeout |-> timeout]

PayerOf == [r \in Requests |-> alice]
PayeeOf == [r \in Requests |-> IF r = r1 THEN shop ELSE bob]

\* The shop names a scheme of another kind and a price beyond Alice's cap
\* before the one she pays; the window Bob asks for is too long at first,
\* with Alice's clock.
Offers == [s \in Accounts |->
  IF s = shop
  THEN <<Requirement("upto", 1, shop, 1), Requirement(Scheme, 9, shop, 1), Requirement(Scheme, 3, shop, 0)>>
  ELSE <<Requirement(Scheme, 3, s, 2)>>]
Caps == [c \in Accounts |-> IF c = alice THEN 5 ELSE 0]
AliceIsAhead == [c \in Accounts |-> IF c = alice THEN 1 ELSE 0]
Extra == {<<alice, 12>>}
=============================================================================
