---------------------------- MODULE MCMembership ----------------------------
(***************************************************************************)
(* Small instances of Membership for TLC.                                  *)
(***************************************************************************)
EXTENDS Membership

CONSTANTS a, b

Setting(joins, first, final, losses, drops) ==
  [joins |-> joins, first |-> first, final |-> final, flaps |-> losses, lags |-> drops]
Times(na, nb) == [p \in Peers |-> IF p = a THEN na ELSE nb]

\* One endpoint joins again; gossip drops a subscriber; one endpoint changes its
\* address and gossip loses a neighbour that is there.
SettingsOf == {
  Setting(Times(2, 1), Times(0, 0), Times(0, 0), 0, 0),
  Setting(Times(1, 1), Times(0, 0), Times(0, 0), 0, 1),
  Setting(Times(1, 1), Times(1, 0), Times(2, 0), 1, 0)}
=============================================================================
