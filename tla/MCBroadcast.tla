---------------------------- MODULE MCBroadcast ----------------------------
(***************************************************************************)
(* Small instances of DtrainBroadcast for TLC.                             *)
(***************************************************************************)
EXTENDS DtrainBroadcast

\* Every member has met rank 0, and no other.
MetFirst == [m \in Members |-> {0, m}]

=============================================================================
