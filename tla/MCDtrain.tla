------------------------------ MODULE MCDtrain ------------------------------
(***************************************************************************)
(* Small instances of Dtrain for TLC.                                      *)
(***************************************************************************)
EXTENDS Dtrain

\* Members who know one another and lose nobody.
Calm(program) ==
  [program |-> program, settled |-> TRUE, forgetting |-> {}, failing |-> {},
   restarting |-> {}, selfConnect |-> TRUE]

\* A reduction, then a barrier, either failing anywhere.
Failures == [Calm(<<"AllReduce", "Barrier">>) EXCEPT !.failing = Members]

\* A gathering in which member 0 may lose the highest member, member 1 the
\* lowest, and the highest may restart.
Shifting == [Calm(<<"AllGather">>) EXCEPT
  !.forgetting = {<<0, 2>>, <<1, 0>>}, !.restarting = {2}, !.selfConnect = FALSE]

Collective == {Failures, Shifting}
OneBarrier == {Calm(<<"Barrier">>)}

\* The hypothesis of DtrainProofs!ExactResults.
ASSUME SettingsExacting == Exacting
=============================================================================
