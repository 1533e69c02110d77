----------------------------- MODULE Rendezvous -----------------------------
(***************************************************************************)
(* What a collective of dtrain promises a group whose membership does not  *)
(* change: nobody is past a call that somebody has not reached.            *)
(***************************************************************************)
EXTENDS Naturals

CONSTANT Members

VARIABLES
  entered,  \* how many collectives each member has reached
  passed    \* the last of them that gave the member a result

vars == <<entered, passed>>

Init ==
  /\ entered = [m \in Members |-> 0]
  /\ passed = [m \in Members |-> 0]

Enter(m) ==
  /\ entered' = [entered EXCEPT ![m] = @ + 1]
  /\ UNCHANGED passed

Pass(m) ==
  /\ passed[m] < entered[m]
  /\ \A p \in Members : entered[p] >= entered[m]
  /\ passed' = [passed EXCEPT ![m] = entered[m]]
  /\ UNCHANGED entered

Next == \E m \in Members : Enter(m) \/ Pass(m)

Spec == Init /\ [][Next]_vars

=============================================================================
