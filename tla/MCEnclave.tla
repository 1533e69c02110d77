----------------------------- MODULE MCEnclave -----------------------------
(***************************************************************************)
(* A small instance of Enclave for TLC: two processes of one persistent    *)
(* endpoint, and an ephemeral one of an older build.                       *)
(***************************************************************************)
EXTENDS Enclave

CONSTANTS p1, p2, fresh

BuildOf == [p \in Processes |-> IF p = fresh THEN "old" ELSE "new"]
EveryMode == {"mutual", "prove", "verify"}
ModesOf == [p \in Processes |->
  IF p = p1 THEN EveryMode ELSE IF p = p2 THEN {"mutual"} ELSE {"prove"}]
Allowed == [x \in {"dial", "serve"} |-> IF x = "serve" THEN {"new"} ELSE {"new", "old"}]
=============================================================================
