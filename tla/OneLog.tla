------------------------------- MODULE OneLog -------------------------------
(***************************************************************************)
(* What tlogiroh promises its clients, whoever holds the operator's key:   *)
(* the trees that gather enough countersignatures form one history, every  *)
(* client walks forward along it, and a client that restarts resumes at a  *)
(* point of it that it had kept.                                           *)
(***************************************************************************)
EXTENDS Naturals, Sequences

CONSTANTS Clients, Entries, None

VARIABLES
  certified,  \* the trees that gathered enough countersignatures
  head,       \* each client's tree, or None
  kept        \* the tree each client resumes from, or None

vars == <<certified, head, kept>>

Contains(t, s) ==
  /\ Len(s) <= Len(t)
  /\ \A i \in 1 .. Len(s) : s[i] = t[i]

OneHistory(trees) == \A s, t \in trees : Contains(s, t) \/ Contains(t, s)

Init ==
  /\ certified = {}
  /\ head = [c \in Clients |-> None]
  /\ kept = [c \in Clients |-> None]

\* Another tree of the history gathers its countersignatures.
Certify ==
  /\ UNCHANGED <<head, kept>>
  /\ certified # certified' /\ certified \subseteq certified'
  /\ certified' \subseteq Seq(Entries)
  /\ OneHistory(certified')

Advance(c) ==
  /\ head'[c] # head[c]
  /\ \E t \in certified :
       /\ head' = [head EXCEPT ![c] = t]
       /\ head[c] # None => Contains(t, head[c])
  /\ UNCHANGED <<certified, kept>>

Keep(c) ==
  /\ kept'[c] # kept[c]
  /\ kept' = [kept EXCEPT ![c] = head[c]]
  /\ UNCHANGED <<certified, head>>

Resume(c) ==
  /\ head'[c] # head[c]
  /\ head' = [head EXCEPT ![c] = kept[c]]
  /\ UNCHANGED <<certified, kept>>

Next == Certify \/ \E c \in Clients : Advance(c) \/ Keep(c) \/ Resume(c)

Spec == Init /\ [][Next]_vars

=============================================================================
