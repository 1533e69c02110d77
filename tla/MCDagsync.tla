----------------------------- MODULE MCDagsync ------------------------------
(***************************************************************************)
(* Small instances of Dagsync for TLC: a DAG of a root, an inner block     *)
(* that shares a leaf with the root, and a second leaf.  A client asks a   *)
(* server that holds it, and at the same time another one that has yet to  *)
(* import a block of its own, and imports it under a wrong CID.            *)
(***************************************************************************)
EXTENDS Dagsync, TLC

CONSTANTS sv, wrong, cl, root, inner, leaf, far, junk, i1, i2

Cid(codec, d) == [codec |-> codec, data |-> d]
Root == Cid("cbor", root)
Inner == Cid("cbor", inner)
Leaf == Cid("raw", leaf)
Far == Cid("raw", far)

DagCids == {Root, Inner, Leaf, Far}
DagChildren == [d \in Data |->
  CASE d = root -> <<Inner, Leaf>>
    [] d = inner -> <<Far, Leaf>>
    [] OTHER -> None]

ServersHaveDag == [n \in Nodes |->
  CASE n = sv -> DagCids [] n = wrong -> DagCids \ {Far} [] OTHER -> {}]
\* The client's program imports a block that does not decode under its codec.
ImportedLate == [n \in Nodes |->
  CASE n = wrong -> {<<Far, junk>>} [] n = cl -> {<<Root, leaf>>} [] OTHER -> {}]

OneClient == [i \in Calls |-> cl]
TwoServers == [i \in Calls |-> IF i = i1 THEN sv ELSE wrong]

Filtered(f) == [Full(Root) EXCEPT !.full.filter = f]
AllInline == [NoInline EXCEPT !.all = TRUE]
NoRawInline == [NoInline EXCEPT !.noRaw = TRUE]
Ask(ts, os) == [traversal : ts, inline : os]

\* Requests whose DAG-CBOR items all carry their data, and of the second
\* server the raw ones too; one does not encode.
LinksInline == [i \in Calls |->
  IF i = i1
  THEN Ask({Full(Root),
            Filtered([NoFilter EXCEPT !.noRaw = TRUE, !.justRaw = TRUE]),
            Filtered([NoFilter EXCEPT !.exclude = {"raw"}]),
            [Full(Root) EXCEPT !.full.visited = {Leaf}],
            Filtered(NoFilter)}, {NoRawInline})
  ELSE Ask({Full(Root), Sequence(<<Leaf, Inner, Far>>)}, {AllInline})
       \cup Ask({Filtered(None)}, {[NoInline EXCEPT !.exclude = {"pb"}]})]
=============================================================================
