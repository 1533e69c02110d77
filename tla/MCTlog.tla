------------------------------- MODULE MCTlog -------------------------------
(***************************************************************************)
(* Small instances of Tlog for TLC.                                        *)
(***************************************************************************)
EXTENDS Tlog, TLC

CONSTANTS o1, o2, o3, w1, w2, c1, c2, a, b, other

\* Every operator signs for the readers' log, but o3 uses the same key for
\* another one.
OriginOfEach == [o \in Operators |-> IF o = o3 THEN other ELSE LogOrigin]

\* The honest operator's log grows to two entries; its twin's parts from it
\* at the first.
TwinAhead == [o \in Operators |-> IF o = o1 THEN {<<a, a>>} ELSE {<<b>>}]
\* Two logs fork at their first and only entry; o3 publishes nothing.
OneEach == [o \in Operators |-> IF o = o1 THEN {<<a>>} ELSE IF o = o2 THEN {<<b>>} ELSE {}]
\* The twin parts from the honest log at its second entry.
TwinParts == [o \in Operators |-> IF o = o1 THEN {<<a, a>>} ELSE {<<a, b>>}]
\* They fork at the first entry and go on to equal sizes.
TwoEach == [o \in Operators |-> IF o = o1 THEN {<<a, a>>} ELSE {<<b, b>>}]

\* Replicas of a document that stays empty, where no tree grows: a tree of one
\* entry is accepted or refused without a proof, and so without its tiles.
FollowIdle == [r \in Readers |-> o3]

FollowO1 == [r \in Readers |-> o1]

\* Messages that do not open have the text of the longest honest tree.
LongestUnopened == {[origin |-> LogOrigin, tree |-> <<a, a>>]}

=============================================================================
