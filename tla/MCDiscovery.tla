---------------------------- MODULE MCDiscovery ----------------------------
(***************************************************************************)
(* A small instance of Discovery for TLC.                                  *)
(***************************************************************************)
EXTENDS Discovery

CONSTANTS t1, t2, h1, h2, early, late, query

Announcement(host, kind, trackers, after) ==
  [op |-> "announce", host |-> host, kind |-> kind, trackers |-> trackers, after |-> after]
Question(complete, after) ==
  [op |-> "query", complete |-> complete, trackers |-> Trackers, after |-> after]
Plan(first, second, third) ==
  [c \in Calls |-> IF c = early THEN first ELSE IF c = late THEN second ELSE third]

Whole == Announcement(h1, "complete", Trackers, None)
Part == Announcement(h2, "partial", {t1}, None)

\* A host announces twice to both trackers; or two hosts announce and all of
\* it is asked for; or one announces a part, and the whole is asked for.
PlansOf == {
  Plan(Whole, [Whole EXCEPT !.after = early], None),
  Plan(Whole, Part, Question(FALSE, early)),
  Plan(Part, None, Question(TRUE, early))}

\* The hypothesis of DiscoveryProofs!NewerStay.
ASSUME PlansOneByOne == OneByOne
=============================================================================
