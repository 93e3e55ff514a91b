---------------------------- MODULE MCRunReports ----------------------------
(* A small instance of RunReports for TLC, and the lineage of small tables. *)
EXTENDS RunReports, Lineage

CONSTANT MaxSessions  \* bound: sessions in a table

ASSUME SessionsOK == MaxSessions \in Nat

SmallSpecs == {[constraints |-> 1, criteria |-> 1], [constraints |-> 1, criteria |-> 3]}

\* Lineages are functions of their table: they are checked once, before the
\* first event.
AtTheStart == log = <<>> /\ pc = "idle"

\* `mobius lineage`: x is listed among the ancestors of y at some distance iff y
\* is listed among the descendants of x at the same, which is the shortest way
\* between them; nobody is listed twice, also if links dangle or form cycles.
LineageIsSymmetric == AtTheStart => \A table \in Tables(MaxSessions) : IsSymmetric(table)

\* ... and the nearest less indented line above a line of the printed tree is
\* its parent.
TreeShowsParents == AtTheStart => \A table \in Tables(MaxSessions) : ShowsParents(table)
=============================================================================
