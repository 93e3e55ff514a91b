------------------------------ MODULE Lineage ------------------------------
(***************************************************************************)
(* The lineage of a session (`mobius lineage`): the sessions it descends   *)
(* from and those that descend from it, by the one parent link the         *)
(* metadata of a session may hold.  The store keeps whatever metadata it   *)
(* is given, so a link may name a session that does not exist, or close a  *)
(* cycle.  All of it is a function of one query; nothing is written.       *)
(*                                                                         *)
(* A table is the sequence of the parents of the sessions 1..n, numbered   *)
(* in the order (started_at, session_id) of the query.  A loop and a       *)
(* recursion are functions of how many sessions they have listed.          *)
(***************************************************************************)
EXTENDS Integers, Sequences, SequencesExt, FiniteSetsExt

NoParent == 0

Tables(n) == [1..n -> 0..(n + 1)]   \* n + 1: a session that does not exist

NodeAt(session, depth) == [id |-> session, depth |-> depth]

Ids(found) == {found[i].id : i \in DOMAIN found}

-----------------------------------------------------------------------------
(* Ancestors *)

\* The parent to be listed next.
NextParent(table, session, found) ==
  table[IF found = <<>> THEN session ELSE found[Len(found)].id]

\* The loop ends when a link is missing, dangles, or leads to a session seen.
WalkOn(table, session, seen, found) ==
  LET parent == NextParent(table, session, found)
  IN IF parent \in seen \cup Ids(found) \/ parent \notin DOMAIN table THEN found
     ELSE Append(found, NodeAt(parent, - (Len(found) + 1)))

\* The walk up: nearest parent first.
Walk(table, session, seen) ==
  LET found[k \in 0..Len(table)] ==
        IF k = 0 THEN <<>> ELSE WalkOn(table, session, seen, found[k - 1])
  IN found

\* Mutant of Ancestors: the session itself is not among those seen.
AncestorsSelf(table, session) == Reverse(Walk(table, session, {})[Len(table)])

\* _build_ancestors: the farthest first.
Ancestors(table, session) == Reverse(Walk(table, session, {session})[Len(table)])

-----------------------------------------------------------------------------
(* Descendants *)

Unseen(table, session, found) ==
  {child \in DOMAIN table : table[child] = session} \ Ids(found)

\* The calls of visit that have children left to go through, as positions.
Open(table, found) == {i \in DOMAIN found : Unseen(table, found[i].id, found) # {}}

\* visit lists the first unseen child of the session of the innermost call
\* that has one; calls return in the reverse order in which they are made.
VisitNext(table, found) ==
  IF Open(table, found) = {} THEN found
  ELSE LET call == Max(Open(table, found))
           child == Min(Unseen(table, found[call].id, found))
       IN Append(found, NodeAt(child, found[call].depth + 1))

\* The session itself counts as seen.
Visit(table, session) ==
  LET found[k \in 0..Len(table)] ==
        IF k = 0 THEN <<NodeAt(session, 0)>> ELSE VisitNext(table, found[k - 1])
  IN found

\* _build_descendants
Descendants(table, session) == Tail(Visit(table, session)[Len(table)])

-----------------------------------------------------------------------------
\* Mutant of Tree: descendants are not indented below the ancestors.
TreeFlat(table, session) ==
  LET above == Ancestors(table, session)
  IN [i \in DOMAIN above |-> NodeAt(above[i].id, above[i].depth + Len(above))]
       \o <<NodeAt(session, Len(above))>> \o Descendants(table, session)

\* _write_markdown: the depth of a printed node is its indentation.
Tree(table, session) ==
  LET above == Ancestors(table, session)
      nodes == above \o <<NodeAt(session, 0)>> \o Descendants(table, session)
      offset == Max({0} \cup {- above[i].depth : i \in DOMAIN above})
  IN [i \in DOMAIN nodes |-> NodeAt(nodes[i].id, nodes[i].depth + offset)]

-----------------------------------------------------------------------------
(* Properties of a table *)

\* The sessions that the links lead to from a session, by their number.
Line(table, session) ==
  LET at[k \in 0..Len(table)] ==
        IF k = 0 THEN session
        ELSE IF at[k - 1] \in DOMAIN table THEN table[at[k - 1]] ELSE NoParent
  IN at

\* How far above session x another session y is: at the least number of links
\* that lead from the one to the other.
Distances(table, x, y) ==
  LET ways == {k \in 1..Len(table) : Line(table, x)[k] = y}
  IN IF x = y \/ ways = {} THEN {} ELSE {Min(ways)}

DepthsOf(session, nodes) == {nodes[i].depth : i \in {j \in DOMAIN nodes : nodes[j].id = session}}

\* y is listed among the ancestors of x iff x is listed among the descendants
\* of y, both as far apart as the links say, and nobody is listed twice.
IsSymmetric(table) ==
  \A x, y \in DOMAIN table :
    LET above == Ancestors(table, x)
        below == Descendants(table, y)
    IN /\ {- depth : depth \in DepthsOf(y, above)} = Distances(table, x, y)
       /\ DepthsOf(x, below) = Distances(table, x, y)
       /\ IsInjective([i \in DOMAIN above |-> above[i].id])
       /\ IsInjective([i \in DOMAIN below |-> below[i].id])

\* The nearest less indented line above a line of a printed tree is the parent
\* of its session.
ShowsParents(table) ==
  \A x \in DOMAIN table :
    LET tree == Tree(table, x)
    IN \A i \in 2..Len(tree) :
         LET above == {j \in 1..(i - 1) : tree[j].depth < tree[i].depth}
         IN above # {} /\ tree[Max(above)]
                            = NodeAt(table[tree[i].id], tree[i].depth - 1)
=============================================================================
