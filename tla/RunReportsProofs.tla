-------------------------- MODULE RunReportsProofs --------------------------
(***************************************************************************)
(* What holds of the reports on a run for any events, specifications and   *)
(* bounds: the verdicts, the shape of the trees and what a poller is shown; *)
(* and of the lineage of a session for any table of links.                  *)
(***************************************************************************)
EXTENDS MCRunReports, SequenceTheorems, FiniteSetTheorems, WellFoundedInduction, TLAPS

\* The part of the types that the verdicts need.
Typed ==
  /\ log \in Seq(Type)
  /\ status \in {"none", "running"} \cup Terminal
  /\ row \in {"none", "running"} \cup Terminal
  /\ cursor \in 0..Len(log)

\* A terminal state has its event in the log, also when it was read long ago;
\* what has been reported is still true of the log.
Backed ==
  /\ status \in Terminal => Recorded(status)
  /\ row \in Terminal => Recorded(row)

Inv == Typed /\ Backed /\ VerdictsAgree

\* Whatever others do, the log grows at its end.
Grows ==
  /\ log' \in Seq(Type) /\ Len(log) <= Len(log')
  /\ \A i \in 1..Len(log) : log'[i] = log[i]

USE ConstantsOK

-----------------------------------------------------------------------------
(* The verdicts *)

LEMMA OthersGrow ==
  ASSUME Inv, Session!Next
  PROVE  /\ Grows
         /\ status' \in {"none", "running"} \cup Terminal
         /\ status' \in Terminal => Recorded(status)'
<1> USE DEF Inv, Typed, Backed, Grows, Recorded, Session!Recorded
<1>1. CASE Session!Create
  BY <1>1 DEF Session!Create
<1>2. ASSUME NEW t \in Type, Session!Record(t)
      PROVE  /\ Grows
             /\ status' \in {"none", "running"} \cup Terminal
             /\ status' \in Terminal => Recorded(status)'
  <2>1. /\ log' = Append(log, t) /\ status' = status
    BY <1>2 DEF Session!Record
  <2>2. /\ log' \in Seq(Type) /\ Len(log') = Len(log) + 1
        /\ \A i \in 1..Len(log) : log'[i] = log[i]
    BY <2>1
  <2>3. Grows
    BY <2>2
  <2>4. \A s : Recorded(s) => \E i \in DOMAIN log' : log'[i] = s
    BY <2>2
  <2> QED
    BY <2>1, <2>3, <2>4
<1>3. ASSUME NEW t \in Terminal, Session!End(t)
      PROVE  /\ Grows
             /\ status' \in {"none", "running"} \cup Terminal
             /\ status' \in Terminal => Recorded(status)'
  BY <1>3 DEF Session!End
<1> QED
  BY <1>1, <1>2, <1>3 DEF Session!Next

LEMMA RecordedStays ==
  ASSUME Inv, Grows, NEW t, Recorded(t)
  PROVE  Recorded(t)'
BY DEF Inv, Typed, Grows, Recorded

\* The verdict on a terminal state whose event is in the log.
LEMMA ReportIsFair ==
  ASSUME Inv
  PROVE  LET r == Report(row)
         IN /\ r.success => r.completed /\ r.terminal
            /\ r.terminal => r.completed \/ ~ r.clean
BY DEF Inv, Backed, Report, Failure

LEMMA InvInit == Init => Inv
BY DEF Init, Session!Init, Inv, Typed, Backed, VerdictsAgree, NoReport

LEMMA InvStep == Inv /\ [Next]_vars => Inv'
<1> SUFFICES ASSUME Inv, [Next]_vars PROVE Inv'
  OBVIOUS
<1>1. CASE OthersWrite
  <2>1. /\ Session!Next
        /\ UNCHANGED <<row, cursor, tree, report>>
    BY <1>1 DEF OthersWrite
  <2>2. /\ Grows
        /\ status' \in {"none", "running"} \cup Terminal
        /\ status' \in Terminal => Recorded(status)'
    BY <2>1, OthersGrow
  <2>3. Typed' /\ Backed'
    BY <2>1, <2>2, RecordedStays DEF Inv, Typed, Backed, Grows
  <2>4. VerdictsAgree'
    BY <2>1, <2>2 DEF Inv, Typed, VerdictsAgree, Grows
  <2> QED
    BY <2>3, <2>4 DEF Inv
<1>2. CASE ReadsSession
  BY <1>2 DEF ReadsSession, session, Inv, Typed, Backed, VerdictsAgree, Recorded
<1>3. ASSUME NEW spec \in Spec_ \cup {NoSpec}, NEW max \in MaxNodes, BuildsTree(spec, max)
      PROVE  Inv'
  <2>1. /\ tree'.criteria = CriterionState(row)
        /\ cursor' = Len(log)
        /\ UNCHANGED <<log, status, row, report>>
    BY <1>3 DEF BuildsTree, session
  <2>2. tree'.criteria = "satisfied" => row = "completed"
    BY <2>1 DEF CriterionState
  <2>3. tree'.criteria = "satisfied" => \E i \in 1..cursor' : log'[i] = "completed"
    BY <2>1, <2>2 DEF Inv, Typed, Backed, Recorded
  <2> QED
    BY <2>1, <2>3 DEF Inv, Typed, Backed, VerdictsAgree, Recorded
<1>4. CASE JudgesRun
  <2>1. /\ report' = Report(row)
        /\ UNCHANGED <<log, status, row, cursor, tree>>
    BY <1>4 DEF JudgesRun, session
  <2> QED
    BY <2>1, ReportIsFair DEF Inv, Typed, Backed, VerdictsAgree, Recorded
<1>5. CASE UNCHANGED vars
  BY <1>5 DEF vars, session, Inv, Typed, Backed, VerdictsAgree, Recorded
<1> QED
  BY <1>1, <1>2, <1>3, <1>4, <1>5 DEF Next

\* Trees and judgements agree with the events, whatever is recorded between the
\* read of the row and that of the events, and afterwards.
THEOREM TheVerdictsAgree == Spec => []VerdictsAgree
<1>1. Inv => VerdictsAgree
  BY DEF Inv
<1> QED
  BY <1>1, InvInit, InvStep, PTL DEF Spec

-----------------------------------------------------------------------------
(* The shape of a tree *)

N == NodeSet(Kinds)

\* A part of a tree: nodes of certain kinds, each once, whose parent is the root
\* or precedes them.
Branch(s, kinds) ==
  /\ s \in Seq(N)
  /\ \A i \in 1..Len(s) : s[i].kind \in kinds
  /\ \A i, j \in 1..Len(s) : s[i] = s[j] => i = j
  /\ \A i \in 1..Len(s) : \/ Parent(s[i]) = Root
                          \/ \E j \in 1..(i - 1) : s[j] = Parent(s[i])

LEMMA NodeOK ==
  \A kind \in Kinds, n \in Nat :
    Node(kind, n) \in N /\ Node(kind, n).kind = kind /\ Node(kind, n).n = n
BY DEF Node, N, NodeSet

LEMMA BranchOfNone == \A kinds : Branch(<<>>, kinds)
BY DEF Branch

LEMMA BranchOfOne ==
  ASSUME NEW kind \in {"run", "goal", "metadata", "truncated"}
  PROVE  Branch(<<Node(kind, 0)>>, {kind})
<1>1. Node(kind, 0) \in N /\ Node(kind, 0).kind = kind
  BY NodeOK DEF Kinds
<1>2. Parent(Node(kind, 0)) = Root
  BY <1>1 DEF Parent
<1>3. /\ <<Node(kind, 0)>> \in Seq(N) /\ Len(<<Node(kind, 0)>>) = 1
      /\ <<Node(kind, 0)>>[1] = Node(kind, 0)
  BY <1>1
<1> QED
  BY <1>1, <1>2, <1>3 DEF Branch

LEMMA BranchGrows ==
  ASSUME NEW s, NEW t, NEW K, NEW L, Branch(s, K), Branch(t, L), K \cap L = {}
  PROVE  Branch(s \o t, K \cup L)
<1> DEFINE u == s \o t
<1>1. s \in Seq(N) /\ t \in Seq(N) /\ Len(s) \in Nat /\ Len(t) \in Nat
  BY DEF Branch
<1>2. /\ u \in Seq(N) /\ Len(u) = Len(s) + Len(t)
      /\ \A i \in 1..Len(s) : u[i] = s[i]
      /\ \A i \in (Len(s) + 1)..Len(u) : u[i] = t[i - Len(s)] /\ i - Len(s) \in 1..Len(t)
  BY <1>1, ConcatProperties
<1> HIDE DEF u
<1>3. /\ \A i \in 1..Len(s) : u[i].kind \in K
      /\ \A i \in (Len(s) + 1)..Len(u) : u[i].kind \in L
  BY <1>2 DEF Branch
<1>4. ASSUME NEW i \in 1..Len(u), NEW j \in 1..Len(u), u[i] = u[j] PROVE i = j
  <2>1. CASE i <= Len(s) /\ j <= Len(s)
    BY <1>1, <1>2, <1>4, <2>1 DEF Branch
  <2>2. CASE i > Len(s) /\ j > Len(s)
    <3>1. /\ i - Len(s) \in 1..Len(t) /\ j - Len(s) \in 1..Len(t)
          /\ t[i - Len(s)] = t[j - Len(s)]
      BY <1>1, <1>2, <1>4, <2>2
    <3>2. i - Len(s) = j - Len(s)
      BY <3>1 DEF Branch
    <3> QED BY <1>1, <3>2
  <2>3. CASE i <= Len(s) /\ j > Len(s)
    BY <1>1, <1>2, <1>3, <1>4, <2>3
  <2>4. CASE i > Len(s) /\ j <= Len(s)
    BY <1>1, <1>2, <1>3, <1>4, <2>4
  <2> QED BY <1>1, <1>2, <2>1, <2>2, <2>3, <2>4
<1>5. ASSUME NEW i \in 1..Len(u)
      PROVE  Parent(u[i]) = Root \/ \E j \in 1..(i - 1) : u[j] = Parent(u[i])
  <2>1. CASE i <= Len(s)
    <3>1. u[i] = s[i] /\ i \in 1..Len(s)
      BY <1>1, <1>2, <2>1
    <3>2. \A j \in 1..(i - 1) : u[j] = s[j]
      BY <1>1, <1>2, <2>1
    <3> QED BY <3>1, <3>2 DEF Branch
  <2>2. CASE i > Len(s)
    <3>1. i - Len(s) \in 1..Len(t) /\ u[i] = t[i - Len(s)]
      BY <1>1, <1>2, <2>2
    <3>2. CASE Parent(u[i]) # Root
      <4>1. PICK j \in 1..((i - Len(s)) - 1) : t[j] = Parent(u[i])
        BY <3>1, <3>2 DEF Branch
      <4>2. j + Len(s) \in (Len(s) + 1)..Len(u) /\ j + Len(s) \in 1..(i - 1)
            /\ (j + Len(s)) - Len(s) = j
        BY <1>1, <1>2, <3>1, <4>1
      <4>3. u[j + Len(s)] = t[j]
        BY <1>2, <4>2
      <4> QED BY <4>1, <4>2, <4>3
    <3> QED BY <3>2
  <2> QED BY <1>1, <1>2, <2>1, <2>2
<1>6. \A i \in 1..Len(u) : u[i].kind \in K \cup L
  BY <1>1, <1>2, <1>3
<1> QED
  BY <1>2, <1>4, <1>5, <1>6 DEF Branch, u

\* The nodes of a group: the group, and its children in the order of their numbers.
\* (The next lemmas say the same part by part, as they are used.)
LEMMA GroupIsSeq ==
  ASSUME NEW group \in Kinds, NEW child \in Kinds,
         NEW first \in Nat, NEW last \in Nat, first <= last
  PROVE  /\ Group(group, child, first, last) \in Seq(N)
         /\ Len(Group(group, child, first, last)) = last - first + 2
         /\ Group(group, child, first, last)[1] = Node(group, 0)
         /\ \A k \in 2..(last - first + 2) :
              /\ Group(group, child, first, last)[k] = Node(child, first + k - 2)
              /\ first + k - 2 \in Nat
<1> DEFINE g == Group(group, child, first, last)
<1> DEFINE n == last - first + 1
<1> DEFINE children == [k \in 1..n |-> Node(child, first + k - 1)]
<1>1. n \in Nat \ {0} /\ n + 1 = last - first + 2
  OBVIOUS
<1> HIDE DEF n
<1>2. \A k \in 1..n : first + k - 1 \in Nat
  BY <1>1
<1>3. children \in Seq(N) /\ Len(children) = n
  <2>1. children \in [1..n -> N]
    BY <1>1, <1>2, NodeOK
  <2>2. DOMAIN children = 1..n
    OBVIOUS
  <2>3. n \in Nat
    BY <1>1
  <2> HIDE DEF children
  <2>4. children \in Seq(N)
    BY <2>1, <2>3, SeqDef, Zenon
  <2> QED BY <2>2, <2>3, <2>4
<1>4. \A k \in 1..n : children[k] = Node(child, first + k - 1)
  OBVIOUS
<1>5. /\ <<Node(group, 0)>> \in Seq(N) /\ Len(<<Node(group, 0)>>) = 1
      /\ <<Node(group, 0)>>[1] = Node(group, 0)
  BY NodeOK
<1>6. g = <<Node(group, 0)>> \o children
  BY DEF Group, n
<1> HIDE DEF g, children
<1>7. /\ g \in Seq(N) /\ Len(g) = n + 1 /\ g[1] = Node(group, 0)
      /\ \A k \in 2..(n + 1) : g[k] = children[k - 1]
  BY <1>1, <1>3, <1>5, <1>6, ConcatProperties
<1>8. ASSUME NEW i \in 2..(n + 1)
      PROVE  g[i] = Node(child, first + i - 2) /\ first + i - 2 \in Nat
  <2>1. i - 1 \in 1..n /\ first + (i - 1) - 1 = first + i - 2
    BY <1>1
  <2> QED BY <1>1, <1>2, <1>4, <1>7, <2>1
<1> QED
  BY <1>1, <1>7, <1>8 DEF g

LEMMA GroupAt ==
  ASSUME NEW group \in Kinds, NEW child \in Kinds,
         NEW first \in Nat, NEW last \in Nat, first <= last,
         NEW i \in 2..(last - first + 2)
  PROVE  Group(group, child, first, last)[i] = Node(child, first + i - 2)
BY GroupIsSeq

LEMMA GroupHead ==
  ASSUME NEW group \in Kinds, NEW child \in Kinds,
         NEW first \in Nat, NEW last \in Nat, first <= last
  PROVE  /\ Group(group, child, first, last) \in Seq(N)
         /\ Len(Group(group, child, first, last)) = last - first + 2
         /\ Group(group, child, first, last)[1] = Node(group, 0)
BY GroupIsSeq

LEMMA LenOfEvents ==
  ASSUME NEW first \in Nat, NEW last \in Nat, first <= last
  PROVE  Len(Group("deltas", "event", first, last)) = last - first + 2
<1>1. "deltas" \in Kinds /\ "event" \in Kinds
  BY DEF Kinds
<1> QED
  BY <1>1, GroupHead

LEMMA BranchOfGroup ==
  ASSUME NEW group, NEW child,
         \/ group = "constraints" /\ child = "constraint"
         \/ group = "acceptance" /\ child = "criterion"
         \/ group = "deltas" /\ child = "event",
         NEW first \in Nat, NEW last \in Nat
  PROVE  Branch(Group(group, child, first, last), {group, child})
<1> DEFINE g == Group(group, child, first, last)
<1>1. CASE first > last
  BY <1>1, BranchOfNone DEF Group
<1>2. CASE first <= last
  <2> DEFINE n == last - first + 1
  <2>1. /\ n \in Nat \ {0} /\ n + 1 = last - first + 2
        /\ group \in Kinds /\ child \in Kinds /\ group # child
    BY <1>2 DEF Kinds
  <2> HIDE DEF n
  <2>3. g \in Seq(N) /\ Len(g) = n + 1 /\ g[1] = Node(group, 0)
    <3>1. g \in Seq(N) /\ Len(g) = last - first + 2
      BY <1>2, <2>1, GroupHead
    <3>2. g[1] = Node(group, 0)
      BY <1>2, <2>1, GroupHead
    <3> QED BY <2>1, <3>1, <3>2
  <2>4. ASSUME NEW i \in 2..(n + 1)
        PROVE  g[i] = Node(child, first + i - 2) /\ first + i - 2 \in Nat
    <3>1. i \in 2..(last - first + 2) /\ first + i - 2 \in Nat
      BY <2>1
    <3> QED BY <1>2, <2>1, <3>1, GroupAt
  <2> HIDE DEF g
  <2>5. ASSUME NEW i \in 1..(n + 1)
        PROVE  g[i].kind = IF i = 1 THEN group ELSE child
    <3>1. CASE i = 1
      BY <2>1, <2>3, <3>1, NodeOK
    <3>2. CASE i # 1
      BY <2>1, <2>4, <3>2, NodeOK
    <3> QED BY <3>1, <3>2
  <2>6. ASSUME NEW i \in 1..(n + 1), NEW j \in 1..(n + 1), g[i] = g[j] PROVE i = j
    <3>1. CASE i = 1 \/ j = 1
      BY <2>1, <2>5, <2>6, <3>1
    <3>2. CASE i # 1 /\ j # 1
      <4>1. g[i].n = first + i - 2 /\ g[j].n = first + j - 2
        BY <2>1, <2>4, <3>2, NodeOK
      <4> QED BY <2>6, <4>1
    <3> QED BY <3>1, <3>2
  <2>7. ASSUME NEW i \in 1..(n + 1)
        PROVE  Parent(g[i]) = Root \/ \E j \in 1..(i - 1) : g[j] = Parent(g[i])
    <3>1. CASE i = 1
      BY <2>5, <3>1 DEF Parent
    <3>2. CASE i # 1
      <4>1. Parent(g[i]) = g[1] /\ 1 \in 1..(i - 1)
        BY <2>1, <2>3, <2>5, <3>2 DEF Parent
      <4> QED BY <4>1
    <3> QED BY <3>1, <3>2
  <2>8. Branch(g, {group, child})
    BY <2>1, <2>3, <2>5, <2>6, <2>7 DEF Branch
  <2> QED
    BY <2>8 DEF g
<1> QED
  BY <1>1, <1>2

AboutTheRun == {"run", "goal", "constraints", "constraint", "acceptance", "criterion"}

LEMMA HeadOfTree ==
  ASSUME NEW spec \in Spec_ \cup {NoSpec}, NEW delta
  PROVE  /\ Branch(<<Root>> \o Context(spec, delta), AboutTheRun)
         /\ (<<Root>> \o Context(spec, delta))[1] = Root
         /\ Len(<<Root>> \o Context(spec, delta)) # 0
<1> DEFINE goal == IF HasGoal(spec, delta) THEN <<Node("goal", 0)>> ELSE <<>>
<1> DEFINE criteria == Group("constraints", "constraint", 1, spec.constraints)
                         \o Group("acceptance", "criterion", 1, spec.criteria)
<1> DEFINE rest == IF spec = NoSpec THEN <<>> ELSE criteria
<1> DEFINE ofSpec == {"constraints", "constraint"} \cup {"acceptance", "criterion"}
<1>1. Branch(goal, {"goal"})
  BY BranchOfNone, BranchOfOne
<1>2. Branch(rest, ofSpec)
  <2>1. CASE spec = NoSpec
    BY <2>1, BranchOfNone
  <2>2. CASE spec # NoSpec
    <3>1. spec.constraints \in Nat /\ spec.criteria \in Nat
      BY <2>2
    <3>2. Branch(Group("constraints", "constraint", 1, spec.constraints),
                 {"constraints", "constraint"})
      BY <3>1, BranchOfGroup
    <3>3. Branch(Group("acceptance", "criterion", 1, spec.criteria),
                 {"acceptance", "criterion"})
      BY <3>1, BranchOfGroup
    <3>4. {"constraints", "constraint"} \cap {"acceptance", "criterion"} = {}
      OBVIOUS
    <3> QED BY <2>2, <3>2, <3>3, <3>4, BranchGrows
  <2> QED BY <2>1, <2>2
<1>3. Context(spec, delta) = goal \o rest
  BY DEF Context
<1> HIDE DEF goal, rest
<1>4. Branch(Context(spec, delta), {"goal"} \cup ofSpec)
  BY <1>1, <1>2, <1>3, BranchGrows
<1>5. Branch(<<Root>>, {"run"})
  BY BranchOfOne DEF Root
<1>6. Branch(<<Root>> \o Context(spec, delta), {"run"} \cup ({"goal"} \cup ofSpec))
  BY <1>4, <1>5, BranchGrows
<1>7. {"run"} \cup ({"goal"} \cup ofSpec) = AboutTheRun
  BY DEF AboutTheRun
<1>8. /\ (<<Root>> \o Context(spec, delta))[1] = Root
      /\ Len(<<Root>> \o Context(spec, delta)) # 0
  <2>1. <<Root>> \in Seq(N) /\ Len(<<Root>>) = 1 /\ <<Root>>[1] = Root
    BY <1>5 DEF Branch
  <2>2. Context(spec, delta) \in Seq(N)
    BY <1>4 DEF Branch
  <2> QED BY <2>1, <2>2, ConcatProperties
<1> QED
  BY <1>6, <1>7, <1>8

\* The event nodes are those from a + 1 to a + m, with the numbers that follow after.
EventsAt(nodes, a, m, after) ==
  /\ \A i \in 1..Len(nodes) : nodes[i].kind = "event" <=> i \in (a + 1)..(a + m)
  /\ \A k \in 1..m : a + k \in 1..Len(nodes) /\ nodes[a + k] = Node("event", after + k)

\* All nodes of a poll: a tree in which the new events stand together, in order.
LEMMA ShapeOfNodes ==
  ASSUME log \in Seq(Type), NEW spec \in Spec_ \cup {NoSpec}, NEW after \in 0..Len(log)
  PROVE  LET nodes == Nodes(spec, after)
             new == Len(log) - after
         IN /\ Branch(nodes, Kinds \ {"truncated"})
            /\ Len(nodes) \in Nat \ {0} /\ nodes[1] = Root
            /\ \E a \in Nat : EventsAt(nodes, a, new, after)
<1> DEFINE head == <<Root>> \o Context(spec, SubSeq(log, after + 1, Len(log)))
<1> DEFINE new == Len(log) - after
<1> DEFINE data == IF spec = NoSpec /\ after >= Len(log) THEN <<Node("metadata", 0)>> ELSE <<>>
<1> DEFINE d == Deltas(after)
<1>1. new \in Nat /\ after \in Nat /\ Len(log) \in Nat
  OBVIOUS
<1>2. Branch(head, AboutTheRun) /\ head[1] = Root /\ Len(head) # 0
  BY HeadOfTree
<1>3. /\ Branch(d, {"deltas", "event"})
      /\ Len(d) = IF new = 0 THEN 0 ELSE new + 1
      /\ new # 0 => /\ d[1] = Node("deltas", 0)
                    /\ \A i \in 2..Len(d) : d[i] = Node("event", after + i - 1)
  <2>1. d = Group("deltas", "event", after + 1, Len(log)) /\ after + 1 \in Nat
    BY <1>1 DEF Deltas
  <2> HIDE DEF d
  <2>2. Branch(d, {"deltas", "event"})
    BY <1>1, <2>1, BranchOfGroup
  <2>3. CASE new = 0
    <3>1. d = <<>>
      BY <1>1, <2>1, <2>3 DEF Group
    <3> QED BY <2>2, <2>3, <3>1
  <2>4. CASE new # 0
    <3>1. /\ after + 1 <= Len(log) /\ Len(log) - (after + 1) + 2 = new + 1
          /\ "deltas" \in Kinds /\ "event" \in Kinds
      BY <1>1, <2>4 DEF Kinds
    <3>2. Len(d) = new + 1 /\ d[1] = Node("deltas", 0)
      <4>1. Len(Group("deltas", "event", after + 1, Len(log))) = Len(log) - (after + 1) + 2
        <5>1. after + 1 \in Nat /\ Len(log) \in Nat /\ after + 1 <= Len(log)
          BY <1>1, <3>1
        <5> QED BY <5>1, LenOfEvents
      <4>2. Group("deltas", "event", after + 1, Len(log))[1] = Node("deltas", 0)
        BY <1>1, <2>1, <3>1, GroupHead, ZenonT(30)
      <4> QED BY <2>1, <3>1, <4>1, <4>2
    <3>3. ASSUME NEW i \in 2..(new + 1) PROVE d[i] = Node("event", after + i - 1)
      <4>1. d[i] = Node("event", (after + 1) + i - 2)
        <5>1. i \in 2..(Len(log) - (after + 1) + 2)
          BY <1>1, <3>1
        <5> QED BY <1>1, <2>1, <3>1, <5>1, GroupAt
      <4>2. (after + 1) + i - 2 = after + i - 1
        BY <1>1
      <4> QED BY <4>1, <4>2
    <3> QED BY <2>2, <2>4, <3>2, <3>3
  <2> QED BY <2>3, <2>4
<1>4. Branch(data, {"metadata"})
  BY BranchOfNone, BranchOfOne
<1>5. Nodes(spec, after) = (head \o d) \o data
  BY DEF Nodes
<1> HIDE DEF head, d, data, new
<1>6. Branch(head \o d, AboutTheRun \cup {"deltas", "event"})
  <2>1. AboutTheRun \cap {"deltas", "event"} = {}
    BY DEF AboutTheRun
  <2> QED BY <1>2, <1>3, <2>1, BranchGrows
<1>7. Branch(Nodes(spec, after), (AboutTheRun \cup {"deltas", "event"}) \cup {"metadata"})
  <2>1. (AboutTheRun \cup {"deltas", "event"}) \cap {"metadata"} = {}
    BY DEF AboutTheRun
  <2> QED BY <1>4, <1>5, <1>6, <2>1, BranchGrows
<1>8. (AboutTheRun \cup {"deltas", "event"}) \cup {"metadata"} = Kinds \ {"truncated"}
  BY DEF AboutTheRun, Kinds
<1> DEFINE h == head \o d
<1> DEFINE nodes == h \o data
<1>9. head \in Seq(N) /\ d \in Seq(N) /\ data \in Seq(N)
      /\ Len(head) \in Nat /\ Len(d) \in Nat /\ Len(data) \in Nat
  BY <1>2, <1>3, <1>4 DEF Branch
<1>10. Len(head) # 0
  BY <1>2
<1>11. /\ h \in Seq(N) /\ Len(h) = Len(head) + Len(d)
       /\ \A i \in 1..Len(h) : h[i] = IF i <= Len(head) THEN head[i] ELSE d[i - Len(head)]
  <2>1. /\ h \in Seq(N) /\ Len(h) = Len(head) + Len(d)
        /\ \A i \in 1..(Len(head) + Len(d)) :
             h[i] = IF i <= Len(head) THEN head[i] ELSE d[i - Len(head)]
    BY <1>9, ConcatProperties
  <2> QED BY <2>1
<1> HIDE DEF h
<1>12. /\ Len(nodes) = Len(h) + Len(data)
       /\ \A i \in 1..Len(nodes) : nodes[i] = IF i <= Len(h) THEN h[i] ELSE data[i - Len(h)]
  <2>1. /\ Len(nodes) = Len(h) + Len(data)
        /\ \A i \in 1..(Len(h) + Len(data)) :
             nodes[i] = IF i <= Len(h) THEN h[i] ELSE data[i - Len(h)]
    <3>1. h \in Seq(N) /\ data \in Seq(N)
      BY <1>9, <1>11
    <3> QED BY <3>1, ConcatProperties
  <2> QED BY <2>1
<1>13. Nodes(spec, after) = nodes
  BY <1>5 DEF h
<1> HIDE DEF nodes
<1>14. /\ \A i \in 1..Len(head) : nodes[i] = head[i] /\ nodes[i].kind \in AboutTheRun
       /\ \A i \in 1..Len(d) : nodes[Len(head) + i] = d[i]
       /\ \A i \in (Len(h) + 1)..Len(nodes) : nodes[i].kind = "metadata"
  <2>1. \A i \in 1..Len(head) : nodes[i] = head[i] /\ nodes[i].kind \in AboutTheRun
    BY <1>2, <1>9, <1>11, <1>12 DEF Branch
  <2>2. ASSUME NEW i \in 1..Len(d) PROVE nodes[Len(head) + i] = d[i]
    <3>1. Len(head) + i \in 1..Len(h) /\ ~ (Len(head) + i <= Len(head))
          /\ (Len(head) + i) - Len(head) = i /\ Len(head) + i \in 1..Len(nodes)
      BY <1>9, <1>11, <1>12
    <3> QED BY <1>11, <1>12, <3>1
  <2>3. ASSUME NEW i \in (Len(h) + 1)..Len(nodes) PROVE nodes[i].kind = "metadata"
    <3>1. i - Len(h) \in 1..Len(data) /\ i \in 1..Len(nodes) /\ ~ (i <= Len(h))
      BY <1>9, <1>11, <1>12
    <3> QED BY <1>4, <1>12, <3>1 DEF Branch
  <2> QED BY <2>1, <2>2, <2>3
<1>15. Len(nodes) \in Nat \ {0} /\ nodes[1] = Root
  BY <1>2, <1>9, <1>10, <1>11, <1>12, <1>14
<1> DEFINE a == Len(head) + 1
<1>16. ASSUME NEW k \in 1..new
       PROVE  a + k \in 1..Len(nodes) /\ nodes[a + k] = Node("event", after + k)
  <2>1. new # 0 /\ Len(d) = new + 1 /\ 1 + k \in 2..Len(d) /\ 1 + k \in 1..Len(d) /\ after + (1 + k) - 1 = after + k
    BY <1>1, <1>3
  <2>2. d[1 + k] = Node("event", after + k)
    BY <1>3, <2>1
  <2>3. Len(head) + (1 + k) = a + k
    BY <1>9
  <2> QED BY <1>9, <1>11, <1>12, <1>14, <2>1, <2>2, <2>3, SMTT(30)
<1>17. ASSUME NEW i \in 1..Len(nodes)
       PROVE  nodes[i].kind = "event" <=> i \in (a + 1)..(a + new)
  <2>1. CASE i \in (a + 1)..(a + new)
    <3>1. i - a \in 1..new /\ a + (i - a) = i /\ after + (i - a) \in Nat
      BY <1>1, <1>9, <2>1
    <3>2. nodes[i] = Node("event", after + (i - a))
      BY <1>16, <3>1
    <3> QED BY <2>1, <3>1, <3>2, NodeOK DEF Kinds
  <2>2. CASE i <= Len(head)
    <3>1. i \in 1..Len(head)
      BY <1>9, <2>2
    <3>2. nodes[i].kind # "event"
      BY <1>14, <3>1 DEF AboutTheRun
    <3> QED BY <1>9, <2>2, <3>2
  <2>3. CASE i > Len(h)
    <3>1. Len(h) = a + new \/ new = 0
      BY <1>1, <1>3, <1>9, <1>11
    <3> QED BY <1>1, <1>9, <1>11, <1>14, <2>3, <3>1, SMTT(30)
  <2>4. CASE i = a /\ i <= Len(h)
    <3>1. Len(d) # 0
      BY <1>9, <1>11, <2>4
    <3>2. new # 0
      BY <1>3, <3>1
    <3>3. nodes[Len(head) + 1] = d[1]
      BY <1>9, <1>14, <3>1
    <3>4. nodes[i].kind = "deltas"
      BY <1>3, <2>4, <3>2, <3>3, NodeOK DEF Kinds
    <3> QED BY <1>9, <2>4, <3>4
  <2>5. i <= Len(head) \/ i > Len(h) \/ (i = a /\ i <= Len(h)) \/ i \in (a + 1)..(a + new)
    <3>1. Len(h) = a + new \/ (new = 0 /\ Len(h) = Len(head))
      BY <1>1, <1>3, <1>9, <1>11
    <3> QED BY <1>1, <1>9, <1>11, <3>1
  <2> QED BY <2>1, <2>2, <2>3, <2>4, <2>5
<1>18. a \in Nat
  BY <1>9
<1> HIDE DEF a
<1> QED
  BY <1>7, <1>8, <1>13, <1>15, <1>16, <1>17, <1>18 DEF new, EventsAt

-----------------------------------------------------------------------------
(* What a poller is shown *)

\* If the event nodes of a tree stand together, EventsOf lists their numbers.
LEMMA EventsInOrder ==
  ASSUME NEW t, NEW a \in Nat, NEW m \in Nat, NEW after \in Nat, t.nodes \in Seq(N),
         EventsAt(t.nodes, a, m, after)
  PROVE  EventsOf(t) = [k \in 1..m |-> after + k]
<1> USE DEF EventsAt
<1> DEFINE places == {i \in DOMAIN t.nodes : t.nodes[i].kind = "event"}
<1> DEFINE Upto(i) == {j \in places : j <= i}
<1> DEFINE Nth(k) == CHOOSE i \in places : Cardinality(Upto(i)) = k
<1>1. places = (a + 1)..(a + m)
  <2>1. \A i \in (a + 1)..(a + m) : i - a \in 1..m /\ a + (i - a) = i
    OBVIOUS
  <2>2. (a + 1)..(a + m) \subseteq 1..Len(t.nodes)
    BY <2>1
  <2>3. DOMAIN t.nodes = 1..Len(t.nodes)
    OBVIOUS
  <2> QED BY <2>2, <2>3
<1>2. EventsOf(t) = [k \in 1..Cardinality(places) |-> t.nodes[Nth(k)].n]
  BY DEF EventsOf
<1> HIDE DEF places
<1>3. Cardinality(places) = m
  <2>1. a + 1 \in Int /\ a + m \in Int
    OBVIOUS
  <2>2. Cardinality((a + 1)..(a + m)) = IF a + 1 > a + m THEN 0 ELSE (a + m) - (a + 1) + 1
    BY <2>1, FS_Interval
  <2> QED BY <1>1, <2>2
<1> HIDE DEF Upto
<1>4. ASSUME NEW i \in places PROVE Cardinality(Upto(i)) = i - a
  <2>1. Upto(i) = (a + 1)..i
    BY <1>1 DEF Upto
  <2>2. a + 1 \in Int /\ i \in Int /\ i >= a + 1
    BY <1>1
  <2>3. Cardinality((a + 1)..i) = IF a + 1 > i THEN 0 ELSE i - (a + 1) + 1
    BY <2>2, FS_Interval
  <2>4. Cardinality((a + 1)..i) = i - a
    BY <2>2, <2>3
  <2> QED BY <2>1, <2>4
<1>5. ASSUME NEW k \in 1..m PROVE Nth(k) \in places /\ Cardinality(Upto(Nth(k))) = k
  <2>1. a + k \in places /\ (a + k) - a = k
    BY <1>1
  <2>2. Cardinality(Upto(a + k)) = k
    BY <1>4, <2>1
  <2> QED BY <2>1, <2>2
<1> HIDE DEF Nth
<1>6. ASSUME NEW k \in 1..m PROVE t.nodes[Nth(k)].n = after + k
  <2>1. Nth(k) - a = k
    BY <1>4, <1>5
  <2>2. Nth(k) = a + k
    <3>1. Nth(k) \in (a + 1)..(a + m)
      BY <1>1, <1>5
    <3>2. ASSUME NEW x \in (a + 1)..(a + m), x - a = k PROVE x = a + k
      BY <3>2
    <3> QED BY <2>1, <3>1, <3>2
  <2>3. "event" \in Kinds /\ after + k \in Nat
    BY DEF Kinds
  <2>4. Node("event", after + k).n = after + k
    BY <2>3, NodeOK
  <2> QED BY <2>2, <2>4
<1> QED
  BY <1>2, <1>3, <1>6


-----------------------------------------------------------------------------
(* Truncation *)

\* A whole tree: its first node is the run.
Whole(nodes) == Branch(nodes, Kinds) /\ Len(nodes) # 0 /\ nodes[1] = Root

\* The first nodes of a tree and a marker are a tree.
LEMMA MarkedTree ==
  ASSUME NEW nodes, Branch(nodes, Kinds \ {"truncated"}), nodes[1] = Root,
         NEW m \in Nat \ {0}, m <= Len(nodes)
  PROVE  /\ Whole(SubSeq(nodes, 1, m) \o <<Marker>>)
         /\ Len(SubSeq(nodes, 1, m) \o <<Marker>>) = m + 1
         /\ ToSet(SubSeq(nodes, 1, m) \o <<Marker>>) \subseteq ToSet(nodes) \cup {Marker}
         /\ Marker \in ToSet(SubSeq(nodes, 1, m) \o <<Marker>>)
<1> DEFINE first == SubSeq(nodes, 1, m)
<1> DEFINE kept == first \o <<Marker>>
<1>1. nodes \in Seq(N) /\ Len(nodes) \in Nat
  BY DEF Branch
<1>2. first \in Seq(N) /\ Len(first) = m /\ \A i \in 1..m : first[i] = nodes[i]
  BY <1>1, SubSeqProperties
<1>3. Branch(<<Marker>>, {"truncated"})
  BY BranchOfOne DEF Marker
<1>4. <<Marker>> \in Seq(N) /\ Len(<<Marker>>) = 1 /\ <<Marker>>[1] = Marker
  BY <1>3 DEF Branch
<1> HIDE DEF first
<1>5. Branch(first, Kinds \ {"truncated"})
  <2>1. \A i \in 1..m : i \in 1..Len(nodes)
    BY <1>1
  <2>2. \A i \in 1..m : first[i].kind \in Kinds \ {"truncated"}
    BY <1>2, <2>1 DEF Branch
  <2>3. \A i, j \in 1..m : first[i] = first[j] => i = j
    BY <1>2, <2>1 DEF Branch
  <2>4. ASSUME NEW i \in 1..m
        PROVE  Parent(first[i]) = Root \/ \E j \in 1..(i - 1) : first[j] = Parent(first[i])
    <3>1. \A j \in 1..(i - 1) : first[j] = nodes[j]
      BY <1>2
    <3> QED BY <1>2, <2>1, <3>1 DEF Branch
  <2> QED BY <1>2, <2>2, <2>3, <2>4 DEF Branch
<1>6. Branch(kept, (Kinds \ {"truncated"}) \cup {"truncated"})
  BY <1>3, <1>5, BranchGrows
<1>7. (Kinds \ {"truncated"}) \cup {"truncated"} = Kinds
  BY DEF Kinds
<1>8. /\ kept \in Seq(N) /\ Len(kept) = m + 1 /\ kept[m + 1] = Marker
      /\ \A i \in 1..m : kept[i] = first[i]
  BY <1>2, <1>4, ConcatProperties
<1> HIDE DEF kept
<1>9. DOMAIN kept = 1..(m + 1) /\ DOMAIN nodes = 1..Len(nodes)
  BY <1>1, <1>8
<1>10. ToSet(kept) \subseteq ToSet(nodes) \cup {Marker} /\ Marker \in ToSet(kept)
  <2>1. ASSUME NEW i \in 1..(m + 1) PROVE kept[i] \in ToSet(nodes) \cup {Marker}
    BY <1>1, <1>2, <1>8, <1>9 DEF ToSet
  <2> QED BY <1>8, <1>9, <2>1 DEF ToSet
<1>11. Whole(kept)
  <2>1. 1 \in 1..m /\ kept[1] = Root
    BY <1>2, <1>8
  <2>2. Len(kept) # 0
    BY <1>8
  <2>3. Branch(kept, Kinds)
    BY <1>6, <1>7
  <2> QED BY <2>1, <2>2, <2>3 DEF Whole
<1> QED
  BY <1>8, <1>10, <1>11 DEF kept, first

\* In a tree, the nodes at the ends of every edge are among the nodes.
LEMMA EndsOfEdges ==
  ASSUME NEW nodes, Whole(nodes), NEW x \in ToSet(nodes)
  PROVE  Parent(x) \in ToSet(nodes)
<1>1. nodes \in Seq(N) /\ DOMAIN nodes = 1..Len(nodes) /\ Len(nodes) \in Nat
  BY DEF Whole, Branch
<1>2. PICK i \in 1..Len(nodes) : x = nodes[i]
  BY <1>1 DEF ToSet
<1>3. CASE Parent(x) = Root
  BY <1>1, <1>3 DEF Whole, ToSet
<1>4. CASE Parent(x) # Root
  <2>1. PICK j \in 1..(i - 1) : nodes[j] = Parent(x)
    BY <1>2, <1>4 DEF Whole, Branch
  <2> QED BY <1>1, <2>1 DEF ToSet
<1> QED
  BY <1>3, <1>4

\* Whatever is dropped, what remains is a tree whose edges are those of its nodes.
LEMMA TruncatedTree ==
  ASSUME NEW nodes, Branch(nodes, Kinds \ {"truncated"}), nodes[1] = Root, Len(nodes) # 0,
         NEW max \in Nat, max >= 5
  PROVE  LET t == Truncate(nodes, max)
         IN /\ Whole(t.nodes) /\ t.edges = Edges(t.nodes) /\ t.omitted \in Nat
            /\ t.omitted = 0 => t.nodes = nodes /\ Len(nodes) <= max
            /\ t.omitted # 0 => Len(t.nodes) = max /\ t.omitted > 1
<1>1. nodes \in Seq(N) /\ Len(nodes) \in Nat
  BY DEF Branch
<1>2. CASE Len(nodes) <= max
  <2>1. Whole(nodes)
    BY DEF Whole, Branch
  <2> QED BY <1>2, <2>1 DEF Truncate
<1>3. CASE Len(nodes) > max
  <2> DEFINE kept == SubSeq(nodes, 1, max - 1) \o <<Marker>>
  <2>1. max - 1 \in Nat \ {0} /\ max - 1 <= Len(nodes) /\ (max - 1) + 1 = max
    BY <1>1, <1>3
  <2>2. /\ Whole(kept) /\ Len(kept) = max
        /\ ToSet(kept) \subseteq ToSet(nodes) \cup {Marker} /\ Marker \in ToSet(kept)
    BY <2>1, MarkedTree
  <2> DEFINE t == Truncate(nodes, max)
  <2>3. /\ t.nodes = kept /\ t.omitted = Len(nodes) - (max - 1)
        /\ t.edges = {e \in Edges(nodes) : {e[1], e[2]} \subseteq ToSet(kept)}
                       \cup {<<Root, Marker>>}
    BY <1>1, <1>3 DEF Truncate
  <2> HIDE DEF t, kept
  <2>4. Parent(Marker) = Root /\ Marker # Root /\ Root \in ToSet(kept)
    <3>1. Marker.kind = "truncated" /\ Root.kind = "run"
      BY NodeOK DEF Marker, Root, Kinds
    <3>2. Root \in ToSet(kept)
      BY <2>2 DEF Whole, Branch, ToSet
    <3> QED BY <3>1, <3>2 DEF Parent
  <2>5. ASSUME NEW e \in Edges(kept) PROVE e \in t.edges
    <3>1. PICK x \in ToSet(kept) \ {Root} : e = <<Parent(x), x>>
      BY DEF Edges
    <3>2. CASE x = Marker
      BY <2>3, <2>4, <3>1, <3>2
    <3>3. CASE x # Marker
      <4>1. x \in ToSet(nodes) \ {Root}
        BY <2>2, <3>1, <3>3
      <4>2. e \in Edges(nodes)
        BY <3>1, <4>1 DEF Edges
      <4>3. e[1] \in ToSet(kept) /\ e[2] \in ToSet(kept)
        BY <2>2, <3>1, EndsOfEdges
      <4> QED BY <2>3, <4>2, <4>3
    <3> QED BY <3>2, <3>3
  <2>6. ASSUME NEW e \in t.edges PROVE e \in Edges(kept)
    <3>1. CASE e = <<Root, Marker>>
      BY <2>2, <2>4, <3>1 DEF Edges
    <3>2. CASE e \in Edges(nodes) /\ {e[1], e[2]} \subseteq ToSet(kept)
      <4>1. PICK x \in ToSet(nodes) \ {Root} : e = <<Parent(x), x>>
        BY <3>2 DEF Edges
      <4> QED BY <3>2, <4>1 DEF Edges
    <3> QED BY <2>3, <3>1, <3>2
  <2>7. t.edges = Edges(t.nodes)
    BY <2>3, <2>5, <2>6
  <2>8. t.omitted \in Nat /\ t.omitted > 1
    BY <1>1, <1>3, <2>3
  <2> QED BY <2>2, <2>3, <2>7, <2>8 DEF t
<1> QED
  BY <1>1, <1>2, <1>3

\* The edges of a tree lead from a node to one that it precedes, one to each.
LEMMA OneEdgeEach ==
  ASSUME NEW nodes, Whole(nodes), NEW i \in 2..Len(nodes)
  PROVE  \E j \in 1..(i - 1) :
           {e \in Edges(nodes) : e[2] = nodes[i]} = {<<nodes[j], nodes[i]>>}
<1>1. nodes \in Seq(N) /\ DOMAIN nodes = 1..Len(nodes) /\ Len(nodes) \in Nat
  BY DEF Whole, Branch
<1>2. nodes[i] # Root /\ nodes[i] \in ToSet(nodes)
  BY <1>1 DEF Whole, Branch, ToSet
<1>3. PICK j \in 1..(i - 1) : nodes[j] = Parent(nodes[i])
  <2>1. CASE Parent(nodes[i]) = Root
    BY <1>1, <2>1 DEF Whole
  <2>2. CASE Parent(nodes[i]) # Root
    BY <1>1, <2>2 DEF Whole, Branch
  <2> QED BY <2>1, <2>2
<1>4. <<nodes[j], nodes[i]>> \in Edges(nodes)
  BY <1>2, <1>3 DEF Edges
<1>5. ASSUME NEW e \in Edges(nodes), e[2] = nodes[i] PROVE e = <<nodes[j], nodes[i]>>
  BY <1>3, <1>5 DEF Edges
<1>6. {e \in Edges(nodes) : e[2] = nodes[i]} = {<<nodes[j], nodes[i]>>}
  BY <1>4, <1>5
<1> QED
  BY <1>6


-----------------------------------------------------------------------------
(* The outputs *)

\* Every output is a whole tree that fills its bound if nodes are omitted; while
\* nothing was cut, the poller has been shown what precedes its cursor.
OutputsInv ==
  /\ Typed
  /\ pc \in {"idle", "events"} /\ cut \in BOOLEAN
  /\ cut => shown = <<>>
  /\ PollerSeesAll
  /\ tree.criteria \in {"satisfied", "unknown", "pending"} /\ tree.omitted \in Nat
  /\ Whole(tree.nodes) /\ tree.edges = Edges(tree.nodes)
  /\ \E max \in MaxNodes :
       LET bound == Larger(max, 5)
       IN IF tree.omitted = 0 THEN Len(tree.nodes) <= bound
          ELSE Len(tree.nodes) = bound /\ tree.omitted > 1
  /\ DOMAIN report = DOMAIN NoReport /\ \A c \in DOMAIN report : report[c] \in BOOLEAN

LEMMA NoReportOK == \A c \in DOMAIN NoReport : NoReport[c] \in BOOLEAN
<1> DEFINE C == {"terminal", "success", "started", "completed", "criteria", "clean"}
<1>1. DOMAIN NoReport = C
  BY DEF NoReport
<1>2. \A c \in C : NoReport[c] = FALSE
  BY DEF NoReport
<1> QED
  BY <1>1, <1>2

LEMMA ReportOK ==
  ASSUME NEW state
  PROVE  /\ DOMAIN Report(state) = DOMAIN NoReport
         /\ \A c \in DOMAIN Report(state) : Report(state)[c] \in BOOLEAN
<1> DEFINE C == {"terminal", "success", "started", "completed", "criteria", "clean"}
<1>1. DOMAIN NoReport = C /\ DOMAIN Report(state) = C
  BY DEF NoReport, Report
<1> DEFINE terminal == state \in Terminal
           success == state = "completed"
           started == Recorded("started")
           completed == Recorded("completed")
           clean == \A t \in Failure : ~ Recorded(t)
<1>2. /\ terminal \in BOOLEAN /\ success \in BOOLEAN /\ started \in BOOLEAN
      /\ completed \in BOOLEAN /\ clean \in BOOLEAN
  <2>1. terminal \in BOOLEAN /\ success \in BOOLEAN
    OBVIOUS
  <2>2. started \in BOOLEAN
    BY DEF Recorded
  <2>3. completed \in BOOLEAN
    BY DEF Recorded
  <2>4. clean \in BOOLEAN
    OBVIOUS
  <2> QED BY <2>1, <2>2, <2>3, <2>4
<1>3. Report(state) = [terminal |-> terminal, success |-> success, started |-> started,
                       completed |-> completed, criteria |-> completed, clean |-> clean]
  BY DEF Report
<1> HIDE DEF terminal, success, started, completed, clean
<1>4. /\ Report(state).terminal \in BOOLEAN
      /\ Report(state).success \in BOOLEAN
      /\ Report(state).started \in BOOLEAN
      /\ Report(state).completed \in BOOLEAN
      /\ Report(state).criteria \in BOOLEAN
      /\ Report(state).clean \in BOOLEAN
  BY <1>2, <1>3
<1> QED
  BY <1>1, <1>4

LEMMA OutputsInit == Init => OutputsInv
<1> SUFFICES ASSUME Init PROVE OutputsInv
  OBVIOUS
<1>1. Typed
  BY InvInit DEF Inv
<1>2. Branch(<<Root>>, {"run"})
  BY BranchOfOne DEF Root
<1>3. <<Root>> \in Seq(N) /\ Len(<<Root>>) = 1 /\ <<Root>>[1] = Root
  BY <1>2 DEF Branch
<1>4. Whole(<<Root>>)
  BY <1>2, <1>3 DEF Whole, Branch, Kinds
<1>5. ToSet(<<Root>>) \ {Root} = {}
  BY <1>3 DEF ToSet
<1>6. Edges(<<Root>>) = {}
  BY <1>5 DEF Edges
<1>7. /\ tree.nodes = <<Root>> /\ tree.edges = {} /\ tree.omitted = 0
      /\ tree.criteria = "pending"
      /\ cursor = 0 /\ shown = <<>> /\ cut = FALSE /\ pc = "idle" /\ report = NoReport
  BY DEF Init
<1>8. PICK limit \in MaxNodes : TRUE
  OBVIOUS
<1>9. 1 <= Larger(limit, 5)
  BY DEF Larger
<1>10. PollerSeesAll
  BY <1>7 DEF PollerSeesAll
<1>11. DOMAIN report = DOMAIN NoReport /\ \A c \in DOMAIN report : report[c] \in BOOLEAN
  BY <1>7, NoReportOK
<1>12. \E max \in MaxNodes :
         LET bound == Larger(max, 5)
         IN IF tree.omitted = 0 THEN Len(tree.nodes) <= bound
            ELSE Len(tree.nodes) = bound /\ tree.omitted > 1
  BY <1>3, <1>7, <1>8, <1>9
<1>13. Whole(tree.nodes) /\ tree.edges = Edges(tree.nodes)
  BY <1>4, <1>6, <1>7
<1>14. pc \in {"idle", "events"} /\ cut \in BOOLEAN /\ (cut => shown = <<>>)
  BY <1>7
<1>15. tree.criteria \in {"satisfied", "unknown", "pending"} /\ tree.omitted \in Nat
  BY <1>7
<1> QED
  BY <1>1, <1>10, <1>11, <1>12, <1>13, <1>14, <1>15, Zenon DEF OutputsInv

\* A poll that is not cut adds the events after the cursor, in order.
LEMMA PollShowsNew ==
  ASSUME Typed, NEW spec \in Spec_ \cup {NoSpec}, NEW t, t.nodes = Nodes(spec, cursor)
  PROVE  EventsOf(t) = [k \in 1..(Len(log) - cursor) |-> cursor + k]
<1>1. log \in Seq(Type) /\ cursor \in 0..Len(log) /\ cursor \in Nat /\ Len(log) - cursor \in Nat
  BY DEF Typed
<1> DEFINE nodes == Nodes(spec, cursor)
<1> DEFINE new == Len(log) - cursor
<1>2. /\ Branch(nodes, Kinds \ {"truncated"})
      /\ \E a \in Nat : EventsAt(nodes, a, new, cursor)
  BY <1>1, ShapeOfNodes
<1>3. t.nodes = nodes /\ nodes \in Seq(N) /\ new \in Nat
  BY <1>1, <1>2 DEF Branch
<1> HIDE DEF nodes, new
<1>4. PICK a \in Nat : EventsAt(nodes, a, new, cursor)
  BY <1>2
<1>5. t.nodes \in Seq(N) /\ EventsAt(t.nodes, a, new, cursor)
  BY <1>3, <1>4
<1>6. new \in Nat /\ cursor \in Nat
  BY <1>1, <1>3
<1>7. EventsOf(t) = [k \in 1..new |-> cursor + k]
  BY <1>5, <1>6, EventsInOrder
<1> QED
  BY <1>7 DEF new

\* The numbers up to m and those from there to n.
LEMMA NumbersJoin ==
  ASSUME NEW n \in Nat, NEW m \in 0..n
  PROVE  [i \in 1..m |-> i] \o [k \in 1..(n - m) |-> m + k] = [i \in 1..n |-> i]
OBVIOUS

LEMMA PollKeepsOutputs ==
  ASSUME OutputsInv, NEW spec \in Spec_ \cup {NoSpec}, NEW max \in MaxNodes,
         BuildsTree(spec, max)
  PROVE  OutputsInv'
<1> DEFINE nodes == Nodes(spec, cursor)
<1> DEFINE bound == Larger(max, 5)
<1> DEFINE t == Truncate(nodes, bound)
<1>1. Typed /\ log \in Seq(Type) /\ cursor \in 0..Len(log)
  BY DEF OutputsInv, Typed
<1>2. /\ tree'.nodes = t.nodes /\ tree'.edges = t.edges /\ tree'.omitted = t.omitted
      /\ tree'.criteria = CriterionState(row)
      /\ cut' = (cut \/ t.omitted > 0)
      /\ shown' = IF cut' THEN <<>> ELSE shown \o EventsOf(t)
      /\ cursor' = Len(log) /\ pc' = "idle"
      /\ UNCHANGED <<log, status, row, report>>
  BY DEF BuildsTree, session
<1>3. Branch(nodes, Kinds \ {"truncated"}) /\ Len(nodes) # 0 /\ nodes[1] = Root
  BY <1>1, ShapeOfNodes
<1>4. bound \in Nat /\ bound >= 5
  BY DEF Larger
<1> HIDE DEF nodes, bound
<1>5. /\ Whole(t.nodes) /\ t.edges = Edges(t.nodes) /\ t.omitted \in Nat
      /\ t.omitted = 0 => t.nodes = nodes /\ Len(nodes) <= bound
      /\ t.omitted # 0 => Len(t.nodes) = bound /\ t.omitted > 1
  BY <1>3, <1>4, TruncatedTree
<1> HIDE DEF t
<1>6. Typed'
  BY <1>2 DEF OutputsInv, Typed
<1>7. cut' \in BOOLEAN /\ (cut' => shown' = <<>>)
  BY <1>2, <1>5 DEF OutputsInv
<1>8. PollerSeesAll'
  <2> SUFFICES ASSUME ~ cut' PROVE shown' = [i \in 1..cursor' |-> i]
    BY DEF PollerSeesAll
  <2>1. ~ cut /\ t.omitted = 0 /\ t.nodes = Nodes(spec, cursor)
    <3>1. ~ (cut \/ t.omitted > 0)
      BY <1>2, Zenon
    <3>2. ~ (t.omitted > 0)
      BY <3>1, Zenon
    <3>3. t.omitted = 0
      BY <1>5, <3>2
    <3> QED BY <1>5, <3>1, <3>3 DEF nodes
  <2>2. EventsOf(t) = [k \in 1..(Len(log) - cursor) |-> cursor + k]
    BY <1>1, <2>1, PollShowsNew
  <2>3. shown = [i \in 1..cursor |-> i]
    BY <2>1 DEF OutputsInv, PollerSeesAll
  <2>4. shown \o EventsOf(t) = [i \in 1..Len(log) |-> i]
    <3>1. Len(log) \in Nat
      BY <1>1
    <3> QED BY <1>1, <2>2, <2>3, <3>1, NumbersJoin
  <2> QED BY <1>2, <2>4
<1>9. tree'.criteria \in {"satisfied", "unknown", "pending"}
  BY <1>2 DEF CriterionState
<1>10. IF t.omitted = 0 THEN Len(t.nodes) <= Larger(max, 5)
       ELSE Len(t.nodes) = Larger(max, 5) /\ t.omitted > 1
  BY <1>5 DEF bound
<1> QED
  BY <1>2, <1>5, <1>6, <1>7, <1>8, <1>9, <1>10 DEF OutputsInv

LEMMA OutputsStep == Inv /\ OutputsInv /\ [Next]_vars => OutputsInv'
<1> SUFFICES ASSUME Inv, OutputsInv, [Next]_vars PROVE OutputsInv'
  OBVIOUS
<1>1. Typed'
  BY InvStep DEF Inv
<1>2. CASE OthersWrite
  BY <1>1, <1>2 DEF OthersWrite, OutputsInv, PollerSeesAll
<1>3. CASE ReadsSession
  BY <1>1, <1>3 DEF ReadsSession, session, OutputsInv, PollerSeesAll
<1>4. ASSUME NEW spec \in Spec_ \cup {NoSpec}, NEW max \in MaxNodes, BuildsTree(spec, max)
      PROVE  OutputsInv'
  BY <1>4, PollKeepsOutputs
<1>5. CASE JudgesRun
  <2>1. /\ report' = Report(row) /\ pc' = "idle"
        /\ UNCHANGED <<log, status, row, cursor, shown, cut, tree>>
    BY <1>5 DEF JudgesRun, session
  <2>2. DOMAIN report' = DOMAIN NoReport /\ \A c \in DOMAIN report' : report'[c] \in BOOLEAN
    BY <2>1, ReportOK
  <2> QED BY <1>1, <2>1, <2>2 DEF OutputsInv, PollerSeesAll
<1>6. CASE UNCHANGED vars
  BY <1>1, <1>6 DEF vars, session, OutputsInv, PollerSeesAll
<1> QED
  BY <1>2, <1>3, <1>4, <1>5, <1>6 DEF Next

LEMMA OutputsHold == Spec => [](Inv /\ OutputsInv)
<1>1. Init => Inv /\ OutputsInv
  BY InvInit, OutputsInit
<1>2. Inv /\ OutputsInv /\ [Next]_vars => Inv' /\ OutputsInv'
  BY InvStep, OutputsStep
<1> QED
  BY <1>1, <1>2, PTL DEF Spec

\* Every report has its type.
THEOREM ReportsTypeCorrect == Spec => []TypeOK
<1>1. Inv /\ OutputsInv => TypeOK
  <2> SUFFICES ASSUME OutputsInv PROVE TypeOK
    OBVIOUS
  <2>1. shown \in Seq(Nat)
    <3>1. CASE cut
      BY <3>1 DEF OutputsInv
    <3>2. CASE ~ cut
      <4>1. cursor \in Nat /\ shown = [i \in 1..cursor |-> i]
        BY <3>2 DEF OutputsInv, Typed, PollerSeesAll
      <4>2. shown \in [1..cursor -> Nat]
        BY <4>1
      <4> QED BY <4>1, <4>2, SeqDef, Zenon
    <3> QED BY <3>1, <3>2 DEF OutputsInv
  <2>2. tree.nodes \in Seq(NodeSet(Kinds))
    BY DEF OutputsInv, Whole, Branch, N
  <2> QED BY <2>1, <2>2 DEF OutputsInv, Typed, TypeOK
<1> QED
  BY <1>1, OutputsHold, PTL

\* Every output of ac-tree is a tree rooted in the run, truncated or not, and
\* fills its bound if nodes are omitted.
THEOREM EveryOutputIsTree == Spec => []OutputIsTree
<1>1. Inv /\ OutputsInv => OutputIsTree
  <2> SUFFICES ASSUME OutputsInv PROVE OutputIsTree
    OBVIOUS
  <2> DEFINE nodes == tree.nodes
  <2>1. Whole(nodes) /\ tree.edges = Edges(nodes)
    BY DEF OutputsInv
  <2>2. nodes \in Seq(N) /\ DOMAIN nodes = 1..Len(nodes) /\ nodes[1] = Root
    BY <2>1 DEF Whole, Branch
  <2>3. \A i, j \in DOMAIN nodes : nodes[i] = nodes[j] => i = j
    BY <2>1, <2>2 DEF Whole, Branch
  <2>4. ASSUME NEW e \in tree.edges PROVE {e[1], e[2]} \subseteq ToSet(nodes)
    BY <2>1, EndsOfEdges DEF Edges
  <2>5. \A i \in 2..Len(nodes) :
          \E j \in 1..(i - 1) : {e \in tree.edges : e[2] = nodes[i]} = {<<nodes[j], nodes[i]>>}
    BY <2>1, OneEdgeEach
  <2> QED
    BY <2>2, <2>3, <2>4, <2>5 DEF OutputsInv, OutputIsTree
<1> QED
  BY <1>1, OutputsHold, PTL

\* Who always passes the cursor of the last output and got no truncated one has
\* been shown every event up to the cursor once, in order.
THEOREM PollersMissNothing == Spec => []PollerSeesAll
<1>1. Inv /\ OutputsInv => PollerSeesAll
  BY DEF OutputsInv
<1> QED
  BY <1>1, OutputsHold, PTL

HIDE ConstantsOK

-----------------------------------------------------------------------------
(* Numbers, and functions defined by recursion on them *)

\* Every set of numbers has a least one.
LEMMA Least ==
  ASSUME NEW S, S \subseteq Nat, S # {}
  PROVE  \E m \in S : \A k \in S : m <= k
<1>1. PICK m \in S : \A k \in S : ~ (<<k, m>> \in OpToRel(<, Nat))
  BY NatLessThanWellFounded, WFMin, Zenon
<1>2. \A k \in S : ~ (k < m)
  BY <1>1 DEF OpToRel
<1> QED
  BY <1>2

\* An induction over a set of numbers, up to a bound.
LEMMA UpTo ==
  ASSUME NEW n \in Nat, NEW T, 0 \in T, \A k \in 0..(n - 1) : k \in T => k + 1 \in T
  PROVE  \A k \in 0..n : k \in T
<1> SUFFICES ASSUME NEW k \in 0..n, k \notin T PROVE FALSE
  OBVIOUS
<1> DEFINE S == {j \in 0..n : j \notin T}
<1>1. PICK m \in S : \A j \in S : m <= j
  <2>1. S \subseteq Nat /\ S # {}
    BY DEF S
  <2> HIDE DEF S
  <2> QED
    BY <2>1, Least
<1>2. m - 1 \in 0..(n - 1) /\ m - 1 \in T
  BY <1>1
<1> QED
  BY <1>1, <1>2

LEMMA MaxOf ==
  ASSUME NEW n \in Nat, NEW S, S \subseteq 0..n, S # {}
  PROVE  Max(S) \in S /\ \A k \in S : k <= Max(S)
<1> DEFINE T == {n - k : k \in S}
<1>1. PICK m \in T : \A k \in T : m <= k
  <2>1. T \subseteq Nat
    <3>1. \A k \in S : n - k \in Nat
      OBVIOUS
    <3> QED
      BY <3>1
  <2>2. T # {}
    OBVIOUS
  <2> HIDE DEF T
  <2> QED
    BY <2>1, <2>2, Least
<1>2. n - m \in S /\ \A k \in S : n - m >= k
  BY <1>1
<1> QED
  BY <1>2 DEF Max

LEMMA MaxIs ==
  ASSUME NEW S, S \subseteq Int, NEW m \in S, \A k \in S : k <= m
  PROVE  Max(S) = m
<1>1. PICK k : k = Max(S)
  OBVIOUS
<1>2. k \in S /\ \A j \in S : k >= j
  BY <1>1 DEF Max
<1> QED
  BY <1>1, <1>2

LEMMA MinOf ==
  ASSUME NEW S, S \subseteq Nat, S # {}
  PROVE  Min(S) \in S /\ \A k \in S : Min(S) <= k
<1>1. \E m \in S : \A k \in S : m <= k
  BY Least
<1> QED
  BY <1>1 DEF Min

\* The k-th value of a recursion with n steps, each a step of a function.
Chain(f, n, first, step) ==
  f = [k \in 0..n |-> IF k = 0 THEN first ELSE step[f[k - 1]]]

LEMMA ChainExists ==
  ASSUME NEW S, NEW first \in S, NEW step \in [S -> S], NEW n \in Nat
  PROVE  \E f \in [0..n -> S] : Chain(f, n, first, step)
<1> DEFINE T == {k \in Nat : \E f \in [0..k -> S] : Chain(f, k, first, step)}
<1>1. 0 \in T
  <2> DEFINE f == [k \in 0..0 |-> first]
  <2>1. f \in [0..0 -> S] /\ Chain(f, 0, first, step)
    BY DEF Chain
  <2> QED
    BY <2>1
<1>2. ASSUME NEW k \in 0..(n - 1), k \in T PROVE k + 1 \in T
  <2>1. PICK f \in [0..k -> S] : Chain(f, k, first, step)
    BY <1>2
  <2> DEFINE g == [j \in 0..(k + 1) |-> IF j = k + 1 THEN step[f[k]] ELSE f[j]]
  <2>2. g \in [0..(k + 1) -> S]
    BY <2>1
  <2>3. ASSUME NEW j \in 0..(k + 1)
        PROVE  g[j] = IF j = 0 THEN first ELSE step[g[j - 1]]
    BY <2>1 DEF Chain
  <2>4. Chain(g, k + 1, first, step)
    <3> HIDE DEF g
    <3> QED
      BY <2>2, <2>3 DEF Chain
  <2> QED
    BY <2>2, <2>4
<1>3. n \in T
  <2> HIDE DEF T
  <2> QED
    BY <1>1, <1>2, UpTo
<1> QED
  BY <1>3

\* A function whose values stay in a set from number to number.
LEMMA StaysIn ==
  ASSUME NEW S, NEW n \in Nat, NEW f, f = [k \in 0..n |-> f[k]], f[0] \in S,
         \A k \in 1..n : f[k - 1] \in S => f[k] \in S
  PROVE  f \in [0..n -> S]
<1> DEFINE T == {k \in 0..n : f[k] \in S}
<1>1. 0 \in T
  OBVIOUS
<1>2. ASSUME NEW k \in 0..(n - 1), k \in T PROVE k + 1 \in T
  <2>1. k + 1 \in 1..n /\ (k + 1) - 1 = k /\ f[k] \in S
    BY <1>2
  <2> QED
    BY <2>1
<1>3. \A k \in 0..n : k \in T
  <2> HIDE DEF T
  <2> QED
    BY <1>1, <1>2, UpTo
<1>4. \A k \in 0..n : f[k] \in S
  BY <1>3
<1> HIDE DEF T
<1> QED
  BY <1>4

-----------------------------------------------------------------------------
(* Loops as functions of their rounds *)

SessionNode == [id : Int, depth : Int]

LEMMA NodeHas ==
  ASSUME NEW x, NEW depth
  PROVE  NodeAt(x, depth).id = x /\ NodeAt(x, depth).depth = depth
BY DEF NodeAt

LEMMA NodesHave ==
  ASSUME NEW found \in Seq(SessionNode), NEW i \in 1..Len(found)
  PROVE  found[i] \in SessionNode /\ found[i].id \in Int /\ found[i].depth \in Int
<1>1. found[i] \in SessionNode
  OBVIOUS
<1> QED
  BY <1>1 DEF SessionNode

LEMMA TableOK ==
  ASSUME NEW n \in Nat, NEW table \in Tables(n)
  PROVE  /\ DOMAIN table = 1..n /\ Len(table) = n
         /\ \A s \in 1..n : table[s] \in 0..(n + 1)
<1>1. table \in [1..n -> 0..(n + 1)]
  BY DEF Tables
<1>2. table \in Seq(0..(n + 1))
  BY <1>1
<1> QED
  BY <1>1, <1>2

LEMMA WalkOnOK ==
  ASSUME NEW n \in Nat, NEW table \in Tables(n), NEW x, NEW seen,
         NEW found \in Seq(SessionNode)
  PROVE  WalkOn(table, x, seen, found) \in Seq(SessionNode)
<1> DEFINE parent == NextParent(table, x, found)
<1>1. CASE parent \in seen \cup Ids(found) \/ parent \notin DOMAIN table
  BY <1>1 DEF WalkOn
<1>2. CASE ~ (parent \in seen \cup Ids(found) \/ parent \notin DOMAIN table)
  <2>1. NodeAt(parent, - (Len(found) + 1)) \in SessionNode
    BY <1>2, TableOK DEF NodeAt, SessionNode
  <2>2. WalkOn(table, x, seen, found) = Append(found, NodeAt(parent, - (Len(found) + 1)))
    BY <1>2 DEF WalkOn
  <2> QED
    BY <2>1, <2>2
<1> QED
  BY <1>1, <1>2

LEMMA WalkSteps ==
  ASSUME NEW n \in Nat, NEW table \in Tables(n), NEW x, NEW seen,
         NEW w, w = Walk(table, x, seen)
  PROVE  /\ w \in [0..n -> Seq(SessionNode)] /\ w[0] = <<>>
         /\ \A k \in 1..n : w[k] = WalkOn(table, x, seen, w[k - 1])
<1> DEFINE step == [found \in Seq(SessionNode) |-> WalkOn(table, x, seen, found)]
<1>1. step \in [Seq(SessionNode) -> Seq(SessionNode)]
  BY WalkOnOK
<1>2. <<>> \in Seq(SessionNode)
  OBVIOUS
<1> HIDE DEF step
<1>3. PICK f \in [0..n -> Seq(SessionNode)] : Chain(f, n, <<>>, step)
  BY <1>1, <1>2, ChainExists
<1> DEFINE Steps(g) == g = [k \in 0..n |-> IF k = 0 THEN <<>>
                                           ELSE WalkOn(table, x, seen, g[k - 1])]
<1>4. Steps(f)
  <2>1. \A k \in 0..n : k # 0 => step[f[k - 1]] = WalkOn(table, x, seen, f[k - 1])
    BY <1>3 DEF step
  <2> QED
    BY <1>3, <2>1 DEF Chain
<1>5. w = CHOOSE g : Steps(g)
  BY TableOK DEF Walk
<1>6. Steps(w)
  BY <1>4, <1>5
<1>7. 0 \in 0..n /\ \A k \in 1..n : k \in 0..n /\ k # 0
  OBVIOUS
<1>8. w[0] = <<>>
  BY <1>6, <1>7
<1>9. ASSUME NEW k \in 1..n PROVE w[k] = WalkOn(table, x, seen, w[k - 1])
  <2>1. w[k] = IF k = 0 THEN <<>> ELSE WalkOn(table, x, seen, w[k - 1])
    BY <1>6, <1>7, Zenon
  <2> QED
    BY <1>7, <2>1
<1>10. w = [k \in 0..n |-> w[k]]
  BY <1>6
<1> HIDE DEF Steps
<1>11. \A k \in 1..n : w[k - 1] \in Seq(SessionNode) => w[k] \in Seq(SessionNode)
  BY <1>9, WalkOnOK
<1>12. w \in [0..n -> Seq(SessionNode)]
  <2>1. w[0] \in Seq(SessionNode)
    BY <1>2, <1>8
  <2> QED
    BY <1>10, <1>11, <2>1, StaysIn, ZenonT(60)
<1> QED
  BY <1>8, <1>9, <1>12

\* A step of visit lists a child of the last session that has one unseen.
LEMMA VisitNextIs ==
  ASSUME NEW n \in Nat, NEW table \in Tables(n), NEW found \in Seq(SessionNode),
         Open(table, found) # {}
  PROVE  \E call \in 1..Len(found), child \in 1..n :
           /\ call \in Open(table, found) /\ \A i \in Open(table, found) : i <= call
           /\ table[child] = found[call].id /\ child \notin Ids(found)
           /\ NodeAt(child, found[call].depth + 1) \in SessionNode
           /\ VisitNext(table, found) = Append(found, NodeAt(child, found[call].depth + 1))
<1> DEFINE call == Max(Open(table, found))
           child == Min(Unseen(table, found[call].id, found))
<1>1. Open(table, found) \subseteq 0..Len(found)
  BY DEF Open
<1>2. call \in Open(table, found) /\ \A i \in Open(table, found) : i <= call
  BY <1>1, MaxOf
<1>3. VisitNext(table, found) = Append(found, NodeAt(child, found[call].depth + 1))
  BY DEF VisitNext
<1> HIDE DEF call
<1>4. Unseen(table, found[call].id, found) # {} /\ call \in 1..Len(found)
  BY <1>2 DEF Open
<1>5. Unseen(table, found[call].id, found) \subseteq 1..n
  BY TableOK DEF Unseen
<1>6. child \in Unseen(table, found[call].id, found)
  BY <1>4, <1>5, MinOf
<1> HIDE DEF child
<1>7. table[child] = found[call].id /\ child \notin Ids(found) /\ child \in 1..n
  BY <1>5, <1>6 DEF Unseen
<1>8. NodeAt(child, found[call].depth + 1) \in SessionNode
  <2>1. found[call] \in SessionNode
    BY <1>4
  <2> QED
    BY <1>7, <2>1 DEF NodeAt, SessionNode
<1> QED
  BY <1>2, <1>3, <1>4, <1>7, <1>8

LEMMA VisitNextOK ==
  ASSUME NEW n \in Nat, NEW table \in Tables(n), NEW found \in Seq(SessionNode)
  PROVE  VisitNext(table, found) \in Seq(SessionNode)
<1>1. CASE Open(table, found) = {}
  BY <1>1 DEF VisitNext
<1>2. CASE Open(table, found) # {}
  BY <1>2, VisitNextIs
<1> QED
  BY <1>1, <1>2

\* The rounds of a visit.
IsVisit(w, n, table, x) ==
  /\ w \in [0..n -> Seq(SessionNode)] /\ w[0] = <<NodeAt(x, 0)>>
  /\ \A k \in 1..n : w[k] = VisitNext(table, w[k - 1])

LEMMA VisitSteps ==
  ASSUME NEW n \in Nat, NEW table \in Tables(n), NEW x \in 1..n,
         NEW w, w = Visit(table, x)
  PROVE  IsVisit(w, n, table, x)
<1> DEFINE step == [found \in Seq(SessionNode) |-> VisitNext(table, found)]
           first == <<NodeAt(x, 0)>>
<1>1. step \in [Seq(SessionNode) -> Seq(SessionNode)]
  BY VisitNextOK
<1>2. first \in Seq(SessionNode)
  BY DEF SessionNode, NodeAt
<1> HIDE DEF step
<1>3. PICK f \in [0..n -> Seq(SessionNode)] : Chain(f, n, first, step)
  BY <1>1, <1>2, ChainExists
<1> DEFINE Steps(g) == g = [k \in 0..n |-> IF k = 0 THEN first
                                           ELSE VisitNext(table, g[k - 1])]
<1>4. Steps(f)
  <2>1. \A k \in 0..n : k # 0 => step[f[k - 1]] = VisitNext(table, f[k - 1])
    BY <1>3 DEF step
  <2> QED
    BY <1>3, <2>1 DEF Chain
<1>5. w = CHOOSE g : Steps(g)
  BY TableOK DEF Visit
<1>6. Steps(w)
  BY <1>4, <1>5
<1>7. 0 \in 0..n /\ \A k \in 1..n : k \in 0..n /\ k # 0
  OBVIOUS
<1> HIDE DEF first
<1>8. w[0] = first
  BY <1>6, <1>7
<1>9. ASSUME NEW k \in 1..n PROVE w[k] = VisitNext(table, w[k - 1])
  <2>1. w[k] = IF k = 0 THEN first ELSE VisitNext(table, w[k - 1])
    BY <1>6, <1>7, Zenon
  <2> QED
    BY <1>7, <2>1
<1>10. w = [k \in 0..n |-> w[k]]
  BY <1>6
<1> HIDE DEF Steps
<1>11. \A k \in 1..n : w[k - 1] \in Seq(SessionNode) => w[k] \in Seq(SessionNode)
  BY <1>9, VisitNextOK
<1>12. w \in [0..n -> Seq(SessionNode)]
  <2>1. w[0] \in Seq(SessionNode)
    BY <1>2, <1>8
  <2> QED
    BY <1>10, <1>11, <2>1, StaysIn, ZenonT(60)
<1> QED
  BY <1>8, <1>9, <1>12 DEF first, IsVisit

\* Where the links lead from a session: to sessions, or out of the table.
IsLine(a, n, table, x) ==
  /\ a \in [0..n -> 0..(n + 1)] /\ a[0] = x
  /\ \A k \in 1..n : a[k] = IF a[k - 1] \in 1..n THEN table[a[k - 1]] ELSE NoParent

LEMMA LineSteps ==
  ASSUME NEW n \in Nat, NEW table \in Tables(n), NEW x \in 1..n,
         NEW w, w = Line(table, x)
  PROVE  IsLine(w, n, table, x)
<1>0. PICK S : S = 0..(n + 1)
  OBVIOUS
<1> DEFINE On(s) == IF s \in 1..n THEN table[s] ELSE NoParent
           step == [s \in S |-> On(s)]
<1>1. \A s \in S : On(s) \in S
  BY <1>0, TableOK DEF NoParent
<1>2. x \in S /\ step \in [S -> S]
  BY <1>0, <1>1
<1> HIDE DEF step, On
<1>3. PICK f \in [0..n -> S] : Chain(f, n, x, step)
  BY <1>2, ChainExists
<1> DEFINE Steps(g) == g = [k \in 0..n |-> IF k = 0 THEN x ELSE On(g[k - 1])]
<1>4. Steps(f)
  <2>1. \A k \in 0..n : k # 0 => step[f[k - 1]] = On(f[k - 1])
    BY <1>3 DEF step
  <2> QED
    BY <1>3, <2>1 DEF Chain
<1>5. w = CHOOSE g : Steps(g)
  BY TableOK, SMTT(30) DEF Line, On
<1>6. Steps(w)
  BY <1>4, <1>5
<1>7. 0 \in 0..n /\ \A k \in 1..n : k \in 0..n /\ k # 0
  OBVIOUS
<1>8. w[0] = x
  BY <1>6, <1>7
<1>9. ASSUME NEW k \in 1..n PROVE w[k] = On(w[k - 1])
  <2>1. w[k] = IF k = 0 THEN x ELSE On(w[k - 1])
    BY <1>6, <1>7, Zenon
  <2> QED
    BY <1>7, <2>1
<1>10. w = [k \in 0..n |-> w[k]]
  BY <1>6
<1> HIDE DEF Steps
<1>11. w \in [0..n -> S]
  <2>1. w[0] \in S
    BY <1>2, <1>8
  <2>2. \A k \in 1..n : w[k - 1] \in S => w[k] \in S
    BY <1>1, <1>9
  <2> QED
    BY <1>10, <2>1, <2>2, StaysIn, ZenonT(60)
<1> QED
  BY <1>0, <1>8, <1>9, <1>11 DEF On, IsLine

\* The line of a session continues with the line of its parent.
LEMMA LineOfParent ==
  ASSUME NEW n \in Nat, NEW table \in Tables(n), NEW x \in 1..n, table[x] \in 1..n
  PROVE  \A k \in 0..(n - 1) : Line(table, x)[k + 1] = Line(table, table[x])[k]
<1>1. PICK a : a = Line(table, x)
  OBVIOUS
<1>2. PICK b : b = Line(table, table[x])
  OBVIOUS
<1>3. IsLine(a, n, table, x)
  BY <1>1, LineSteps
<1>4. IsLine(b, n, table, table[x])
  BY <1>2, LineSteps
<1> DEFINE T == {k \in 0..(n - 1) : a[k + 1] = b[k]}
<1>5. 0 \in T
  <2>1. 1 \in 1..n /\ 0 \in 0..(n - 1) /\ 1 - 1 = 0
    OBVIOUS
  <2>2. a[1] = IF a[0] \in 1..n THEN table[a[0]] ELSE NoParent
    BY <1>3, <2>1 DEF IsLine
  <2> QED
    BY <1>3, <1>4, <2>1, <2>2 DEF IsLine
<1>6. ASSUME NEW k \in 0..((n - 1) - 1), k \in T PROVE k + 1 \in T
  <2>1. k + 1 \in 1..n /\ k + 2 \in 1..n /\ k + 1 \in 0..(n - 1)
        /\ (k + 1) - 1 = k /\ (k + 2) - 1 = k + 1 /\ (k + 1) + 1 = k + 2
    OBVIOUS
  <2>2. a[k + 2] = IF a[k + 1] \in 1..n THEN table[a[k + 1]] ELSE NoParent
    BY <1>3, <2>1 DEF IsLine
  <2>3. b[k + 1] = IF b[k] \in 1..n THEN table[b[k]] ELSE NoParent
    BY <1>4, <2>1 DEF IsLine
  <2>4. a[k + 1] = b[k]
    BY <1>6
  <2> QED
    BY <2>1, <2>2, <2>3, <2>4
<1>7. n - 1 \in Nat
  OBVIOUS
<1>8. \A k \in 0..(n - 1) : k \in T
  <2> HIDE DEF T
  <2> QED
    BY <1>5, <1>6, <1>7, UpTo
<1> QED
  BY <1>1, <1>2, <1>8

\* There are no n + 1 different sessions.
LEMMA SomeoneTwice ==
  ASSUME NEW n \in Nat, NEW f, \A i \in 0..n : f[i] \in 1..n
  PROVE  \E i \in 0..n, j \in 0..n : i # j /\ f[i] = f[j]
<1> DEFINE g == [i \in 0..n |-> f[i]]
<1>1. IsFiniteSet(0..n) /\ IsFiniteSet(1..n) /\ Cardinality(0..n) = n + 1 /\ Cardinality(1..n) = n
  BY FS_Interval
<1>2. g \in [0..n -> 1..n]
  OBVIOUS
<1>3. \E i, j \in 0..n : i # j /\ g[i] = g[j]
  <2>1. PICK S, T : S = 0..n /\ T = 1..n
    OBVIOUS
  <2>2. IsFiniteSet(S) /\ IsFiniteSet(T) /\ Cardinality(T) < Cardinality(S) /\ g \in [S -> T]
    BY <1>1, <1>2, <2>1
  <2> HIDE DEF g
  <2>3. \E i, j \in S : i # j /\ g[i] = g[j]
    BY <2>2, FS_PigeonHole, Zenon
  <2> QED
    BY <2>1, <2>3
<1> QED
  BY <1>3

\* The distance of one session above another is the least number of links.
LEMMA DistanceIs ==
  ASSUME NEW n \in Nat, NEW table \in Tables(n), NEW x \in 1..n, NEW y \in 1..n,
         NEW a, a = Line(table, x)
  PROVE  Distances(table, x, y)
           = {k \in 1..n : x # y /\ a[k] = y /\ \A j \in 1..n : a[j] = y => k <= j}
<1> DEFINE ways == {k \in 1..n : a[k] = y}
<1>1. Distances(table, x, y) = IF x = y \/ ways = {} THEN {} ELSE {Min(ways)}
  BY TableOK DEF Distances
<1>2. CASE x = y \/ ways = {}
  BY <1>1, <1>2
<1>3. CASE x # y /\ ways # {}
  <2>1. ways \subseteq Nat
    BY DEF ways
  <2>2. Min(ways) \in ways /\ \A k \in ways : Min(ways) <= k
    <3> HIDE DEF ways
    <3> QED
      BY <1>3, <2>1, MinOf
  <2>3. PICK m \in ways : m = Min(ways)
    BY <2>2
  <2>4. m \in 1..n /\ a[m] = y /\ \A j \in 1..n : a[j] = y => m <= j
    BY <2>2, <2>3
  <2>5. Distances(table, x, y) = {m}
    BY <1>1, <1>3, <2>3
  <2>6. \A k \in 1..n : (a[k] = y /\ \A j \in 1..n : a[j] = y => k <= j) <=> k = m
    BY <2>4
  <2> QED
    BY <1>3, <2>4, <2>5, <2>6
<1> QED
  BY <1>2, <1>3

-----------------------------------------------------------------------------
(* The walk up *)

\* After k rounds the nodes of the line a are listed up to where it leaves the
\* table or meets itself.
WalkedTo(a, n, found, k) ==
  /\ found \in Seq(SessionNode) /\ Len(found) <= k
  /\ \A i \in 0..Len(found) : a[i] \in 1..n
  /\ \A i \in 1..Len(found) : found[i] = NodeAt(a[i], - i)
  /\ \A i, j \in 0..Len(found) : a[i] = a[j] => i = j
  /\ Len(found) < k =>
       \/ a[Len(found) + 1] \notin 1..n
       \/ \E i \in 0..Len(found) : a[Len(found) + 1] = a[i]

LEMMA WalkOnWalks ==
  ASSUME NEW n \in Nat, NEW table \in Tables(n), NEW x \in 1..n, NEW a, IsLine(a, n, table, x),
         NEW k \in 0..(n - 1), NEW found, WalkedTo(a, n, found, k)
  PROVE  WalkedTo(a, n, WalkOn(table, x, {x}, found), k + 1)
<1> DEFINE m == Len(found)
           parent == NextParent(table, x, found)
<1>1. m \in 0..k /\ m + 1 \in 1..n /\ found \in Seq(SessionNode)
  BY DEF WalkedTo
<1>2. a[m + 1] = table[a[m]]
  <2>1. a[m + 1] = IF a[(m + 1) - 1] \in 1..n THEN table[a[(m + 1) - 1]] ELSE NoParent
    BY <1>1 DEF IsLine
  <2>2. (m + 1) - 1 = m /\ a[m] \in 1..n
    BY <1>1 DEF WalkedTo
  <2> QED
    BY <2>1, <2>2
<1>3. parent = a[m + 1]
  <2>1. CASE m = 0
    BY <1>1, <1>2, <2>1 DEF NextParent, IsLine
  <2>2. CASE m # 0
    <3>1. found # <<>> /\ m \in 1..m
      BY <1>1, <2>2
    <3>2. found[m] = NodeAt(a[m], - m)
      BY <3>1 DEF WalkedTo
    <3>3. found[m].id = a[m]
      BY <3>2, NodeHas
    <3> QED
      BY <1>2, <3>1, <3>3 DEF NextParent
  <2> QED
    BY <2>1, <2>2
<1>4. \A v : v \in {x} \cup Ids(found) <=> \E i \in 0..m : v = a[i]
  <2>1. \A i \in 1..m : found[i].id = a[i]
    <3>1. \A i \in 1..m : found[i] = NodeAt(a[i], - i)
      BY DEF WalkedTo
    <3> QED
      BY <3>1, NodeHas
  <2>2. a[0] = x
    BY DEF IsLine
  <2>3. \A i \in 0..m : i = 0 \/ i \in 1..m
    BY <1>1
  <2>4. DOMAIN found = 1..m /\ 1..m \subseteq 0..m /\ 0 \in 0..m
    BY <1>1
  <2> QED
    BY <2>1, <2>2, <2>3, <2>4 DEF Ids
<1>5. CASE parent \in {x} \cup Ids(found) \/ parent \notin DOMAIN table
  <2>1. WalkOn(table, x, {x}, found) = found
    BY <1>5 DEF WalkOn
  <2>2. a[m + 1] \notin 1..n \/ \E i \in 0..m : a[m + 1] = a[i]
    BY <1>3, <1>4, <1>5, TableOK
  <2>3. m <= k + 1
    BY <1>1
  <2> QED
    BY <2>1, <2>2, <2>3 DEF WalkedTo
<1>6. CASE ~ (parent \in {x} \cup Ids(found) \/ parent \notin DOMAIN table)
  <2>1. PICK node : node = NodeAt(a[m + 1], - (m + 1))
    OBVIOUS
  <2>2. WalkOn(table, x, {x}, found) = Append(found, node)
    BY <1>3, <1>6, <2>1 DEF WalkOn
  <2>3. a[m + 1] \in 1..n /\ \A i \in 0..m : a[m + 1] # a[i]
    BY <1>3, <1>4, <1>6, TableOK
  <2>4. node \in SessionNode
    BY <1>1, <2>1, <2>3 DEF SessionNode, NodeAt
  <2>5. PICK g : g = Append(found, node)
    OBVIOUS
  <2>6. /\ g \in Seq(SessionNode) /\ Len(g) = m + 1 /\ g[m + 1] = node
        /\ \A i \in 1..m : g[i] = found[i]
    BY <1>1, <2>4, <2>5
  <2>7. \A i \in 0..(m + 1) : i \in 0..m \/ i = m + 1
    BY <1>1
  <2>8. \A i \in 1..(m + 1) : i \in 1..m \/ i = m + 1
    BY <1>1
  <2>9. \A i \in 0..(m + 1) : a[i] \in 1..n
    BY <2>3, <2>7 DEF WalkedTo
  <2>10. \A i \in 1..(m + 1) : g[i] = NodeAt(a[i], - i)
    BY <2>1, <2>6, <2>8 DEF WalkedTo
  <2>11. \A i, j \in 0..(m + 1) : a[i] = a[j] => i = j
    BY <2>3, <2>7 DEF WalkedTo
  <2>12. m = k
    BY <1>1, <2>3 DEF WalkedTo
  <2>13. m + 1 <= k + 1 /\ ~ (m + 1 < k + 1)
    BY <1>1, <2>12
  <2>14. WalkedTo(a, n, g, k + 1)
    BY <2>6, <2>9, <2>10, <2>11, <2>13, Zenon DEF WalkedTo
  <2> QED
    BY <2>2, <2>5, <2>14
<1> QED
  BY <1>5, <1>6

LEMMA WalkWalks ==
  ASSUME NEW n \in Nat, NEW table \in Tables(n), NEW x \in 1..n,
         NEW a, IsLine(a, n, table, x), NEW found, found = Walk(table, x, {x})[n]
  PROVE  WalkedTo(a, n, found, n) /\ Len(found) < n
<1>1. PICK w : w = Walk(table, x, {x})
  OBVIOUS
<1>2. /\ w \in [0..n -> Seq(SessionNode)] /\ w[0] = <<>>
      /\ \A k \in 1..n : w[k] = WalkOn(table, x, {x}, w[k - 1])
  BY <1>1, WalkSteps
<1> DEFINE T == {k \in 0..n : WalkedTo(a, n, w[k], k)}
<1>3. 0 \in T
  <2>1. a[0] \in 1..n /\ 0 \in 0..n
    BY DEF IsLine
  <2>2. <<>> \in Seq(SessionNode) /\ Len(<<>>) = 0
    OBVIOUS
  <2>3. WalkedTo(a, n, <<>>, 0)
    BY <2>1, <2>2 DEF WalkedTo
  <2> QED
    BY <1>2, <2>1, <2>3
<1>4. ASSUME NEW k \in 0..(n - 1), k \in T PROVE k + 1 \in T
  <2>1. k + 1 \in 1..n /\ (k + 1) - 1 = k /\ k + 1 \in 0..n
    OBVIOUS
  <2>2. w[k + 1] = WalkOn(table, x, {x}, w[k])
    BY <1>2, <2>1
  <2>3. WalkedTo(a, n, w[k], k)
    BY <1>4
  <2>4. WalkedTo(a, n, WalkOn(table, x, {x}, w[k]), k + 1)
    BY <2>3, WalkOnWalks
  <2> QED
    BY <2>1, <2>2, <2>4
<1>5. n \in T
  <2> HIDE DEF T
  <2> QED
    BY <1>3, <1>4, UpTo
<1>6. WalkedTo(a, n, found, n)
  BY <1>1, <1>5
<1>7. Len(found) # n
  <2> SUFFICES ASSUME Len(found) = n PROVE FALSE
    OBVIOUS
  <2>1. \A i \in 0..n : a[i] \in 1..n
    BY <1>6 DEF WalkedTo
  <2>2. \E i \in 0..n, j \in 0..n : i # j /\ a[i] = a[j]
    BY <2>1, SomeoneTwice
  <2> QED
    BY <1>6, <2>2 DEF WalkedTo
<1>8. found \in Seq(SessionNode) /\ Len(found) <= n
  BY <1>6 DEF WalkedTo
<1> QED
  BY <1>6, <1>7, <1>8

\* Beyond the nodes of the walk, the line is out of the table or repeats itself.
LEMMA LineRepeats ==
  ASSUME NEW n \in Nat, NEW table \in Tables(n), NEW x \in 1..n, NEW a, IsLine(a, n, table, x),
         NEW found, WalkedTo(a, n, found, n), Len(found) < n
  PROVE  \A k \in 0..n : a[k] \notin 1..n \/ \E i \in 0..Len(found) : a[k] = a[i]
<1> DEFINE Old(k) == a[k] \notin 1..n \/ \E i \in 0..Len(found) : a[k] = a[i]
           T == {k \in 0..n : Old(k)}
<1>1. Len(found) \in 0..(n - 1)
  BY DEF WalkedTo
<1>2. 0 \in T
  BY <1>1
<1>3. ASSUME NEW k \in 0..(n - 1), k \in T PROVE k + 1 \in T
  <2>1. ASSUME NEW j \in 0..(n - 1)
        PROVE  a[j + 1] = IF a[j] \in 1..n THEN table[a[j]] ELSE NoParent
    <3>1. j + 1 \in 1..n /\ (j + 1) - 1 = j
      OBVIOUS
    <3> QED
      BY <3>1 DEF IsLine
  <2>2. k + 1 \in 0..n
    OBVIOUS
  <2>3. CASE a[k] \notin 1..n
    BY <2>1, <2>2, <2>3 DEF NoParent
  <2>4. CASE a[k] \in 1..n
    <3>1. PICK i \in 0..Len(found) : a[k] = a[i]
      BY <1>3, <2>4
    <3>2. a[k + 1] = a[i + 1]
      <4>1. i \in 0..(n - 1)
        BY <1>1
      <4>2. a[k + 1] = IF a[k] \in 1..n THEN table[a[k]] ELSE NoParent
        BY <2>1
      <4>3. a[i + 1] = IF a[i] \in 1..n THEN table[a[i]] ELSE NoParent
        BY <2>1, <4>1
      <4> QED
        BY <3>1, <4>2, <4>3
    <3>3. CASE i = Len(found)
      BY <2>2, <3>2, <3>3 DEF WalkedTo
    <3>4. CASE i # Len(found)
      <4>1. i + 1 \in 0..Len(found)
        BY <1>1, <3>4
      <4> QED
        BY <2>2, <3>2, <4>1
    <3> QED
      BY <3>3, <3>4
  <2> QED
    BY <2>3, <2>4
<1>4. \A k \in 0..n : k \in T
  <2> HIDE DEF T
  <2> QED
    BY <1>2, <1>3, UpTo
<1> QED
  BY <1>4

\* The m ancestors of a session are the next ones on its line, farthest first;
\* later ones are none that are not there already.
GoesUp(a, n, m, above) ==
  /\ above \in Seq(SessionNode) /\ Len(above) = m
  /\ \A i \in 1..m : above[i] = NodeAt(a[m + 1 - i], - (m + 1 - i))
  /\ \A i \in 0..m : a[i] \in 1..n
  /\ \A i, j \in 0..m : a[i] = a[j] => i = j
  /\ \A k \in 0..n : a[k] \notin 1..n \/ \E i \in 0..m : a[k] = a[i]

LEMMA AncestorsAre ==
  ASSUME NEW n \in Nat, NEW table \in Tables(n), NEW x \in 1..n,
         NEW a, IsLine(a, n, table, x), NEW above, above = Ancestors(table, x)
  PROVE  \E m \in 0..(n - 1) : GoesUp(a, n, m, above)
<1>1. PICK found : found = Walk(table, x, {x})[n]
  OBVIOUS
<1>2. WalkedTo(a, n, found, n) /\ Len(found) < n
  BY <1>1, WalkWalks
<1>3. PICK m \in 0..(n - 1) : m = Len(found)
  BY <1>2 DEF WalkedTo
<1>4. above = [i \in 1..m |-> found[(m - i) + 1]]
  BY <1>1, <1>3, TableOK DEF Ancestors, Reverse
<1>5. \A i \in 1..m : (m - i) + 1 = m + 1 - i /\ m + 1 - i \in 1..m
  OBVIOUS
<1>6. \A i \in 1..m : above[i] = NodeAt(a[m + 1 - i], - (m + 1 - i))
  <2>1. \A i \in 1..m : found[i] = NodeAt(a[i], - i)
    BY <1>2, <1>3 DEF WalkedTo
  <2> QED
    BY <1>4, <1>5, <2>1
<1>7. above \in Seq(SessionNode) /\ Len(above) = m
  <2>1. \A i \in 1..m : found[(m - i) + 1] \in SessionNode
    BY <1>2, <1>3, <1>5 DEF WalkedTo
  <2> QED
    BY <1>4, <2>1
<1>8. /\ \A i \in 0..m : a[i] \in 1..n
      /\ \A i, j \in 0..m : a[i] = a[j] => i = j
  BY <1>2, <1>3 DEF WalkedTo
<1>9. \A k \in 0..n : a[k] \notin 1..n \/ \E i \in 0..m : a[k] = a[i]
  BY <1>2, <1>3, LineRepeats
<1> QED
  BY <1>6, <1>7, <1>8, <1>9 DEF GoesUp

LEMMA AncestorDepths ==
  ASSUME NEW n \in Nat, NEW table \in Tables(n), NEW x \in 1..n, NEW y \in 1..n,
         NEW above, above = Ancestors(table, x)
  PROVE  /\ {- depth : depth \in DepthsOf(y, above)} = Distances(table, x, y)
         /\ IsInjective([i \in DOMAIN above |-> above[i].id])
<1>1. PICK a : a = Line(table, x)
  OBVIOUS
<1>2. IsLine(a, n, table, x)
  BY <1>1, LineSteps
<1>10. PICK m \in 0..(n - 1) : GoesUp(a, n, m, above)
  BY <1>2, AncestorsAre
<1>3. /\ above \in Seq(SessionNode) /\ Len(above) = m
      /\ \A i \in 1..m : above[i] = NodeAt(a[m + 1 - i], - (m + 1 - i))
      /\ \A i \in 0..m : a[i] \in 1..n
      /\ \A i, j \in 0..m : a[i] = a[j] => i = j
      /\ \A k \in 0..n : a[k] \notin 1..n \/ \E i \in 0..m : a[k] = a[i]
  BY <1>10 DEF GoesUp
<1>4. DOMAIN above = 1..m /\ a[0] = x
  BY <1>2, <1>3 DEF IsLine
<1>5. \A i \in 1..m : above[i].id = a[m + 1 - i] /\ above[i].depth = - (m + 1 - i)
  BY <1>3, NodeHas
<1>6. \A i \in 1..m : m + 1 - i \in 1..m /\ - (- (m + 1 - i)) = m + 1 - i
                        /\ m + 1 - (m + 1 - i) = i /\ i \in 0..m /\ i \in 1..n
  OBVIOUS
<1>7. {- depth : depth \in DepthsOf(y, above)} = {k \in 1..m : a[k] = y}
  <2>1. \A k \in 1..m : a[k] = y => k \in {- depth : depth \in DepthsOf(y, above)}
    <3> SUFFICES ASSUME NEW k \in 1..m, a[k] = y
                 PROVE  k \in {- depth : depth \in DepthsOf(y, above)}
      OBVIOUS
    <3>1. PICK i \in 1..m : i = m + 1 - k /\ m + 1 - i = k
      BY <1>6
    <3>2. above[i].id = y /\ above[i].depth = - k
      BY <1>5, <3>1
    <3>3. - k \in DepthsOf(y, above) /\ - (- k) = k
      BY <1>4, <3>2 DEF DepthsOf
    <3> QED
      BY <3>3
  <2>2. ASSUME NEW depth \in DepthsOf(y, above)
        PROVE  - depth \in 1..m /\ a[- depth] = y
    <3>1. PICK i \in 1..m : above[i].id = y /\ above[i].depth = depth
      BY <1>4 DEF DepthsOf
    <3> QED
      BY <1>5, <1>6, <3>1
  <2> QED
    BY <2>1, <2>2
<1>8. {k \in 1..m : a[k] = y}
        = {k \in 1..n : x # y /\ a[k] = y /\ \A j \in 1..n : a[j] = y => k <= j}
  <2>1. ASSUME NEW k \in 1..m, a[k] = y
        PROVE  k \in 1..n /\ x # y /\ \A j \in 1..n : a[j] = y => k <= j
    <3>1. x # y
      <4>1. 0 \in 0..m /\ k \in 0..m /\ k # 0
        OBVIOUS
      <4> QED
        BY <1>3, <1>4, <2>1, <4>1
    <3>2. ASSUME NEW j \in 1..n, a[j] = y, j < k PROVE FALSE
      <4>1. j \in 0..m /\ k \in 0..m
        BY <3>2
      <4> QED
        BY <1>3, <2>1, <3>2, <4>1
    <3> QED
      BY <3>1, <3>2
  <2>2. ASSUME NEW k \in 1..n, x # y, a[k] = y, \A j \in 1..n : a[j] = y => k <= j
        PROVE  k \in 1..m
    <3>1. PICK i \in 0..m : a[k] = a[i]
      BY <1>3, <2>2
    <3>2. i # 0
      BY <1>4, <2>2, <3>1
    <3>3. i \in 1..n
      BY <3>2
    <3>4. k <= i
      BY <2>2, <3>1, <3>3
    <3> QED
      BY <3>4
  <2> QED
    BY <2>1, <2>2
<1>9. ASSUME NEW i \in 1..m, NEW j \in 1..m, above[i].id = above[j].id PROVE i = j
  <2>1. PICK k \in 0..m, l \in 0..m : k = m + 1 - i /\ l = m + 1 - j
    BY <1>6
  <2>2. a[k] = a[l]
    BY <1>5, <1>9, <2>1
  <2>3. k = l
    BY <1>3, <2>2
  <2> QED
    BY <2>1, <2>3
<1> QED
  BY <1>1, <1>4, <1>7, <1>8, <1>9, DistanceIs DEF IsInjective

-----------------------------------------------------------------------------
(* The visit of the descendants *)

\* The session at i is listed by the call of visit for the session at j, with
\* none in between that is less deep.
ListedBelow(table, found, i, j) ==
  /\ table[found[i].id] = found[j].id
  /\ found[i].depth = found[j].depth + 1
  /\ \A l \in (j + 1)..(i - 1) : found[l].depth >= found[i].depth

\* After k rounds: everybody but y is listed once, below a parent; whoever has
\* a child unseen is followed by deeper ones only; and when the rounds are more
\* than the sessions, no child is unseen.
VisitedTo(table, n, y, found, k) ==
  /\ found \in Seq(SessionNode) /\ Len(found) \in 1..(k + 1) /\ found[1] = NodeAt(y, 0)
  /\ \A i \in 1..Len(found) : found[i].id \in 1..n
  /\ \A i, j \in 1..Len(found) : found[i].id = found[j].id => i = j
  /\ \A i \in 2..Len(found) : \E j \in 1..(i - 1) : ListedBelow(table, found, i, j)
  /\ \A j \in Open(table, found) : \A l \in (j + 1)..Len(found) :
       found[l].depth > found[j].depth
  /\ Len(found) < k + 1 => Open(table, found) = {}

LEMMA VisitNextVisits ==
  ASSUME NEW n \in Nat, NEW table \in Tables(n), NEW y \in 1..n, NEW k \in 0..(n - 1),
         NEW found, VisitedTo(table, n, y, found, k)
  PROVE  VisitedTo(table, n, y, VisitNext(table, found), k + 1)
<1>1. CASE Open(table, found) = {}
  <2>1. VisitNext(table, found) = found
    BY <1>1 DEF VisitNext
  <2>2. Len(found) \in 1..((k + 1) + 1)
    BY DEF VisitedTo
  <2> QED
    BY <1>1, <2>1, <2>2, Zenon DEF VisitedTo
<1>2. CASE Open(table, found) # {}
  <2>1. PICK m \in 1..(k + 1) : m = Len(found)
    BY DEF VisitedTo
  <2>2. found \in Seq(SessionNode) /\ DOMAIN found = 1..m
    BY <2>1 DEF VisitedTo
  <2>3. m = k + 1
    BY <1>2, <2>1 DEF VisitedTo
  <2>4. PICK call \in 1..m, child \in 1..n :
          /\ call \in Open(table, found) /\ \A i \in Open(table, found) : i <= call
          /\ table[child] = found[call].id /\ child \notin Ids(found)
          /\ NodeAt(child, found[call].depth + 1) \in SessionNode
          /\ VisitNext(table, found) = Append(found, NodeAt(child, found[call].depth + 1))
    BY <1>2, <2>1, <2>2, VisitNextIs
  <2>5. PICK node : node = NodeAt(child, found[call].depth + 1)
    OBVIOUS
  <2>6. node \in SessionNode /\ node.id = child /\ node.depth = found[call].depth + 1
    BY <2>4, <2>5, NodeHas
  <2>7. PICK g : g = Append(found, node)
    OBVIOUS
  <2>8. /\ g \in Seq(SessionNode) /\ Len(g) = m + 1 /\ g[m + 1] = node
        /\ \A i \in 1..m : g[i] = found[i]
    BY <2>1, <2>2, <2>6, <2>7
  <2>9. \A i \in 1..(m + 1) : i \in 1..m \/ i = m + 1
    OBVIOUS
  <2>10. \A i \in 1..m : found[i] \in SessionNode /\ found[i].id \in Int /\ found[i].depth \in Int
    BY <2>1, <2>2, NodesHave
  <2>11. DOMAIN g = 1..(m + 1) /\ Ids(found) \subseteq Ids(g)
    <3>1. DOMAIN g = 1..(m + 1)
      BY <2>8
    <3>2. \A i \in 1..m : i \in 1..(m + 1) /\ found[i].id = g[i].id
      BY <2>8
    <3> QED
      BY <2>2, <3>1, <3>2 DEF Ids
  <2>12. ASSUME NEW j \in Open(table, g) PROVE j = m + 1 \/ j \in Open(table, found)
    <3>1. j \in 1..(m + 1) /\ Unseen(table, g[j].id, g) # {}
      BY <2>11 DEF Open
    <3>2. CASE j \in 1..m
      <4>1. Unseen(table, g[j].id, g) \subseteq Unseen(table, found[j].id, found)
        BY <2>8, <2>11, <3>2 DEF Unseen
      <4> QED
        BY <2>2, <3>1, <3>2, <4>1 DEF Open
    <3> QED
      BY <2>9, <3>1, <3>2
  <2>13. g[1] = NodeAt(y, 0)
    BY <2>8 DEF VisitedTo
  <2>14. \A i \in 1..(m + 1) : g[i].id \in 1..n
    BY <2>1, <2>6, <2>8, <2>9 DEF VisitedTo
  <2>15. \A i, j \in 1..(m + 1) : g[i].id = g[j].id => i = j
    <3>1. \A i \in 1..m : g[i].id # child
      BY <2>2, <2>4, <2>8 DEF Ids
    <3>2. \A i, j \in 1..m : g[i].id = g[j].id => i = j
      BY <2>1, <2>8 DEF VisitedTo
    <3> QED
      BY <2>6, <2>8, <2>9, <3>1, <3>2
  <2>16. \A j \in Open(table, found) : j \in 1..m /\ j <= call
    BY <2>2, <2>4 DEF Open
  <2>17. \A j \in Open(table, found) : \A l \in (j + 1)..m : found[l].depth > found[j].depth
    BY <2>1 DEF VisitedTo
  <2>18. ASSUME NEW i \in 2..(m + 1)
         PROVE  \E j \in 1..(i - 1) : ListedBelow(table, g, i, j)
    <3>1. CASE i \in 2..m
      <4>1. PICK j \in 1..(i - 1) : ListedBelow(table, found, i, j)
        BY <2>1, <3>1 DEF VisitedTo
      <4>2. i \in 1..m /\ j \in 1..m /\ (j + 1)..(i - 1) \subseteq 1..m
        BY <3>1
      <4>3. g[i] = found[i] /\ g[j] = found[j] /\ \A l \in (j + 1)..(i - 1) : g[l] = found[l]
        BY <2>8, <4>2
      <4>4. ListedBelow(table, g, i, j)
        BY <4>1, <4>3 DEF ListedBelow
      <4> QED
        BY <4>4
    <3>2. CASE i = m + 1
      <4>1. call \in 1..(i - 1) /\ (call + 1)..(i - 1) = (call + 1)..m
        BY <3>2
      <4>2. g[i] = node /\ g[call] = found[call] /\ \A l \in (call + 1)..m : g[l] = found[l]
        BY <2>8, <3>2
      <4>3. \A l \in (call + 1)..m : found[l].depth >= found[call].depth + 1
        <5>1. \A l \in (call + 1)..m : l \in 1..m
          OBVIOUS
        <5> QED
          BY <2>4, <2>10, <2>17, <5>1
      <4>4. ListedBelow(table, g, i, call)
        BY <2>4, <2>6, <4>1, <4>2, <4>3 DEF ListedBelow
      <4> QED
        BY <4>1, <4>4
    <3>3. i \in 2..m \/ i = m + 1
      OBVIOUS
    <3> QED
      BY <3>1, <3>2, <3>3
  <2>19. ASSUME NEW j \in Open(table, g), NEW l \in (j + 1)..(m + 1)
         PROVE  g[l].depth > g[j].depth
    <3>1. j \in 1..(m + 1) /\ j # m + 1
      BY <2>11 DEF Open
    <3>2. j \in Open(table, found) /\ j \in 1..m /\ g[j] = found[j] /\ j <= call
      BY <2>8, <2>12, <2>16, <3>1
    <3>3. CASE l \in 1..m
      <4>1. l \in (j + 1)..m
        BY <3>3
      <4> QED
        BY <2>8, <2>17, <3>2, <3>3, <4>1
    <3>4. CASE l = m + 1
      <4>1. found[call].depth >= found[j].depth
        <5>1. CASE j = call
          BY <2>10, <5>1
        <5>2. CASE j # call
          <6>1. call \in (j + 1)..m
            BY <3>2, <5>2
          <6> QED
            BY <2>10, <2>17, <3>2, <6>1
        <5> QED
          BY <5>1, <5>2
      <4> QED
        BY <2>6, <2>8, <2>10, <3>2, <3>4, <4>1
    <3>5. l \in 1..m \/ l = m + 1
      BY <3>2
    <3> QED
      BY <3>3, <3>4, <3>5
  <2>20. m + 1 \in 1..((k + 1) + 1) /\ ~ (m + 1 < (k + 1) + 1)
    BY <2>3
  <2>21. VisitedTo(table, n, y, g, k + 1)
    BY <2>8, <2>13, <2>14, <2>15, <2>18, <2>19, <2>20, Zenon DEF VisitedTo
  <2> QED
    BY <2>4, <2>5, <2>7, <2>21
<1> QED
  BY <1>1, <1>2

LEMMA VisitVisits ==
  ASSUME NEW n \in Nat, NEW table \in Tables(n), NEW y \in 1..n,
         NEW found, found = Visit(table, y)[n]
  PROVE  VisitedTo(table, n, y, found, n) /\ Len(found) \in 1..n /\ Open(table, found) = {}
<1>1. PICK w : w = Visit(table, y)
  OBVIOUS
<1>2. IsVisit(w, n, table, y)
  BY <1>1, VisitSteps
<1> DEFINE T == {k \in 0..n : VisitedTo(table, n, y, w[k], k)}
<1>3. 0 \in T
  <2>1. PICK root : root = NodeAt(y, 0)
    OBVIOUS
  <2>2. root.id = y /\ root \in SessionNode
    BY <2>1 DEF SessionNode, NodeAt
  <2>3. PICK g : g = <<root>>
    OBVIOUS
  <2>4. g \in Seq(SessionNode) /\ Len(g) = 1 /\ g[1] = root /\ DOMAIN g = 1..1
    BY <2>2, <2>3
  <2>5. Len(g) \in 1..(0 + 1) /\ ~ (Len(g) < 0 + 1)
    BY <2>4
  <2>6. \A i \in 1..Len(g) : i = 1
    BY <2>4
  <2>7. \A i \in 2..Len(g) : FALSE
    BY <2>4
  <2>8. \A j \in Open(table, g) : \A l \in (j + 1)..Len(g) : FALSE
    BY <2>4 DEF Open
  <2>9. VisitedTo(table, n, y, g, 0)
    BY <2>1, <2>2, <2>4, <2>5, <2>6, <2>7, <2>8, Zenon DEF VisitedTo
  <2>10. w[0] = g /\ 0 \in 0..n
    BY <1>2, <2>1, <2>3 DEF IsVisit
  <2> QED
    BY <2>9, <2>10
<1>4. ASSUME NEW k \in 0..(n - 1), k \in T PROVE k + 1 \in T
  <2>1. k + 1 \in 1..n /\ (k + 1) - 1 = k /\ k + 1 \in 0..n
    OBVIOUS
  <2>2. w[k + 1] = VisitNext(table, w[k])
    BY <1>2, <2>1 DEF IsVisit
  <2>3. VisitedTo(table, n, y, w[k], k)
    BY <1>4
  <2>4. VisitedTo(table, n, y, VisitNext(table, w[k]), k + 1)
    BY <2>3, VisitNextVisits
  <2> QED
    BY <2>1, <2>2, <2>4
<1>5. n \in T
  <2> HIDE DEF T
  <2> QED
    BY <1>3, <1>4, UpTo
<1>6. VisitedTo(table, n, y, found, n)
  BY <1>1, <1>5
<1>7. Len(found) \in 1..(n + 1)
  BY <1>6 DEF VisitedTo
<1>8. Len(found) # n + 1
  <2> SUFFICES ASSUME Len(found) = n + 1 PROVE FALSE
    OBVIOUS
  <2>1. PICK f : f = [i \in 0..n |-> found[i + 1].id]
    OBVIOUS
  <2>2. \A i \in 0..n : i + 1 \in 1..Len(found) /\ f[i] = found[i + 1].id
    BY <2>1
  <2>3. \A i \in 0..n : f[i] \in 1..n
    BY <1>6, <2>2 DEF VisitedTo
  <2>4. PICK i \in 0..n, j \in 0..n : i # j /\ f[i] = f[j]
    BY <2>3, SomeoneTwice
  <2>5. i + 1 = j + 1
    BY <1>6, <2>2, <2>4 DEF VisitedTo
  <2> QED
    BY <2>4, <2>5
<1>9. Len(found) \in 1..n /\ Len(found) < n + 1
  BY <1>7, <1>8
<1>10. Open(table, found) = {}
  BY <1>6, <1>9 DEF VisitedTo
<1> QED
  BY <1>6, <1>9, <1>10

\* A link out of the table leads nowhere.
LEMMA LineEnds ==
  ASSUME NEW n \in Nat, NEW table \in Tables(n), NEW x \in 1..n, table[x] \notin 1..n
  PROVE  \A k \in 1..n : Line(table, x)[k] \notin 1..n
<1>1. PICK a : a = Line(table, x)
  OBVIOUS
<1>2. IsLine(a, n, table, x)
  BY <1>1, LineSteps
<1> DEFINE T == {k \in 0..n : k # 0 => a[k] \notin 1..n}
<1>3. 0 \in T
  OBVIOUS
<1>4. ASSUME NEW k \in 0..(n - 1), k \in T PROVE k + 1 \in T
  <2>1. k + 1 \in 1..n /\ (k + 1) - 1 = k
    OBVIOUS
  <2>2. a[k + 1] = IF a[k] \in 1..n THEN table[a[k]] ELSE NoParent
    BY <1>2, <2>1 DEF IsLine
  <2>3. CASE k = 0
    BY <1>2, <2>1, <2>2, <2>3 DEF IsLine
  <2>4. CASE k # 0
    BY <1>4, <2>1, <2>2, <2>4 DEF NoParent
  <2> QED
    BY <2>3, <2>4
<1>5. \A k \in 0..n : k \in T
  <2> HIDE DEF T
  <2> QED
    BY <1>3, <1>4, UpTo
<1>6. \A k \in 1..n : k \in 0..n /\ k # 0
  OBVIOUS
<1> QED
  BY <1>1, <1>5, <1>6

\* The depth of a listed session is the least number of links to y.
LEMMA DepthIsDistance ==
  ASSUME NEW n \in Nat, NEW table \in Tables(n), NEW y \in 1..n,
         NEW found, VisitedTo(table, n, y, found, n), Len(found) \in 1..n
  PROVE  \A i \in 1..Len(found) :
           /\ found[i].depth \in 0..(i - 1)
           /\ Line(table, found[i].id)[found[i].depth] = y
           /\ \A k \in 0..(found[i].depth - 1) : Line(table, found[i].id)[k] # y
<1> DEFINE Good(i) ==
             /\ found[i].depth \in 0..(i - 1)
             /\ Line(table, found[i].id)[found[i].depth] = y
             /\ \A k \in 0..(found[i].depth - 1) : Line(table, found[i].id)[k] # y
           Bad == {i \in 1..Len(found) : ~ Good(i)}
<1>1. SUFFICES ASSUME Bad # {} PROVE FALSE
  OBVIOUS
<1>2. PICK i \in Bad : \A j \in Bad : i <= j
  <2>1. Bad \subseteq Nat
    <3>1. \A j \in 1..Len(found) : j \in Nat
      OBVIOUS
    <3> QED
      BY <3>1
  <2> HIDE DEF Bad
  <2> QED
    BY <1>1, <2>1, Least
<1>3. i \in 1..Len(found) /\ ~ Good(i)
  BY <1>2
<1>4. \A j \in 1..(i - 1) : Good(j)
  <2>1. \A j \in 1..(i - 1) : j \in 1..Len(found) /\ ~ (i <= j)
    BY <1>3
  <2> QED
    BY <1>2, <2>1
<1> HIDE DEF Good, Bad
<1>5. found[i].id \in 1..n /\ found[1] = NodeAt(y, 0) /\ 1 \in 1..Len(found)
  BY <1>3 DEF VisitedTo
<1>6. PICK a : a = Line(table, found[i].id)
  OBVIOUS
<1>7. IsLine(a, n, table, found[i].id)
  BY <1>5, <1>6, LineSteps
<1>8. a[0] = found[i].id
  BY <1>7 DEF IsLine
<1>9. CASE i = 1
  <2>1. found[i].depth = 0 /\ found[i].id = y
    BY <1>5, <1>9, NodeHas
  <2> QED
    BY <1>3, <1>6, <1>8, <1>9, <2>1 DEF Good
<1>10. CASE i # 1
  <2>1. PICK j \in 1..(i - 1) : ListedBelow(table, found, i, j)
    <3>1. i \in 2..Len(found)
      BY <1>3, <1>10
    <3> QED
      BY <3>1 DEF VisitedTo
  <2>2. j \in 1..Len(found) /\ found[j].id \in 1..n
    BY <1>3, <2>1 DEF VisitedTo
  <2>3. table[found[i].id] = found[j].id /\ found[i].depth = found[j].depth + 1
    BY <2>1 DEF ListedBelow
  <2>4. PICK b : b = Line(table, found[j].id)
    OBVIOUS
  <2>5. PICK d \in 0..(j - 1) : d = found[j].depth /\ b[d] = y /\ \A k \in 0..(d - 1) : b[k] # y
    BY <1>4, <2>4 DEF Good
  <2>6. \A k \in 0..(n - 1) : a[k + 1] = b[k]
    BY <1>5, <1>6, <2>2, <2>3, <2>4, LineOfParent, SMTT(30)
  <2>7. found[i].depth = d + 1 /\ d + 1 \in 0..(i - 1) /\ d \in 0..(n - 1)
    BY <1>3, <2>3, <2>5
  <2>8. a[d + 1] = y
    BY <2>5, <2>6, <2>7
  <2>9. a[0] # y
    <3>1. found[1].id = y
      BY <1>5, NodeHas
    <3>2. found[i].id # found[1].id
      BY <1>3, <1>5, <1>10 DEF VisitedTo
    <3> QED
      BY <1>8, <3>1, <3>2
  <2>10. ASSUME NEW k \in 0..((d + 1) - 1) PROVE a[k] # y
    <3>1. CASE k = 0
      BY <2>9, <3>1
    <3>2. CASE k # 0
      <4>1. k - 1 \in 0..(d - 1) /\ k - 1 \in 0..(n - 1) /\ (k - 1) + 1 = k
        BY <2>7, <3>2
      <4> QED
        BY <2>5, <2>6, <4>1
    <3> QED
      BY <3>1, <3>2
  <2> QED
    BY <1>3, <1>6, <2>7, <2>8, <2>10 DEF Good
<1> QED
  BY <1>9, <1>10

\* Whoever's line reaches y is listed.
LEMMA EverybodyBelow ==
  ASSUME NEW n \in Nat, NEW table \in Tables(n), NEW y \in 1..n,
         NEW found, VisitedTo(table, n, y, found, n), Open(table, found) = {},
         NEW x \in 1..n, NEW k \in 0..n, Line(table, x)[k] = y
  PROVE  x \in Ids(found)
<1> DEFINE T == {j \in 0..n : \A s \in 1..n : Line(table, s)[j] = y => s \in Ids(found)}
<1>1. DOMAIN found = 1..Len(found) /\ 1 \in 1..Len(found)
  BY DEF VisitedTo
<1>2. 0 \in T
  <2>1. y \in Ids(found)
    <3>1. found[1].id = y
      BY NodeHas DEF VisitedTo
    <3> QED
      BY <1>1, <3>1 DEF Ids
  <2>2. ASSUME NEW s \in 1..n PROVE Line(table, s)[0] = s
    <3>1. PICK a : a = Line(table, s)
      OBVIOUS
    <3>2. IsLine(a, n, table, s)
      BY <3>1, LineSteps
    <3> QED
      BY <3>1, <3>2 DEF IsLine
  <2> QED
    BY <2>1, <2>2
<1>3. ASSUME NEW j \in 0..(n - 1), j \in T PROVE j + 1 \in T
  <2>1. ASSUME NEW s \in 1..n, Line(table, s)[j + 1] = y PROVE s \in Ids(found)
    <3>1. table[s] \in 1..n
      <4>1. j + 1 \in 1..n
        OBVIOUS
      <4>2. Line(table, s)[j + 1] \in 1..n
        BY <2>1
      <4> QED
        BY <4>1, <4>2, LineEnds
    <3>2. Line(table, table[s])[j] = y
      BY <2>1, <3>1, LineOfParent
    <3>3. PICK i \in 1..Len(found) : found[i].id = table[s]
      BY <1>1, <1>3, <3>1, <3>2 DEF Ids
    <3>4. Unseen(table, found[i].id, found) = {}
      BY <1>1, <3>3 DEF Open
    <3>5. DOMAIN table = 1..n
      BY TableOK
    <3> QED
      BY <3>3, <3>4, <3>5 DEF Unseen
  <2>2. j + 1 \in 0..n
    OBVIOUS
  <2> QED
    BY <2>1, <2>2
<1>4. \A j \in 0..n : j \in T
  <2> HIDE DEF T
  <2> QED
    BY <1>2, <1>3, UpTo
<1> QED
  BY <1>4

LEMMA DescendantDepths ==
  ASSUME NEW n \in Nat, NEW table \in Tables(n), NEW x \in 1..n, NEW y \in 1..n,
         NEW below, below = Descendants(table, y)
  PROVE  /\ DepthsOf(x, below) = Distances(table, x, y)
         /\ IsInjective([i \in DOMAIN below |-> below[i].id])
<1>1. PICK found : found = Visit(table, y)[n]
  OBVIOUS
<1>2. VisitedTo(table, n, y, found, n) /\ Len(found) \in 1..n /\ Open(table, found) = {}
  BY <1>1, VisitVisits
<1>3. PICK m \in 1..n : m = Len(found)
  BY <1>2
<1>4. found \in Seq(SessionNode) /\ DOMAIN found = 1..m
  BY <1>2, <1>3 DEF VisitedTo
<1>5. DOMAIN below = 1..(m - 1) /\ \A i \in 1..(m - 1) : below[i] = found[i + 1]
  <2>1. below = Tail(found)
    BY <1>1, TableOK DEF Descendants
  <2>2. found # <<>>
    BY <1>3, <1>4
  <2> QED
    BY <1>3, <1>4, <2>1, <2>2
<1>6. \A i \in 1..(m - 1) : i + 1 \in 2..m /\ i + 1 \in 1..m
  OBVIOUS
<1>7. \A i, j \in 1..m : found[i].id = found[j].id => i = j
  BY <1>2, <1>3 DEF VisitedTo
<1>8. found[1].id = y /\ 1 \in 1..m
  BY <1>2, <1>3, NodeHas DEF VisitedTo
<1>9. PICK a : a = Line(table, x)
  OBVIOUS
<1>10. a[0] = x
  <2>1. IsLine(a, n, table, x)
    BY <1>9, LineSteps
  <2> QED
    BY <2>1 DEF IsLine
<1>11. ASSUME NEW i \in 1..m, found[i].id = x
       PROVE  /\ found[i].depth \in 0..(i - 1) /\ a[found[i].depth] = y
              /\ \A k \in 0..(found[i].depth - 1) : a[k] # y
  BY <1>2, <1>3, <1>9, <1>11, DepthIsDistance
<1> DEFINE D == {k \in 1..n : x # y /\ a[k] = y /\ \A j \in 1..n : a[j] = y => k <= j}
<1>12. Distances(table, x, y) = D
  BY <1>9, DistanceIs
<1>13. ASSUME NEW depth \in DepthsOf(x, below) PROVE depth \in D
  <2>1. PICK j \in 1..(m - 1) : below[j].id = x /\ below[j].depth = depth
    BY <1>5 DEF DepthsOf
  <2>2. PICK i \in 2..m : i = j + 1 /\ i \in 1..m
    BY <1>6
  <2>3. found[i].id = x /\ found[i].depth = depth
    BY <1>5, <2>1, <2>2
  <2>4. x # y
    BY <1>7, <1>8, <2>2, <2>3
  <2>5. depth \in 0..(i - 1) /\ a[depth] = y /\ \A k \in 0..(depth - 1) : a[k] # y
    BY <1>11, <2>2, <2>3
  <2>6. depth \in 1..n
    <3>1. depth # 0
      BY <1>10, <2>4, <2>5
    <3> QED
      BY <1>3, <2>5, <3>1
  <2>7. ASSUME NEW k \in 1..n, a[k] = y, k < depth PROVE FALSE
    <3>1. k \in 0..(depth - 1)
      BY <2>6, <2>7
    <3> QED
      BY <2>5, <2>7, <3>1
  <2> QED
    BY <2>4, <2>5, <2>6, <2>7
<1>14. ASSUME NEW k \in D PROVE k \in DepthsOf(x, below)
  <2>1. k \in 1..n /\ k \in 0..n /\ x # y /\ a[k] = y /\ \A j \in 1..n : a[j] = y => k <= j
    OBVIOUS
  <2>2. x \in Ids(found)
    BY <1>2, <1>9, <2>1, EverybodyBelow
  <2>3. PICK i \in 1..m : found[i].id = x
    BY <1>4, <2>2 DEF Ids
  <2>4. PICK d \in 0..(i - 1) : d = found[i].depth /\ a[d] = y /\ \A j \in 0..(d - 1) : a[j] # y
    BY <1>11, <2>3
  <2>5. i # 1 /\ d # 0
    BY <1>8, <1>10, <2>1, <2>3, <2>4
  <2>6. d \in 1..n
    BY <1>3, <2>4, <2>5
  <2>7. k <= d
    BY <2>1, <2>4, <2>6
  <2>8. d <= k
    <3> SUFFICES ASSUME k < d PROVE FALSE
      BY <2>1, <2>6
    <3>1. k \in 0..(d - 1)
      BY <2>1
    <3> QED
      BY <2>1, <2>4, <3>1
  <2>9. d = k
    BY <2>1, <2>6, <2>7, <2>8
  <2>10. PICK j \in 1..(m - 1) : j = i - 1
    BY <2>5
  <2>11. below[j] = found[i]
    <3>1. j + 1 = i
      BY <2>10
    <3> QED
      BY <1>5, <3>1
  <2>12. j \in DOMAIN below /\ below[j].id = x /\ below[j].depth = k
    BY <1>5, <2>3, <2>4, <2>9, <2>11
  <2> QED
    BY <2>12, Zenon DEF DepthsOf
<1>15. ASSUME NEW i \in 1..(m - 1), NEW j \in 1..(m - 1), below[i].id = below[j].id PROVE i = j
  <2>1. i + 1 = j + 1
    <3>1. found[i + 1].id = found[j + 1].id /\ i + 1 \in 1..m /\ j + 1 \in 1..m
      BY <1>5, <1>15
    <3> QED
      BY <1>4, <1>6, <1>7, <3>1
  <2> QED
    BY <2>1
<1>16. DepthsOf(x, below) = D
  <2> HIDE DEF D
  <2> QED
    BY <1>13, <1>14
<1>17. IsInjective([i \in DOMAIN below |-> below[i].id])
  BY <1>5, <1>15 DEF IsInjective
<1> QED
  BY <1>12, <1>16, <1>17

\* The lineage of any table of sessions is the same from either end.
THEOREM AnyLineageIsSymmetric ==
  ASSUME NEW n \in Nat, NEW table \in Tables(n)
  PROVE  IsSymmetric(table)
<1>1. DOMAIN table = 1..n
  BY TableOK
<1>2. ASSUME NEW x \in 1..n, NEW y \in 1..n, NEW above, above = Ancestors(table, x),
             NEW below, below = Descendants(table, y)
      PROVE  /\ {- depth : depth \in DepthsOf(y, above)} = Distances(table, x, y)
             /\ DepthsOf(x, below) = Distances(table, x, y)
             /\ IsInjective([i \in DOMAIN above |-> above[i].id])
             /\ IsInjective([i \in DOMAIN below |-> below[i].id])
  BY <1>2, AncestorDepths, DescendantDepths
<1> QED
  BY <1>1, <1>2 DEF IsSymmetric

-----------------------------------------------------------------------------
(* The printed lineage *)

\* The lines of a printed lineage: the line a of the session upside down, each
\* as deep as there are lines above it, and then the descendants.
PrintedAs(printed, m, a, found) ==
  /\ DOMAIN printed = 1..(m + Len(found)) /\ Len(printed) = m + Len(found)
  /\ \A i \in 1..(m + 1) : printed[i] = NodeAt(a[m + 1 - i], i - 1)
  /\ \A i \in 1..Len(found) : printed[m + i] = NodeAt(found[i].id, found[i].depth + m)

LEMMA OffsetIs ==
  ASSUME NEW m \in Nat, NEW a, NEW n, NEW above, GoesUp(a, n, m, above)
  PROVE  Max({0} \cup {- above[i].depth : i \in DOMAIN above}) = m
<1>1. DOMAIN above = 1..m
  BY DEF GoesUp
<1>2. \A i \in 1..m : - above[i].depth = m + 1 - i
  <2>1. \A i \in 1..m : above[i].depth = - (m + 1 - i)
    BY NodeHas DEF GoesUp
  <2> QED
    BY <2>1
<1>3. {- above[i].depth : i \in DOMAIN above} = {m + 1 - i : i \in 1..m}
  BY <1>1, <1>2
<1>4. PICK S : S = {0} \cup {m + 1 - i : i \in 1..m}
  OBVIOUS
<1>5. S \subseteq Int /\ \A k \in S : k <= m
  BY <1>4
<1>6. m \in S
  <2>1. CASE m = 0
    BY <1>4, <2>1
  <2>2. CASE m # 0
    <3>1. 1 \in 1..m /\ m + 1 - 1 = m
      BY <2>2
    <3> QED
      BY <1>4, <3>1
  <2> QED
    BY <2>1, <2>2
<1>7. Max(S) = m
  BY <1>5, <1>6, MaxIs
<1> QED
  BY <1>3, <1>4, <1>7

LEMMA TreeIs ==
  ASSUME NEW n \in Nat, NEW table \in Tables(n), NEW x \in 1..n,
         NEW a, IsLine(a, n, table, x), NEW m \in 0..(n - 1), NEW above,
         above = Ancestors(table, x), GoesUp(a, n, m, above),
         NEW found, found = Visit(table, x)[n], VisitedTo(table, n, x, found, n),
         NEW printed, printed = Tree(table, x)
  PROVE  PrintedAs(printed, m, a, found)
<1>1. PICK p \in 1..(n + 1) : p = Len(found)
  BY DEF VisitedTo
<1>2. found \in Seq(SessionNode) /\ found[1] = NodeAt(x, 0)
  BY DEF VisitedTo
<1>3. above \in Seq(SessionNode) /\ Len(above) = m
      /\ \A i \in 1..m : above[i] = NodeAt(a[m + 1 - i], - (m + 1 - i))
  BY DEF GoesUp
<1>4. PICK rest : rest = Tail(found)
  OBVIOUS
<1>5. rest \in Seq(SessionNode) /\ Len(rest) = p - 1 /\ \A i \in 1..(p - 1) : rest[i] = found[i + 1]
  <2>1. found # <<>>
    BY <1>1, <1>2
  <2> QED
    BY <1>1, <1>2, <1>4, <2>1
<1>6. PICK root : root = NodeAt(x, 0)
  OBVIOUS
<1>7. root \in SessionNode
  BY <1>6 DEF SessionNode, NodeAt
<1>8. PICK upper : upper = above \o <<root>>
  OBVIOUS
<1>9. /\ upper \in Seq(SessionNode) /\ Len(upper) = m + 1 /\ upper[m + 1] = root
      /\ \A i \in 1..m : upper[i] = above[i]
  <2>1. above \in Seq(SessionNode) /\ Len(above) = m
    BY <1>3
  <2>2. upper \in Seq(SessionNode)
    BY <1>7, <1>8, <2>1
  <2>3. Len(upper) = m + 1 /\ upper[m + 1] = root
    <3>1. Len(<<root>>) = 1 /\ <<root>>[1] = root /\ <<root>> \in Seq(SessionNode)
      BY <1>7
    <3>2. Len(upper) = m + 1
      BY <1>8, <2>1, <3>1
    <3>3. upper[m + 1] = root
      BY <1>8, <2>1, <3>1
    <3> QED
      BY <3>2, <3>3
  <2>4. \A i \in 1..m : upper[i] = above[i]
    BY <1>7, <1>8, <2>1
  <2> QED
    BY <2>2, <2>3, <2>4
<1>10. PICK nodes : nodes = upper \o rest
  OBVIOUS
<1>11. /\ nodes \in Seq(SessionNode) /\ Len(nodes) = m + p
       /\ \A i \in 1..(m + 1) : nodes[i] = upper[i]
       /\ \A i \in 1..(p - 1) : nodes[(m + 1) + i] = rest[i]
  <2> DEFINE whole == upper \o rest
  <2>1. upper \in Seq(SessionNode) /\ rest \in Seq(SessionNode)
    BY <1>5, <1>9
  <2>2. Len(whole) = Len(upper) + Len(rest)
    BY <2>1
  <2>3. whole \in Seq(SessionNode)
    BY <2>1
  <2>4. \A i \in 1..Len(upper) : whole[i] = upper[i]
    BY <2>1
  <2>5. \A i \in 1..Len(rest) : whole[Len(upper) + i] = rest[i]
    BY <2>1
  <2>6. nodes = whole /\ Len(upper) = m + 1 /\ Len(rest) = p - 1
    BY <1>5, <1>9, <1>10
  <2>7. (m + 1) + (p - 1) = m + p
    OBVIOUS
  <2> HIDE DEF whole
  <2> QED
    BY <2>2, <2>3, <2>4, <2>5, <2>6, <2>7
<1>12. printed = [i \in DOMAIN nodes |-> NodeAt(nodes[i].id, nodes[i].depth + m)]
  <2>1. Descendants(table, x) = rest
    BY <1>4, TableOK DEF Descendants
  <2>2. Max({0} \cup {- above[i].depth : i \in DOMAIN above}) = m
    <3>1. m \in Nat
      OBVIOUS
    <3> QED
      BY <3>1, OffsetIs
  <2> QED
    BY <1>6, <1>8, <1>10, <2>1, <2>2 DEF Tree
<1>13. DOMAIN nodes = 1..(m + p)
  BY <1>11
<1>14. ASSUME NEW i \in 1..(m + 1) PROVE printed[i] = NodeAt(a[m + 1 - i], i - 1)
  <2>1. i \in DOMAIN nodes /\ nodes[i] = upper[i]
    BY <1>11, <1>13
  <2>2. CASE i = m + 1
    <3>1. nodes[i].id = a[0] /\ nodes[i].depth = 0 /\ m + 1 - i = 0 /\ i - 1 = 0 + m
      BY <1>6, <1>9, <2>1, <2>2, NodeHas DEF IsLine
    <3> QED
      BY <1>12, <2>1, <3>1
  <2>3. CASE i \in 1..m
    <3>1. nodes[i].id = a[m + 1 - i] /\ nodes[i].depth = - (m + 1 - i)
      BY <1>3, <1>9, <2>1, <2>3, NodeHas
    <3>2. - (m + 1 - i) + m = i - 1
      OBVIOUS
    <3> QED
      BY <1>12, <2>1, <3>1, <3>2
  <2> QED
    BY <2>2, <2>3
<1>15. ASSUME NEW i \in 1..p PROVE printed[m + i] = NodeAt(found[i].id, found[i].depth + m)
  <2>1. m + i \in DOMAIN nodes
    BY <1>13
  <2>2. nodes[m + i] = found[i]
    <3>1. CASE i = 1
      BY <1>2, <1>6, <1>9, <1>11, <3>1
    <3>2. CASE i # 1
      <4>1. i - 1 \in 1..(p - 1) /\ (m + 1) + (i - 1) = m + i /\ (i - 1) + 1 = i
        BY <3>2
      <4> QED
        BY <1>5, <1>11, <4>1
    <3> QED
      BY <3>1, <3>2
  <2> QED
    BY <1>12, <2>1, <2>2
<1>16. DOMAIN printed = 1..(m + p) /\ Len(printed) = m + p
  <2>1. DOMAIN printed = 1..(m + p)
    BY <1>12, <1>13
  <2>2. printed \in Seq(SessionNode)
    <3>1. \A i \in 1..(m + p) : NodeAt(nodes[i].id, nodes[i].depth + m) \in SessionNode
      <4>1. \A i \in 1..(m + p) : nodes[i] \in SessionNode
        BY <1>11
      <4> QED
        BY <4>1 DEF SessionNode, NodeAt
    <3> QED
      BY <1>12, <1>13, <3>1
  <2> QED
    BY <2>1, <2>2
<1> QED
  BY <1>1, <1>14, <1>15, <1>16 DEF PrintedAs

\* In any printed lineage the nearest less indented line is the parent.
THEOREM AnyTreeShowsParents ==
  ASSUME NEW n \in Nat, NEW table \in Tables(n)
  PROVE  ShowsParents(table)
<1>1. SUFFICES ASSUME NEW x \in 1..n, NEW printed, printed = Tree(table, x), NEW i \in 2..Len(printed),
                      NEW above, above = {j \in 1..(i - 1) : printed[j].depth < printed[i].depth}
               PROVE  /\ above # {}
                      /\ printed[Max(above)] = NodeAt(table[printed[i].id], printed[i].depth - 1)
  BY TableOK DEF ShowsParents
<1>2. PICK a : IsLine(a, n, table, x)
  BY LineSteps
<1>3. PICK m \in 0..(n - 1) : GoesUp(a, n, m, Ancestors(table, x))
  BY <1>2, AncestorsAre
<1>4. PICK found : found = Visit(table, x)[n]
  OBVIOUS
<1>5. VisitedTo(table, n, x, found, n) /\ Len(found) \in 1..n
  BY <1>4, VisitVisits
<1>6. PICK p \in 1..n : p = Len(found)
  BY <1>5
<1>7. PrintedAs(printed, m, a, found)
  BY <1>1, <1>2, <1>3, <1>4, <1>5, TreeIs
<1>8. /\ \A j \in 1..(m + 1) : printed[j] = NodeAt(a[m + 1 - j], j - 1)
      /\ \A j \in 1..p : printed[m + j] = NodeAt(found[j].id, found[j].depth + m)
      /\ i \in 2..(m + p)
  BY <1>1, <1>6, <1>7 DEF PrintedAs
<1>9. ASSUME NEW k \in above, \A j \in above : j <= k,
             printed[k] = NodeAt(table[printed[i].id], printed[i].depth - 1)
      PROVE  /\ above # {}
             /\ printed[Max(above)] = NodeAt(table[printed[i].id], printed[i].depth - 1)
  <2>1. above \subseteq Int
    BY <1>1
  <2>2. Max(above) = k
    BY <1>9, <2>1, MaxIs
  <2> QED
    BY <1>9, <2>2
<1>10. CASE i <= m + 1
  <2>1. i \in 1..(m + 1) /\ i - 1 \in 1..(m + 1)
    BY <1>8, <1>10
  <2>2. printed[i].id = a[m + 1 - i] /\ printed[i].depth = i - 1
    BY <1>8, <2>1, NodeHas
  <2>3. printed[i - 1] = NodeAt(a[m + 2 - i], i - 2)
    <3>1. m + 1 - (i - 1) = m + 2 - i /\ (i - 1) - 1 = i - 2
      BY <2>1
    <3> QED
      BY <1>8, <2>1, <3>1
  <2>4. printed[i - 1].depth = i - 2
    BY <2>3, NodeHas
  <2>5. a[m + 2 - i] = table[a[m + 1 - i]]
    <3>1. m + 2 - i \in 1..n /\ (m + 2 - i) - 1 = m + 1 - i /\ m + 1 - i \in 0..m
      BY <2>1
    <3>2. a[m + 1 - i] \in 1..n
      BY <1>3, <3>1 DEF GoesUp
    <3> QED
      BY <1>2, <3>1, <3>2 DEF IsLine
  <2>6. i - 1 \in above /\ \A j \in above : j <= i - 1
    BY <1>1, <2>1, <2>2, <2>4
  <2>7. printed[i - 1] = NodeAt(table[printed[i].id], printed[i].depth - 1)
    <3>1. (i - 1) - 1 = i - 2
      OBVIOUS
    <3> QED
      BY <2>2, <2>3, <2>5, <3>1
  <2> QED
    BY <1>9, <2>6, <2>7
<1>11. CASE i > m + 1
  <2>1. PICK e \in 2..p : i = m + e
    <3>1. i - m \in 2..p /\ i = m + (i - m)
      BY <1>8, <1>11
    <3> QED
      BY <3>1
  <2>2. PICK f \in 1..(e - 1) : ListedBelow(table, found, e, f)
    BY <1>5, <1>6 DEF VisitedTo
  <2>3. /\ table[found[e].id] = found[f].id /\ found[e].depth = found[f].depth + 1
        /\ \A l \in (f + 1)..(e - 1) : found[l].depth >= found[e].depth
    BY <2>2 DEF ListedBelow
  <2>4. \A l \in 1..p : found[l].depth \in Int
    BY <1>5, <1>6, NodesHave DEF VisitedTo
  <2>5. e \in 1..p /\ f \in 1..p
    BY <2>1, <2>2
  <2>6. \A l \in 1..p : printed[m + l].id = found[l].id /\ printed[m + l].depth = found[l].depth + m
    BY <1>8, NodeHas
  <2>7. m + f \in above
    <3>1. m + f \in 1..(i - 1)
      BY <2>1, <2>2
    <3>2. printed[m + f].depth = found[f].depth + m /\ printed[i].depth = found[e].depth + m
      BY <2>1, <2>5, <2>6
    <3>3. printed[m + f].depth < printed[i].depth
      BY <2>3, <2>4, <2>5, <3>2
    <3> QED
      BY <1>1, <3>1, <3>3
  <2>8. ASSUME NEW j \in above PROVE j <= m + f
    <3> SUFFICES ASSUME j > m + f PROVE FALSE
      BY <1>1, <2>5
    <3>1. j \in 1..(i - 1) /\ printed[j].depth < printed[i].depth
      BY <1>1
    <3>2. PICK l \in (f + 1)..(e - 1) : j = m + l
      <4>1. j - m \in (f + 1)..(e - 1) /\ j = m + (j - m)
        BY <2>1, <3>1
      <4> QED
        BY <4>1
    <3>3. l \in 1..p
      BY <2>5, <3>2
    <3>4. found[l].depth + m < found[e].depth + m
      BY <2>1, <2>5, <2>6, <3>1, <3>2, <3>3
    <3>5. found[l].depth >= found[e].depth
      BY <2>3, <3>2
    <3>6. found[l].depth \in Int /\ found[e].depth \in Int
      BY <2>4, <2>5, <3>3
    <3> QED
      BY <3>4, <3>5, <3>6, SMTT(30)
  <2>9. printed[m + f] = NodeAt(table[printed[i].id], printed[i].depth - 1)
    <3>1. found[f].depth + m = (found[e].depth + m) - 1
      <4>1. found[f].depth \in Int /\ found[e].depth \in Int
        BY <2>4, <2>5
      <4>2. found[e].depth = found[f].depth + 1
        BY <2>3
      <4> QED
        BY <4>1, <4>2
    <3>2. printed[m + f] = NodeAt(found[f].id, found[f].depth + m)
      BY <1>8, <2>5
    <3> QED
      BY <2>1, <2>3, <2>5, <2>6, <3>1, <3>2
  <2> QED
    BY <1>9, <2>7, <2>8, <2>9
<1> QED
  BY <1>8, <1>10, <1>11

\* `mobius lineage` lists ancestors and descendants the same way round and as
\* far apart in every table of a query, whatever links it holds.
THEOREM LineageSymmetric == Spec => []LineageIsSymmetric
<1>1. LineageIsSymmetric
  BY SessionsOK, AnyLineageIsSymmetric DEF LineageIsSymmetric
<1> QED
  BY <1>1, PTL

\* The nearest less indented line above a line of a printed lineage is the
\* parent of its session, in every table of a query.
THEOREM TreesShowParents == Spec => []TreeShowsParents
<1>1. TreeShowsParents
  BY SessionsOK, AnyTreeShowsParents DEF TreeShowsParents
<1> QED
  BY <1>1, PTL
=============================================================================
