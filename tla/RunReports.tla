----------------------------- MODULE RunReports -----------------------------
(***************************************************************************)
(* Reports on a run while others write its session: the acceptance-        *)
(* criteria tree of `mobius ac-tree`, polled with the cursor of the last   *)
(* output, and the verdicts of `mobius qa`.  Both read the session's row   *)
(* and then its events, in different transactions.  What the others do is  *)
(* all that module SessionLog allows.  (Both first reconcile the session,  *)
(* which RunLifecycle models and SessionLog allows.)                       *)
(***************************************************************************)
EXTENDS Naturals, Sequences, SequencesExt

CONSTANTS
  Type,        \* event types
  Terminal,    \* terminal statuses, each the type of its event
  Spec_,       \* specifications the run's file may hold when it is loaded
  NoSpec,      \* ... or none: missing, or refused by the validation
  MaxNodes,    \* values of --max-nodes
  MaxEvents    \* bound: events of the run

ASSUME ConstantsOK ==
  /\ Terminal \subseteq Type
  /\ {"started", "completed"} \subseteq Type /\ "completed" \in Terminal
  /\ {"none", "running"} \cap Type = {}
  /\ Spec_ \subseteq [constraints : Nat \ {0}, criteria : Nat \ {0}]
  /\ NoSpec \notin Spec_
  /\ MaxNodes \subseteq Nat /\ MaxNodes # {}
  /\ MaxEvents \in Nat

VARIABLES
  log,      \* the types of the run's events, in order of sequence
  status,   \* sessions.status
  pc,       \* "idle", or "events": the row has been read, the events not yet
  row,      \* the state of the row read last
  cursor,   \* the cursor of the last tree
  cut,      \* history: some tree so far was truncated
  shown,    \* history: until then, the sequences of the event nodes of all trees
  tree,     \* the last tree
  report    \* the last QA report

session == <<log, status>>
vars == <<session, pc, row, cursor, shown, cut, tree, report>>

Session == INSTANCE SessionLog

Recorded(t) == \E i \in DOMAIN log : log[i] = t

-----------------------------------------------------------------------------
(* The tree of one poll: a sequence of nodes and a set of edges *)

Node(kind, n) == [kind |-> kind, n |-> n]

Root == Node("run", 0)

\* A group node and its children, if there are any.
Group(group, child, first, last) ==
  IF first > last THEN <<>>
  ELSE <<Node(group, 0)>> \o [i \in 1..(last - first + 1) |-> Node(child, first + i - 1)]

\* Without a specification the goal is looked up in the events of the delta.
HasGoal(spec, delta) == spec # NoSpec \/ \E i \in DOMAIN delta : delta[i] = "started"

Context(spec, delta) ==
  (IF HasGoal(spec, delta) THEN <<Node("goal", 0)>> ELSE <<>>)
    \o (IF spec = NoSpec THEN <<>>
        ELSE Group("constraints", "constraint", 1, spec.constraints)
               \o Group("acceptance", "criterion", 1, spec.criteria))

\* Mutant of Deltas: sequence >= cursor.
DeltasFrom(after) == Group("deltas", "event", IF after = 0 THEN 1 ELSE after, Len(log))

\* The events with a sequence greater than the cursor.
Deltas(after) == Group("deltas", "event", after + 1, Len(log))

\* A session's metadata is never empty.
Nodes(spec, after) ==
  <<Root>> \o Context(spec, SubSeq(log, after + 1, Len(log))) \o Deltas(after)
    \o (IF spec = NoSpec /\ after >= Len(log) THEN <<Node("metadata", 0)>> ELSE <<>>)

Parent(node) ==
  CASE node.kind = "constraint" -> Node("constraints", 0)
    [] node.kind = "criterion" -> Node("acceptance", 0)
    [] node.kind = "event" -> Node("deltas", 0)
    [] OTHER -> Root

Edges(nodes) == {<<Parent(node), node>> : node \in ToSet(nodes) \ {Root}}

Marker == Node("truncated", 0)

Larger(m, n) == IF m > n THEN m ELSE n

\* Mutant of Truncate: the edges of dropped nodes stay.
TruncateNodes(nodes, max) ==
  IF Len(nodes) <= max
  THEN [nodes |-> nodes, edges |-> Edges(nodes), omitted |-> 0]
  ELSE [nodes |-> SubSeq(nodes, 1, max - 1) \o <<Marker>>,
        edges |-> Edges(nodes) \cup {<<Root, Marker>>},
        omitted |-> Len(nodes) - (max - 1)]

\* A tree of more than max nodes keeps the first max - 1 and a marker.
Truncate(nodes, max) ==
  IF Len(nodes) <= max
  THEN [nodes |-> nodes, edges |-> Edges(nodes), omitted |-> 0]
  ELSE LET kept == SubSeq(nodes, 1, max - 1) \o <<Marker>>
       IN [nodes |-> kept,
           edges |-> {e \in Edges(nodes) : {e[1], e[2]} \subseteq ToSet(kept)}
                       \cup {<<Root, Marker>>},
           omitted |-> Len(nodes) - (max - 1)]

\* Mutant of CriterionState: the state of the run is shown.
CriterionStateRaw(state) == IF state = "completed" THEN "satisfied" ELSE state

CriterionState(state) ==
  CASE state = "completed" -> "satisfied"
    [] state \in Terminal -> "unknown"
    [] OTHER -> "pending"

\* The sequences of the event nodes of a tree, in the order of its nodes.
EventsOf(t) ==
  LET places == {i \in DOMAIN t.nodes : t.nodes[i].kind = "event"}
      Nth(k) == CHOOSE i \in places : Cardinality({j \in places : j <= i}) = k
  IN [k \in 1..Cardinality(places) |-> t.nodes[Nth(k)].n]

-----------------------------------------------------------------------------
(* The checks of a QA report *)

Failure == Terminal \ {"completed"}

\* Mutant of Report: crashes are missing from the failures.
ReportNoCrash(state) ==
  [terminal  |-> state \in Terminal,
   success   |-> state = "completed",
   started   |-> Recorded("started"),
   completed |-> Recorded("completed"),
   criteria  |-> Recorded("completed"),
   clean     |-> \A t \in Failure \ {"crashed"} : ~ Recorded(t)]

\* A run.completed event counts the criteria of a validated specification.
Report(state) ==
  [terminal  |-> state \in Terminal,
   success   |-> state = "completed",
   started   |-> Recorded("started"),
   completed |-> Recorded("completed"),
   criteria  |-> Recorded("completed"),
   clean     |-> \A t \in Failure : ~ Recorded(t)]

NoReport ==
  [terminal |-> FALSE, success |-> FALSE, started |-> FALSE,
   completed |-> FALSE, criteria |-> FALSE, clean |-> FALSE]

-----------------------------------------------------------------------------
Init ==
  /\ Session!Init
  /\ pc = "idle" /\ row = "none"
  /\ cursor = 0 /\ shown = <<>> /\ cut = FALSE
  /\ tree = [nodes |-> <<Root>>, edges |-> {}, omitted |-> 0, criteria |-> "pending"]
  /\ report = NoReport

OthersWrite ==
  /\ Len(log) < MaxEvents
  /\ Session!Next
  /\ UNCHANGED <<pc, row, cursor, shown, cut, tree, report>>

\* Neither command reports on a session that does not exist.
ReadsSession ==
  /\ pc = "idle"
  /\ row' = status
  /\ pc' = IF status = "none" THEN "idle" ELSE "events"
  /\ UNCHANGED <<session, cursor, shown, cut, tree, report>>

\* build_ac_tree; the file of the specification is loaded on every poll.
BuildsTree(spec, max) ==
  /\ pc = "events"
  /\ LET t == Truncate(Nodes(spec, cursor), Larger(max, 5))
     IN /\ tree' = [nodes |-> t.nodes, edges |-> t.edges, omitted |-> t.omitted,
                    criteria |-> CriterionState(row)]
        /\ cut' = (cut \/ t.omitted > 0)
        /\ shown' = IF cut' THEN <<>> ELSE shown \o EventsOf(t)
  /\ cursor' = Len(log)
  /\ pc' = "idle"
  /\ UNCHANGED <<session, row, report>>

\* evaluate_run_qa
JudgesRun ==
  /\ pc = "events"
  /\ report' = Report(row)
  /\ pc' = "idle"
  /\ UNCHANGED <<session, row, cursor, shown, cut, tree>>

Next ==
  \/ OthersWrite
  \/ ReadsSession
  \/ \E spec \in Spec_ \cup {NoSpec}, max \in MaxNodes : BuildsTree(spec, max)
  \/ JudgesRun

Spec == Init /\ [][Next]_vars

-----------------------------------------------------------------------------
(* Properties *)

NodeSet(kinds) == [kind : kinds, n : Nat]

Kinds == {"run", "goal", "constraints", "constraint", "acceptance", "criterion",
          "deltas", "event", "metadata", "truncated"}

\* Every variable has its type.
TypeOK ==
  /\ log \in Seq(Type)
  /\ status \in {"none", "running"} \cup Terminal
  /\ pc \in {"idle", "events"}
  /\ row \in {"none", "running"} \cup Terminal
  /\ cursor \in Nat /\ shown \in Seq(Nat) /\ cut \in BOOLEAN
  /\ tree.nodes \in Seq(NodeSet(Kinds)) /\ tree.omitted \in Nat
  /\ tree.criteria \in {"satisfied", "unknown", "pending"}
  /\ DOMAIN report = DOMAIN NoReport /\ \A c \in DOMAIN report : report[c] \in BOOLEAN

\* Truncated or not, the output is a tree rooted in the run: no node appears
\* twice, and every other node has one edge, from a node that precedes it.  It
\* is no larger than its bound, and fills it if nodes are omitted.
OutputIsTree ==
  LET nodes == tree.nodes
  IN /\ nodes[1] = Root
     /\ \A i, j \in DOMAIN nodes : nodes[i] = nodes[j] => i = j
     /\ \A e \in tree.edges : {e[1], e[2]} \subseteq ToSet(nodes)
     /\ \A i \in 2..Len(nodes) :
          \E j \in 1..(i - 1) : {e \in tree.edges : e[2] = nodes[i]} = {<<nodes[j], nodes[i]>>}
     /\ \E max \in MaxNodes :
          LET bound == Larger(max, 5)
          IN IF tree.omitted = 0 THEN Len(nodes) <= bound
             ELSE Len(nodes) = bound /\ tree.omitted > 1

\* A poller that always passes the cursor of the last output, and whose
\* outputs were not truncated, has been shown every event up to its cursor
\* once, in order, whatever is appended between the polls and between the two
\* reads of one poll.
PollerSeesAll ==
  cut \/ shown = [i \in 1..cursor |-> i]

\* Verdicts agree although they come from two reads: criteria are shown
\* satisfied only if the completion precedes the cursor, a run that is judged
\* successful has its completion in the stream, and one that is judged ended
\* has the event of an outcome there.
VerdictsAgree ==
  /\ tree.criteria = "satisfied" => \E i \in 1..cursor : log[i] = "completed"
  /\ report.success => report.completed /\ report.terminal
  /\ report.terminal => report.completed \/ ~ report.clean
=============================================================================
