----------------------------- MODULE EventStore -----------------------------
(***************************************************************************)
(* The SQLite event store of mobius (persistence/event_store.py), used by  *)
(* many processes at once: command-line clients, detached workers, and the *)
(* import-free "fast path" of `mobius status` (cli/__init__.py), which     *)
(* writes the same tables without opening a transaction.                   *)
(*                                                                         *)
(* A transactional operation is BEGIN IMMEDIATE, its statements on a       *)
(* private view of the database, and COMMIT.  The fast path runs each of   *)
(* its statements as a transaction of its own.  SQLite is modelled by what *)
(* the code relies on: one writer at a time, readers see the last commit,  *)
(* the primary key on event_id and the unique index on                     *)
(* (aggregate_id, sequence), and a busy timeout for those who wait.        *)
(***************************************************************************)
EXTENDS Naturals

CONSTANTS
  Proc,        \* operating-system processes that use the store
  Agg,         \* aggregate identifiers; a session has the id of its aggregate
  Uuid,        \* identifiers uuid4() may return (bounds the number of appends)
  CallerId,    \* identifiers callers of append_event pass in event_id=
  CallerSeq,   \* sequences callers of append_event pass in sequence=
  Status,      \* session statuses
  Terminal,    \* the statuses of finished sessions
  Running,     \* the status of a session whose worker is at work
  Crashed,     \* the status the stale-session reconcilers write
  None         \* no process, no session row, no argument

ASSUME ConstantsOK ==
  /\ CallerSeq \subseteq Nat \ {0}
  /\ Uuid \cap CallerId = {}
  /\ Terminal \subseteq Status
  /\ Running \in Status \ Terminal
  /\ Crashed \in Terminal
  /\ None \notin Proc \cup Status \cup Agg \cup Uuid \cup CallerId

VARIABLES
  events,      \* committed rows of the events table
  last,        \* committed aggregates.last_sequence (0: no row)
  sessions,    \* committed sessions.status (None: no row)
  txEvents,    \* the view of the process that holds the write lock:
  txLast,      \*   its uncommitted changes on top of the last commit
  txSessions,
  lock,        \* the holder of SQLite's write lock
  pc,          \* next statement of each process
  op,          \* arguments and locals of each process's operation
  acked        \* rows that some append_event has returned to its caller

committed == <<events, last, sessions>>

view == <<txEvents, txLast, txSessions>>

vars == <<committed, view, lock, pc, op, acked>>

Id == Uuid \cup CallerId

Row == [id : Id, agg : Agg, seq : Nat]

\* Statements executed while the process holds the write lock.
InTransaction == {"insert", "upsert", "create", "end", "commit"}

FastStatement == {"fast_create", "fast_select", "fast_insert",
                  "fast_upsert", "fast_end"}

Label == {"idle", "begin", "raised"} \cup InTransaction \cup FastStatement

Operation == [kind : {"none", "append", "create", "end", "fast"},
              id : Id \cup {None}, agg : Agg \cup {None}, seq : Nat,
              status : Status \cup {None}]

Op(kind, i, a, s, status) ==
  [kind |-> kind, id |-> i, agg |-> a, seq |-> s, status |-> status]

\* The same operation with its sequence allocated.
At(o, s) == Op(o.kind, o.id, o.agg, s, o.status)

NoOp == Op("none", None, None, 0, None)

-----------------------------------------------------------------------------
(* Tables *)

SequencesOf(rows, a) == {e.seq : e \in {f \in rows : f.agg = a}}

\* SELECT COALESCE(MAX(sequence), 0) + 1 FROM events WHERE aggregate_id = a
NextSequence(rows, a) ==
  IF SequencesOf(rows, a) = {} THEN 1
  ELSE 1 + CHOOSE n \in SequencesOf(rows, a) :
             \A m \in SequencesOf(rows, a) : m <= n

\* Either unique constraint of the events table rejects the row.
Conflicts(rows, row) ==
  \E e \in rows : e.id = row.id \/ (e.agg = row.agg /\ e.seq = row.seq)

\* INSERT OR REPLACE, for the mutant of FastInsert.
InsertOrReplace(rows, row) ==
  {e \in rows : ~ Conflicts({e}, row)} \cup {row}

\* Mutant of InsertOrIgnore: a table without a primary key.
InsertNoPrimaryKey(rows, row) ==
  IF \E e \in rows : e.agg = row.agg /\ e.seq = row.seq
  THEN rows ELSE rows \cup {row}

\* INSERT OR IGNORE INTO events
InsertOrIgnore(rows, row) ==
  IF Conflicts(rows, row) THEN rows ELSE rows \cup {row}

\* Mutant of UpsertAggregate: a counter.
UpsertCounter(index, a, seq) ==
  [index EXCEPT ![a] = IF seq > @ THEN @ + 1 ELSE @]

\* INSERT INTO aggregates ... ON CONFLICT DO UPDATE SET last_sequence = MAX(...)
UpsertAggregate(index, a, seq) ==
  [index EXCEPT ![a] = IF @ > seq THEN @ ELSE seq]

\* INSERT OR IGNORE INTO sessions
InsertSession(table, a, status) ==
  [table EXCEPT ![a] = IF @ = None THEN status ELSE @]

\* UPDATE sessions SET status = ... WHERE session_id = a
UpdateSession(table, a, status) ==
  [table EXCEPT ![a] = IF @ = None THEN @ ELSE status]

RowOf(o) == [id |-> o.id, agg |-> o.agg, seq |-> o.seq]

\* str(uuid.uuid4()): never an identifier in use.
FreshUuid(i) ==
  /\ i \in Uuid
  /\ \A e \in events : e.id # i
  /\ \A p \in Proc : op[p].id # i

-----------------------------------------------------------------------------
Init ==
  /\ events = {} /\ txEvents = {}
  /\ last = [a \in Agg |-> 0] /\ txLast = last
  /\ sessions = [a \in Agg |-> None] /\ txSessions = sessions
  /\ lock = None
  /\ pc = [p \in Proc |-> "idle"]
  /\ op = [p \in Proc |-> NoOp]
  /\ acked = {}

Goto(p, label) == pc' = [pc EXCEPT ![p] = label]

\* The call is over: it returned, or its process raised or died.
Done(p) == Goto(p, "idle") /\ op' = [op EXCEPT ![p] = NoOp]

(* Calls: the arguments are evaluated before the transaction begins. *)

Call(p, o) ==
  /\ pc[p] = "idle"
  /\ op' = [op EXCEPT ![p] = o]
  /\ Goto(p, "begin")
  /\ UNCHANGED <<committed, view, lock, acked>>

\* append_event; a falsy sequence means "allocate one".
AppendEvent(p, a, i, s) ==
  /\ i \in CallerId \/ FreshUuid(i)
  /\ s \in CallerSeq \cup {0}
  /\ Call(p, Op("append", i, a, s, None))

CreateSession(p, a, status) == Call(p, Op("create", None, a, 0, status))

EndSession(p, a, status) == Call(p, Op("end", None, a, 0, status))

-----------------------------------------------------------------------------
(* The transaction *)

\* Mutant of BeginImmediate: BEGIN DEFERRED, the lock is not awaited.
BeginDeferred(p) ==
  /\ pc[p] = "begin"
  /\ lock' = p
  /\ txEvents' = events
  /\ txLast' = last
  /\ txSessions' = sessions
  /\ Goto(p, IF op[p].kind = "append" THEN "insert" ELSE op[p].kind)
  /\ UNCHANGED <<committed, op, acked>>

BeginImmediate(p) ==
  /\ pc[p] = "begin"
  /\ lock = None
  /\ lock' = p
  /\ txEvents' = events
  /\ txLast' = last
  /\ txSessions' = sessions
  /\ Goto(p, IF op[p].kind = "append" THEN "insert" ELSE op[p].kind)
  /\ UNCHANGED <<committed, op, acked>>

\* busy_timeout expires: BEGIN raises outside the try, nothing is rolled back.
BeginTimeout(p) ==
  /\ pc[p] = "begin"
  /\ lock # None
  /\ Done(p)
  /\ UNCHANGED <<committed, view, lock, acked>>

\* The sequence is allocated and the row inserted under the write lock.
InsertEvent(p) ==
  LET s == IF op[p].seq # 0 THEN op[p].seq
           ELSE NextSequence(txEvents, op[p].agg)
  IN /\ pc[p] = "insert"
     /\ op' = [op EXCEPT ![p] = At(@, s)]
     /\ txEvents' = InsertOrIgnore(txEvents, RowOf(At(op[p], s)))
     /\ Goto(p, "upsert")
     /\ UNCHANGED <<committed, txLast, txSessions, lock, acked>>

UpsertEvent(p) ==
  /\ pc[p] = "upsert"
  /\ txLast' = UpsertAggregate(txLast, op[p].agg, op[p].seq)
  /\ Goto(p, "commit")
  /\ UNCHANGED <<committed, txEvents, txSessions, lock, op, acked>>

WriteSession(p) ==
  /\ pc[p] \in {"create", "end"}
  /\ txSessions' = IF pc[p] = "create"
                   THEN InsertSession(txSessions, op[p].agg, op[p].status)
                   ELSE UpdateSession(txSessions, op[p].agg, op[p].status)
  /\ Goto(p, "commit")
  /\ UNCHANGED <<committed, txEvents, txLast, lock, op, acked>>

\* The row append_event returns: the one at the position it wrote, if any.
Persisted(rows, o) ==
  {e \in rows : e.agg = o.agg /\ e.seq = o.seq}

\* An append that finds no row raises RuntimeError after its commit.
Commit(p) ==
  /\ pc[p] = "commit"
  /\ events' = txEvents
  /\ last' = txLast
  /\ sessions' = txSessions
  /\ lock' = None
  /\ IF op[p].kind = "append" /\ Persisted(txEvents, op[p]) = {}
     THEN Goto(p, "raised") /\ UNCHANGED op
     ELSE Done(p)
  /\ acked' = IF op[p].kind = "append"
              THEN acked \cup Persisted(txEvents, op[p]) ELSE acked
  /\ UNCHANGED view

\* `except BaseException`: a failed statement, or the SystemExit a signal
\* handler raises in the middle of the transaction.
Rollback(p) ==
  /\ pc[p] \in InTransaction
  /\ lock' = None
  /\ Done(p)
  /\ UNCHANGED <<committed, view, acked>>

-----------------------------------------------------------------------------
(* The fast path: every statement commits by itself. *)

\* _mark_stale_session_if_needed, past its checks, with the session row read.
FastCrash(p, a, i) ==
  /\ pc[p] = "idle"
  /\ sessions[a] \notin Terminal
  /\ FreshUuid(i)
  /\ op' = [op EXCEPT ![p] = Op("fast", i, a, 0, Crashed)]
  /\ Goto(p, IF sessions[a] = None THEN "fast_create" ELSE "fast_select")
  /\ UNCHANGED <<committed, view, lock, acked>>

\* _create_session
FastCreate(p) ==
  /\ pc[p] = "fast_create"
  /\ lock = None
  /\ sessions' = InsertSession(sessions, op[p].agg, Running)
  /\ Goto(p, "fast_select")
  /\ UNCHANGED <<events, last, view, lock, op, acked>>

\* _append_event reads the maximum without holding the write lock ...
FastSelect(p) ==
  /\ pc[p] = "fast_select"
  /\ op' = [op EXCEPT ![p] = At(@, NextSequence(events, @.agg))]
  /\ Goto(p, "fast_insert")
  /\ UNCHANGED <<committed, view, lock, acked>>

\* Mutant of FastInsert: INSERT OR REPLACE instead of a plain INSERT.
FastInsertOrReplace(p) ==
  /\ pc[p] = "fast_insert"
  /\ lock = None
  /\ events' = InsertOrReplace(events, RowOf(op[p]))
  /\ Goto(p, "fast_upsert")
  /\ UNCHANGED <<last, sessions, view, lock, op, acked>>

\* ... and inserts later: a row there by now raises IntegrityError.
FastInsert(p) ==
  /\ pc[p] = "fast_insert"
  /\ lock = None
  /\ IF Conflicts(events, RowOf(op[p]))
     THEN Done(p) /\ UNCHANGED events
     ELSE /\ events' = events \cup {RowOf(op[p])}
          /\ Goto(p, "fast_upsert")
          /\ UNCHANGED op
  /\ UNCHANGED <<last, sessions, view, lock, acked>>

FastUpsert(p) ==
  /\ pc[p] = "fast_upsert"
  /\ lock = None
  /\ last' = UpsertAggregate(last, op[p].agg, op[p].seq)
  /\ Goto(p, "fast_end")
  /\ UNCHANGED <<events, sessions, view, lock, op, acked>>

FastEnd(p) ==
  /\ pc[p] = "fast_end"
  /\ lock = None
  /\ sessions' = UpdateSession(sessions, op[p].agg, op[p].status)
  /\ Done(p)
  /\ UNCHANGED <<events, last, view, lock, acked>>

\* A fast-path write waits for the lock for busy_timeout, then raises.
FastTimeout(p) ==
  /\ pc[p] \in FastStatement \ {"fast_select"}
  /\ lock # None
  /\ Done(p)
  /\ UNCHANGED <<committed, view, lock, acked>>

-----------------------------------------------------------------------------
(* Processes *)

\* A killed process loses its connection: SQLite discards its transaction.
Crash(p) ==
  /\ pc[p] \notin {"idle", "raised"}
  /\ lock' = IF lock = p THEN None ELSE lock
  /\ Done(p)
  /\ UNCHANGED <<committed, view, acked>>

Exit(p) ==
  /\ pc[p] = "raised"
  /\ Done(p)
  /\ UNCHANGED <<committed, view, lock, acked>>

Statement(p) ==
  \/ BeginImmediate(p) \/ BeginTimeout(p)
  \/ InsertEvent(p) \/ UpsertEvent(p) \/ WriteSession(p)
  \/ Commit(p)
  \/ FastCreate(p) \/ FastSelect(p) \/ FastInsert(p) \/ FastUpsert(p)
  \/ FastEnd(p) \/ FastTimeout(p)
  \/ Exit(p)

Start(p) ==
  \E a \in Agg :
    \/ \E i \in Id, s \in CallerSeq \cup {0} : AppendEvent(p, a, i, s)
    \/ \E status \in Status : CreateSession(p, a, status) \/ EndSession(p, a, status)
    \/ \E i \in Uuid : FastCrash(p, a, i)

Next == \E p \in Proc : Statement(p) \/ Start(p) \/ Rollback(p) \/ Crash(p)

Spec == Init /\ [][Next]_vars

-----------------------------------------------------------------------------
(* Properties *)

\* Every variable has its type.
TypeOK ==
  /\ events \subseteq Row /\ txEvents \subseteq Row
  /\ last \in [Agg -> Nat] /\ txLast \in [Agg -> Nat]
  /\ sessions \in [Agg -> Status \cup {None}]
  /\ txSessions \in [Agg -> Status \cup {None}]
  /\ lock \in Proc \cup {None}
  /\ pc \in [Proc -> Label]
  /\ op \in [Proc -> Operation]
  /\ acked \subseteq Row

\* The committed events of every aggregate occupy the positions 1..n without
\* a gap, whatever appends, fast-path inserts, rollbacks and crashes happen
\* in between.  Holds when no caller chooses a sequence itself.
ContiguousLog ==
  \A a \in Agg :
    SequencesOf(events, a) = 1..(NextSequence(events, a) - 1)

\* An event append_event has returned is in the committed log, at the
\* position it was returned with, through every later crash and rollback.
AckedIsDurable == acked \subseteq events

\* No committed row is ever removed or rewritten (INSERT OR IGNORE and the
\* fast path's plain INSERT never replace).
AppendOnly == [][events \subseteq events']_vars

\* The aggregates row never moves backwards, although a fast-path process may
\* write it long after later events have been appended.
IndexMonotone == [][\A a \in Agg : last[a] <= last'[a]]_vars

\* Whatever half-finished fast-path appends came before it, a transactional
\* append that commits a new event leaves the aggregates row of its aggregate at
\* the end of the log, not behind it and not ahead.
AppendRepairsIndex ==
  [][\A p \in Proc :
       (pc[p] = "commit" /\ pc'[p] # "commit" /\ op[p].kind = "append"
          /\ events' # events)
         => last'[op[p].agg] + 1 = NextSequence(events', op[p].agg)]_vars

\* A call that repeats a caller-chosen identifier never writes a second event.
RetryWritesOnce ==
  \A d, e \in events : d.id = e.id => d = e

-----------------------------------------------------------------------------
(* What the store implements: the abstract log of module EventLog. *)

LogOf(rows) ==
  [a \in Agg |->
     [n \in SequencesOf(rows, a) |->
        (CHOOSE e \in rows : e.agg = a /\ e.seq = n).id]]

Log == INSTANCE EventLog WITH Agg <- Agg, Id <- Id, log <- LogOf(events)

\* Readers of the store see an append-only log per aggregate: every commit
\* appends one event at the end of one log or leaves all logs alone.
ImplementsLog == Log!Spec
=============================================================================
