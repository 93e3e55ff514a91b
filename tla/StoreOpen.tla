----------------------------- MODULE StoreOpen ------------------------------
(***************************************************************************)
(* How processes open the event store of mobius, which the first of them   *)
(* creates: EventStore._connect with its migrations and its bootstrap      *)
(* event, the inline bootstrap of the fast `mobius status`, and read-only  *)
(* opens.  Every statement outside the bootstrap transaction commits by    *)
(* itself, so each of them is a step between which other processes open    *)
(* the same file, and after which a process may die.                       *)
(***************************************************************************)
EXTENDS Naturals

CONSTANTS
  Proc,     \* processes that open the store
  Faults,   \* what may go wrong: subset of {"crash", "error", "busy"}
  None      \* no process

ASSUME ConstantsOK ==
  /\ Faults \subseteq {"crash", "error", "busy"}
  /\ None \notin Proc

VARIABLES
  file,      \* events.db exists
  wal,       \* it is in WAL mode
  tables,    \* the tables and indexes it has
  migrated,  \* schema_migrations has the row of the latest version
  boot,      \* the bootstrap event is recorded, and its aggregates row
  lock,      \* who switches the file to WAL or has begun the bootstrap transaction
  path,      \* what each process executes
  pc,        \* its next statement
  at,        \* its position in the script
  hit        \* processes that a failure has hit themselves

database == <<file, wal, tables, migrated, boot>>
vars == <<database, lock, path, pc, at, hit>>

\* What the migration script creates, in its order.
Schema == <<"events", "sequence_index", "aggregate_index", "sessions",
            "aggregates", "migrations">>

Length == 6

Table == {Schema[i] : i \in 1..Length}

\* A write waits for the lock; CREATE ... IF NOT EXISTS of a table that is
\* there writes nothing.
Creates(table) ==
  /\ table \in tables \/ lock = None
  /\ tables' = tables \cup {table}

Goto(p, step) == pc' = [pc EXCEPT ![p] = step]

At(p, step) == pc[p] = step

Init ==
  /\ file = FALSE /\ wal = FALSE /\ tables = {}
  /\ migrated = FALSE /\ boot = FALSE
  /\ lock = None
  /\ path \in [Proc -> {"slow", "fast", "reader"}]
  /\ pc = [p \in Proc |-> "start"]
  /\ at = [p \in Proc |-> 1]
  /\ hit = {}

-----------------------------------------------------------------------------
(* Opening for writing, and the inline bootstrap of the fast path *)

SlowStarts(p) ==
  /\ At(p, "start") /\ path[p] = "slow"
  /\ Goto(p, "connect")
  /\ UNCHANGED <<database, lock, path, at>>

\* The fast path bootstraps a store only when there is none.
FastStarts(p) ==
  /\ At(p, "start") /\ path[p] = "fast"
  /\ Goto(p, IF file THEN "fast_check" ELSE "connect")
  /\ UNCHANGED <<database, lock, path, at>>

\* sqlite3.connect creates the file.
Connects(p) ==
  /\ At(p, "connect")
  /\ file' = TRUE
  /\ Goto(p, "journal")
  /\ UNCHANGED <<wal, tables, migrated, boot, lock, path, at>>

\* PRAGMA journal_mode=WAL: the first process switches the file, which it needs
\* for itself ...
SwitchesToWal(p) ==
  /\ At(p, "journal")
  /\ ~ wal /\ lock = None
  /\ lock' = p
  /\ Goto(p, "switch")
  /\ UNCHANGED <<database, path, at>>

\* ... the others find it switched.
EntersWal(p) ==
  /\ At(p, "switch") \/ (At(p, "journal") /\ wal)
  /\ wal' = TRUE
  /\ lock' = IF lock = p THEN None ELSE lock
  /\ Goto(p, IF path[p] = "fast" THEN "script" ELSE "create_migrations")
  /\ UNCHANGED <<file, tables, migrated, boot, path, at>>

\* _apply_migrations
CreatesMigrations(p) ==
  /\ At(p, "create_migrations")
  /\ Creates("migrations")
  /\ Goto(p, "check_version")
  /\ UNCHANGED <<file, wal, migrated, boot, lock, path, at>>

\* Mutant of ChecksVersion: the table is enough.
ChecksTable(p) ==
  /\ At(p, "check_version")
  /\ Goto(p, IF "migrations" \in tables THEN "check_bootstrap" ELSE "script")
  /\ UNCHANGED <<database, lock, path, at>>

ChecksVersion(p) ==
  /\ At(p, "check_version")
  /\ Goto(p, IF migrated THEN "check_bootstrap" ELSE "script")
  /\ UNCHANGED <<database, lock, path, at>>

\* Mutant of RunsScript: the version is recorded as soon as its table is there.
RecordsEarly(p) ==
  /\ At(p, "script")
  /\ Creates(Schema[at[p]])
  /\ migrated' = (migrated \/ "migrations" \in tables)
  /\ IF at[p] = Length THEN Goto(p, "record") /\ UNCHANGED at
     ELSE at' = [at EXCEPT ![p] = @ + 1] /\ UNCHANGED pc
  /\ UNCHANGED <<file, wal, boot, lock, path>>

\* executescript: one statement, and one commit, at a time.
RunsScript(p) ==
  /\ At(p, "script")
  /\ Creates(Schema[at[p]])
  /\ IF at[p] = Length THEN Goto(p, "record") /\ UNCHANGED at
     ELSE at' = [at EXCEPT ![p] = @ + 1] /\ UNCHANGED pc
  /\ UNCHANGED <<file, wal, migrated, boot, lock, path>>

\* INSERT OR REPLACE INTO schema_migrations
RecordsVersion(p) ==
  /\ At(p, "record")
  /\ lock = None
  /\ migrated' = TRUE
  /\ Goto(p, IF path[p] = "fast" THEN "begin" ELSE "check_bootstrap")
  /\ UNCHANGED <<file, wal, tables, boot, lock, path, at>>

\* _ensure_bootstrap_event looks for the event before it takes the lock ...
ChecksBootstrap(p) ==
  /\ At(p, "check_bootstrap")
  /\ Goto(p, IF "events" \notin tables THEN "broken"
             ELSE IF boot THEN "open" ELSE "begin")
  /\ UNCHANGED <<database, lock, path, at>>

BeginsBootstrap(p) ==
  /\ At(p, "begin")
  /\ lock = None
  /\ lock' = p
  /\ Goto(p, "commit")
  /\ UNCHANGED <<database, path, at>>

\* ... and its INSERT OR IGNORE has a fixed identifier, so that it may find the
\* event there.  The event and its aggregates row commit together.
CommitsBootstrap(p) ==
  /\ At(p, "commit")
  /\ boot' = TRUE
  /\ lock' = None
  /\ Goto(p, IF path[p] = "fast" THEN "fast_check" ELSE "open")
  /\ UNCHANGED <<file, wal, tables, migrated, path, at>>

TakesSlowPath(p) ==
  /\ path' = [path EXCEPT ![p] = "slow"]
  /\ Goto(p, "start")
  /\ at' = [at EXCEPT ![p] = 1]

\* The fast path reads the version, and on any doubt takes the slow path ...
FastChecks(p) ==
  /\ At(p, "fast_check")
  /\ IF migrated THEN Goto(p, "fast_count") /\ UNCHANGED <<path, at>>
     ELSE TakesSlowPath(p)
  /\ UNCHANGED <<database, lock>>

\* ... otherwise it counts the events, with no handler for a missing table.
FastCounts(p) ==
  /\ At(p, "fast_count")
  /\ Goto(p, IF "events" \in tables THEN "done" ELSE "broken")
  /\ UNCHANGED <<database, lock, path, at>>

-----------------------------------------------------------------------------
(* Opening read-only *)

\* _assert_migrations_present reads the table, not the version.
ReaderOpens(p) ==
  /\ At(p, "start") /\ path[p] = "reader"
  /\ Goto(p, IF "migrations" \in tables THEN "read" ELSE "failed")
  /\ UNCHANGED <<database, lock, path, at>>

ReaderReads(p) ==
  /\ At(p, "read")
  /\ Goto(p, IF {"events", "sessions"} \subseteq tables THEN "done" ELSE "broken")
  /\ UNCHANGED <<database, lock, path, at>>

-----------------------------------------------------------------------------
(* Failures *)

Statements == {"connect", "journal", "switch", "create_migrations", "script",
               "record", "begin", "commit"}

\* A failed statement rolls its transaction back.  It ends a slow open; the
\* fast path gives up its bootstrap and takes the slow path from the start.
Fails(p) ==
  /\ pc[p] \in Statements
  /\ lock' = IF lock = p THEN None ELSE lock
  /\ IF path[p] = "fast" THEN TakesSlowPath(p)
     ELSE Goto(p, "failed") /\ UNCHANGED <<path, at>>
  /\ UNCHANGED database

\* Mutant of WalIsLocked: the slow path does not retry either.
WalNeverRetried(p) ==
  /\ At(p, "journal") /\ ~ wal /\ lock # None
  /\ Fails(p)

\* A switch to WAL while another process is at it fails at once: the slow path
\* retries (_execute_with_lock_retry), the fast path does not.
WalIsLocked(p) ==
  /\ At(p, "journal") /\ ~ wal /\ lock # None
  /\ path[p] = "fast"
  /\ Fails(p)

BusyTimeout(p) ==
  /\ "busy" \in Faults
  /\ pc[p] \in Statements \ {"connect", "switch", "commit"}
  /\ lock # None
  /\ Fails(p)

StatementError(p) == "error" \in Faults /\ Fails(p)

Ended == {"open", "done", "failed", "broken"}

Crash(p) ==
  /\ "crash" \in Faults
  /\ pc[p] \notin Ended
  /\ lock' = IF lock = p THEN None ELSE lock
  /\ Goto(p, "failed")
  /\ UNCHANGED <<database, path, at>>

-----------------------------------------------------------------------------
Statement(p) ==
  \/ SlowStarts(p) \/ FastStarts(p) \/ Connects(p) \/ SwitchesToWal(p)
  \/ EntersWal(p) \/ CreatesMigrations(p) \/ ChecksVersion(p) \/ RunsScript(p)
  \/ RecordsVersion(p) \/ ChecksBootstrap(p) \/ BeginsBootstrap(p)
  \/ CommitsBootstrap(p) \/ FastChecks(p) \/ FastCounts(p)
  \/ ReaderOpens(p) \/ ReaderReads(p) \/ WalIsLocked(p)

Step(p) == Statement(p) /\ UNCHANGED hit

Failure(p) ==
  /\ BusyTimeout(p) \/ StatementError(p) \/ Crash(p)
  /\ hit' = hit \cup {p}

Next == \E p \in Proc : Step(p) \/ Failure(p)

Spec == Init /\ [][Next]_vars

\* The operating system runs every process that is opening the store.
FairSpec == Spec /\ \A p \in Proc : WF_vars(Step(p))

-----------------------------------------------------------------------------
(* Properties *)

Label == {"start", "check_version", "check_bootstrap", "fast_check",
          "fast_count", "read"} \cup Statements \cup Ended

\* Every variable has its type.
TypeOK ==
  /\ file \in BOOLEAN /\ wal \in BOOLEAN
  /\ tables \subseteq Table
  /\ migrated \in BOOLEAN /\ boot \in BOOLEAN
  /\ lock \in Proc \cup {None}
  /\ path \in [Proc -> {"slow", "fast", "reader"}]
  /\ pc \in [Proc -> Label]
  /\ at \in [Proc -> 1..Length]
  /\ hit \subseteq Proc

\* The version is recorded only in a database whose schema is complete,
\* whoever created its tables in whichever order and died in between: the
\* fast path and every later open trust that row and skip the script.
MigratedMeansComplete == migrated => tables = Table

\* EventStore(path) returns only with a store that is complete: WAL mode, the
\* schema, its version, and the bootstrap event.
OpenMeansReady ==
  \A p \in Proc :
    pc[p] = "open" => wal /\ tables = Table /\ migrated /\ boot

\* Neither a writing open nor the fast path executes a statement on a table
\* that is not there.
WritersFindTables ==
  \A p \in Proc : pc[p] = "broken" => path[p] = "reader"

\* A process that opens the store for writing and meets no failure of its own
\* gets it, however many create it at the same time and wherever they die.
EveryOpenSucceeds ==
  <>[] \A p \in Proc : path[p] = "slow" => pc[p] = "open" \/ p \in hit
=============================================================================
