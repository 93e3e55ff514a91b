--------------------------- MODULE StoreOpenProofs ---------------------------
(* What holds of StoreOpen for any number of processes and any failures. *)
EXTENDS StoreOpen, TLAPS

\* What a process knows of the database at each of its statements.
Knows(p) ==
  /\ pc[p] \in {"start", "connect", "journal", "switch", "create_migrations",
                "check_version"} => at[p] = 1
  /\ pc[p] = "script" => \A i \in 1..(at[p] - 1) : Schema[i] \in tables
  /\ pc[p] = "record" => tables = Table
  /\ pc[p] \in {"check_bootstrap", "begin", "commit", "open", "fast_count"} => migrated
  /\ pc[p] \in {"create_migrations", "check_version", "script", "record",
                "check_bootstrap", "begin", "commit", "open"} => wal
  /\ pc[p] = "open" => boot
  /\ pc[p] \in {"read", "broken"} => path[p] = "reader"

Inv == TypeOK /\ MigratedMeansComplete /\ \A p \in Proc : Knows(p)

\* The database only grows.
Grows ==
  /\ tables \subseteq tables' /\ tables' \subseteq Table
  /\ migrated => migrated'
  /\ wal => wal'
  /\ boot => boot'

\* The place of one process in its own script.
Place(p) ==
  /\ pc' \in [Proc -> Label] /\ at' \in [Proc -> 1..Length]
  /\ path' \in [Proc -> {"slow", "fast", "reader"}]
  /\ lock' \in Proc \cup {None}
  /\ \A q \in Proc \ {p} : pc'[q] = pc[q] /\ at'[q] = at[q] /\ path'[q] = path[q]

USE DEF Length, Statements, Ended, Label

LEMMA SchemaOK == Length \in Nat /\ \A i \in 1..Length : Schema[i] \in Table
BY DEF Table

LEMMA InitInv == Init => Inv
<1> SUFFICES ASSUME Init PROVE Inv
  OBVIOUS
<1>1. TypeOK
  <2>1. pc \in [Proc -> Label] /\ at \in [Proc -> 1..Length]
    BY DEF Init
  <2>2. tables \subseteq Table /\ lock \in Proc \cup {None}
    BY DEF Init
  <2> QED
    BY <2>1, <2>2, Zenon DEF Init, TypeOK
<1>2. MigratedMeansComplete /\ \A p \in Proc : Knows(p)
  BY DEF Init, MigratedMeansComplete, Knows
<1> QED
  BY <1>1, <1>2 DEF Inv

\* A step of a process lets the database grow and moves that process only.
LEMMA StepMoves ==
  ASSUME Inv, NEW p \in Proc,
         Statement(p) \/ BusyTimeout(p) \/ StatementError(p) \/ Crash(p)
  PROVE  Grows /\ Place(p)
<1> USE DEF Inv, TypeOK, Goto, At, Grows, Place, database
<1>1. CASE SlowStarts(p) \/ FastStarts(p) \/ ChecksVersion(p) \/ ChecksBootstrap(p)
           \/ ReaderOpens(p) \/ ReaderReads(p) \/ FastCounts(p)
  BY <1>1 DEF SlowStarts, FastStarts, ChecksVersion, ChecksBootstrap, ReaderOpens,
     ReaderReads, FastCounts
<1>2. CASE Connects(p) \/ SwitchesToWal(p) \/ EntersWal(p)
  BY <1>2 DEF Connects, SwitchesToWal, EntersWal
<1>3. CASE CreatesMigrations(p)
  <2>1. "migrations" \in Table
    BY DEF Table, Schema
  <2> QED
    BY <1>3, <2>1 DEF CreatesMigrations, Creates
<1>4. CASE RunsScript(p)
  <2>1. Schema[at[p]] \in Table
    BY SchemaOK
  <2>2. CASE at[p] = Length
    BY <1>4, <2>1, <2>2 DEF RunsScript, Creates
  <2>3. CASE at[p] # Length
    <3>1. at[p] + 1 \in 1..Length
      BY <2>3
    <3> QED
      BY <1>4, <2>1, <2>3, <3>1 DEF RunsScript, Creates
  <2> QED
    BY <2>2, <2>3
<1>5. CASE RecordsVersion(p) \/ BeginsBootstrap(p) \/ CommitsBootstrap(p)
  BY <1>5 DEF RecordsVersion, BeginsBootstrap, CommitsBootstrap
<1>6. CASE FastChecks(p) \/ WalIsLocked(p) \/ BusyTimeout(p) \/ StatementError(p)
           \/ Crash(p)
  BY <1>6 DEF FastChecks, WalIsLocked, BusyTimeout, StatementError, Crash, Fails,
     TakesSlowPath
<1> QED
  BY <1>1, <1>2, <1>3, <1>4, <1>5, <1>6 DEF Statement

\* It leaves what the others know true.
LEMMA OthersKnow ==
  ASSUME Inv, NEW p \in Proc, Grows, Place(p), NEW q \in Proc \ {p}
  PROVE  Knows(q)'
BY DEF Inv, Grows, Place, Knows

\* The schema is complete whenever the version is recorded.
LEMMA StepRecords ==
  ASSUME Inv, NEW p \in Proc, Grows,
         Statement(p) \/ BusyTimeout(p) \/ StatementError(p) \/ Crash(p)
  PROVE  MigratedMeansComplete'
<1>1. CASE RecordsVersion(p)
  BY <1>1 DEF RecordsVersion, Inv, Knows, MigratedMeansComplete, At
<1>2. CASE ~ RecordsVersion(p)
  <2>1. migrated' = migrated
    BY <1>2 DEF Statement, SlowStarts, FastStarts, Connects, SwitchesToWal,
       EntersWal, CreatesMigrations, ChecksVersion, RunsScript, ChecksBootstrap,
       BeginsBootstrap, CommitsBootstrap, FastChecks, FastCounts, ReaderOpens,
       ReaderReads, WalIsLocked, BusyTimeout, StatementError, Crash, Fails, database
  <2> QED
    BY <2>1 DEF Inv, Grows, MigratedMeansComplete
<1> QED
  BY <1>1, <1>2

LEMMA StepKnows ==
  ASSUME Inv, NEW p \in Proc, Grows, Place(p),
         Statement(p) \/ BusyTimeout(p) \/ StatementError(p) \/ Crash(p)
  PROVE  Knows(p)'
<1> USE DEF Goto, At, Knows, database
<1>0. /\ pc \in [Proc -> Label] /\ at \in [Proc -> 1..Length]
      /\ path \in [Proc -> {"slow", "fast", "reader"}]
      /\ Knows(p) /\ (migrated => tables = Table)
  BY DEF Inv, TypeOK, MigratedMeansComplete
<1>1. CASE SlowStarts(p) \/ FastStarts(p) \/ ReaderOpens(p) \/ ReaderReads(p)
  BY <1>0, <1>1 DEF SlowStarts, FastStarts, ReaderOpens, ReaderReads
<1>2. CASE Connects(p) \/ SwitchesToWal(p) \/ EntersWal(p)
  BY <1>0, <1>2 DEF Connects, SwitchesToWal, EntersWal
<1>3. CASE CreatesMigrations(p) \/ ChecksVersion(p)
  BY <1>0, <1>3 DEF CreatesMigrations, ChecksVersion
<1>4. CASE RunsScript(p)
  <2>1. \A i \in 1..at[p] : Schema[i] \in tables'
    BY <1>0, <1>4 DEF RunsScript, Creates
  <2>2. wal' /\ wal
    BY <1>0, <1>4 DEF RunsScript
  <2>3. CASE at[p] = Length
    <3>1. pc'[p] = "record"
      BY <1>0, <1>4, <2>3 DEF RunsScript
    <3>2. tables' = Table
      BY <1>0, <2>1, <2>3 DEF Grows, Table
    <3> QED
      BY <2>2, <3>1, <3>2
  <2>4. CASE at[p] # Length
    <3>1. pc'[p] = "script" /\ at'[p] = at[p] + 1
      BY <1>0, <1>4, <2>4 DEF RunsScript
    <3>2. \A i \in 1..(at'[p] - 1) : Schema[i] \in tables'
      BY <1>0, <2>1, <3>1
    <3> QED
      BY <2>2, <3>1, <3>2
  <2> QED
    BY <2>3, <2>4
<1>5. CASE RecordsVersion(p) \/ BeginsBootstrap(p) \/ CommitsBootstrap(p)
  BY <1>0, <1>5 DEF RecordsVersion, BeginsBootstrap, CommitsBootstrap
<1>6. CASE ChecksBootstrap(p) \/ FastChecks(p) \/ FastCounts(p)
  <2>1. "events" \in Table
    BY DEF Table, Schema
  <2> QED
    BY <1>0, <1>6, <2>1 DEF ChecksBootstrap, FastChecks, FastCounts, TakesSlowPath
<1>7. CASE WalIsLocked(p) \/ BusyTimeout(p) \/ StatementError(p) \/ Crash(p)
  BY <1>0, <1>7 DEF WalIsLocked, BusyTimeout, StatementError, Crash, Fails, TakesSlowPath
<1> QED
  BY <1>1, <1>2, <1>3, <1>4, <1>5, <1>6, <1>7 DEF Statement

LEMMA StepInv == Inv /\ [Next]_vars => Inv'
<1> SUFFICES ASSUME Inv, [Next]_vars PROVE Inv'
  OBVIOUS
<1>1. CASE UNCHANGED vars
  BY <1>1 DEF vars, database, Inv, TypeOK, MigratedMeansComplete, Knows
<1>2. ASSUME NEW p \in Proc, Step(p) \/ Failure(p)
      PROVE  Inv'
  <2>0. Statement(p) \/ BusyTimeout(p) \/ StatementError(p) \/ Crash(p)
    BY <1>2 DEF Step, Failure
  <2>1. Grows /\ Place(p)
    BY <2>0, StepMoves
  <2>2. MigratedMeansComplete'
    BY <2>0, <2>1, StepRecords
  <2>3. \A q \in Proc : Knows(q)'
    BY <2>0, <2>1, OthersKnow, StepKnows
  <2>4. file' \in BOOLEAN /\ wal' \in BOOLEAN /\ migrated' \in BOOLEAN
        /\ boot' \in BOOLEAN
    BY <2>0 DEF Inv, TypeOK, Statement, SlowStarts, FastStarts, Connects,
       SwitchesToWal, EntersWal, CreatesMigrations, ChecksVersion, RunsScript,
       RecordsVersion, ChecksBootstrap, BeginsBootstrap, CommitsBootstrap,
       FastChecks, FastCounts, ReaderOpens, ReaderReads, WalIsLocked, BusyTimeout,
       StatementError, Crash, Fails, database
  <2>5. hit' \subseteq Proc
    BY <1>2 DEF Inv, TypeOK, Step, Failure
  <2> QED
    BY <2>1, <2>2, <2>3, <2>4, <2>5 DEF Inv, TypeOK, Grows, Place
<1> QED
  BY <1>1, <1>2 DEF Next, Step, Failure

LEMMA Invariant == Spec => []Inv
BY InitInv, StepInv, PTL DEF Spec

\* Every variable keeps its type.
THEOREM TypeCorrect == Spec => []TypeOK
<1>1. Inv => TypeOK
  BY DEF Inv
<1> QED
  BY <1>1, Invariant, PTL

\* The version row certifies the whole schema, for any number of processes that
\* create it at once and die at any statement.
THEOREM VersionCertifiesSchema == Spec => []MigratedMeansComplete
<1>1. Inv => MigratedMeansComplete
  BY DEF Inv
<1> QED
  BY <1>1, Invariant, PTL

\* An open for writing that returns has a complete store in its hands.
THEOREM OpenIsReady == Spec => []OpenMeansReady
<1>1. Inv => OpenMeansReady
  BY DEF Inv, Knows, MigratedMeansComplete, OpenMeansReady
<1> QED
  BY <1>1, Invariant, PTL

\* No writing open and no fast path meets a missing table.
THEOREM WritersNeverBreak == Spec => []WritersFindTables
<1>1. Inv => WritersFindTables
  BY DEF Inv, Knows, WritersFindTables
<1> QED
  BY <1>1, Invariant, PTL
=============================================================================
