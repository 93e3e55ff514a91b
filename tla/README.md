# A formal model of mobius-cli

mobius runs specifications in detached worker processes.  It has no daemon:
every command is a short-lived process, and commands, workers and signal
handlers meet in three kinds of shared state, a SQLite database, PID files and
plain files.  What can go wrong is what happens between two statements of one
process when another one, a signal or a crash comes in between.  This directory
models that in TLA+, checks it with TLC and proves the most important part of
it with TLAPS.

`PROJECT.json` lists components, runs, mutants, the mapping from definitions to
source lines, findings, hazards and theorems.

    tlc -config MCRunDetached.cfg MCRunLifecycle     # one run
    tlapm RunLifecycleProofs.tla                     # one set of proofs

## 1. The system

Paths are relative to `src/src/mobius/`.

| Component | State it keeps | Operations | Talks to |
|---|---|---|---|
| Event store, appends and sessions (`persistence/event_store.py`, fast path in `cli/__init__.py`) | tables `events`, `aggregates`, `sessions`; SQLite's write lock | `append_event`, `create_session`, `end_session`, each in a transaction; the fast path's separate autocommits | everybody |
| Event store, opening (same files) | the file, WAL mode, schema, `schema_migrations`, bootstrap event | connect, migrate, bootstrap; inline bootstrap of the fast path; read-only open | everybody |
| Run launcher and worker (`workflow/run.py`) | session row, events, PID file, the worker's frames | `prepare_run`, `start_detached_worker`, `execute_run`, two signal handlers | store, cancel, status |
| Evolution launcher and worker, evolution loop (`workflow/evolve.py`) | the same, and the history of candidates | `prepare_evolution`, `execute_evolution`, stopping rule | store, cancel, status |
| Cancel (`workflow/cancel.py`) | none of its own | SIGTERM, wait, SIGKILL, wait for the worker's event or synthesize it | PID file, store, worker |
| Stale-session reconciliation (`cli/commands/status.py`, `cli/__init__.py`, `workflow/run.py`; three implementations) | none of its own | remove the PID file of a dead worker, record `crashed` | PID file, store |
| Status follow (`cli/commands/status.py`) | cursor, `saw_session`, `pending_run_files` | poll and print until the session ends | store, reconciliation |
| Status snapshot and store status | none | one read and its formatting | store |
| Acceptance-criteria tree (`workflow/ac_tree.py`) | none; the caller keeps a cursor | build and truncate a tree | store, spec file |
| QA judge (`workflow/qa.py`) | none | six verdicts over row and events | store, spec file |
| Agent integration setup (`cli/commands/setup.py`) | installed files, inventory | install, uninstall | file system |
| Interview (`workflow/interview.py`, `cli/commands/interview.py`) | its session, the specification file | gate, record, write | store, file |
| Workspace init and templates (`cli/commands/init.py`, `workflow/templates.py`) | the specification file | check, write | file |
| Seed specification (`workflow/seed.py`, `cli/commands/seed.py`) | its session | resolve, parse, validate, record | store, file |
| Lineage (`workflow/lineage.py`, `cli/commands/lineage.py`) | none | ancestors and descendants of a session | store |
| Configuration (`config.py`, `cli/commands/config.py`) | `config.json` | load, get, set | file |
| Run listing, command-line surface, output and logging | none the properties tell apart | | |

### What is hard

* **Interleaving.** Two processes allocate the next sequence of one aggregate;
  three kinds of commands find the same dead worker; a cancel, a status and the
  worker act on one PID file, which two processes write; two interviews write
  one file; setups overlap; `config set` reads, changes and replaces a file.
* **Signals.** A handler runs between any two statements of the frame it
  interrupts, opens a connection of its own, and then waits for a lock that
  the interrupted frame holds.  Handlers interrupt handlers.
* **Check, then act.** Nearly every command reads the PID file, the row and the
  log at different times and acts several steps later.
* **Crashes.** Event and status are separate transactions; the fast path's
  statements are; the migrations are; a setup copies file by file.
* **Liveness.** Cancel waits for a worker, followers for a final event,
  writers for a lock.
* **Boundaries.** The ambiguity gate rounds twice, the evolution loop has four
  stopping rules, trees are truncated.
* **Text.**  The specification parser is a hand-written state machine for a
  subset of YAML, fed by three writers and by hand.  Lineage follows links that
  may dangle or form cycles.

### What makes each component correct

* *Store*: an aggregate's log is contiguous and append-only, an acknowledged
  event is durable, repeated calls write once, the index row never runs ahead.
* *Opening*: a recorded version certifies the schema; an opened store is ready;
  concurrent first opens all succeed.
* *Runs and evolutions*: no terminal status without its event, no way back to
  running, handlers record once and have the last word, nobody declares a
  worker crashed that goes on, cancel keeps its promise, everybody ends.
* *Follow, tree, judge*: what is shown is the log, once and in order, and no
  verdict contradicts the log, although row and events are read separately.
* *Setup*: a completed setup repairs whatever it finds; a removal removes what
  is listed and only that.
* *Interview and seed*: the gate decides as exact arithmetic would; a seed is
  made from what its interview wrote; a file is read back as it was meant, and
  no line of a hand-written one is dropped silently.
* *Configuration*: no command meets a torn file, an acknowledged set stays.
* *Lineage*: the same relation seen from either end, listed without repetition.

## 2. Modules

    EventLog       what the store promises             SessionLog   what a session promises
       ^ implemented by                                   ^ implemented by     ^ assumed of "others" by
    EventStore     transactions, lock, fast path       RunLifecycle         Follow, RunReports
    StoreOpen      first opens of the store            SpecFile       what Intake's files say
    Config, Setup  files without a store               Lineage        links between sessions
    Intake         interview, init, seed

**EventLog** is the abstract store: one append-only sequence per aggregate.

**EventStore** is the store at the granularity of SQL statements.  `events`,
`last` and `sessions` are the committed rows; `txEvents`, `txLast`,
`txSessions` the private view of the process that holds the write lock; `pc`
and `op` the statement each process is at and its locals; `acked` remembers
what `append_event` has returned.  `BeginImmediate`, `InsertEvent`,
`UpsertEvent`, `WriteSession`, `Commit`, `Rollback`, `Exit` are the
transactional path; `FastCreate` ... `FastEnd` the five autocommits of the fast
path.  `ImplementsLog` maps the rows of an aggregate, by sequence, to `EventLog`.

**StoreOpen** starts from no file.  Processes of three kinds (the class, the
fast path, a read-only open) run their statements in the order of the code:
WAL switch with its retry, `CREATE TABLE schema_migrations`, version check, one
step per statement of the migration script, version row, bootstrap
transaction.  Faults: a crash, an error, a busy timeout between any two.

**RunLifecycle** is one run or evolution from `start_detached_worker` (or
`--foreground`) to the end, with all commands that act on it.  Launcher, worker
and each command have a program counter; the worker also has a stack
`handlers` of signal-handler frames and `lock`, the frame whose transaction is
open.  `MainX` actions are its main frame, `HandlerX` its handlers, `Unwind` an
exception that leaves every frame and ends in the `finally` clause.  `files` is
the PID file and the temporary file it is written through: what each contains
and what each writer has open.  `OpensTmp`, `WritesTmp` and `RenamesTmp` are the
system calls of `_write_pid`, which the launcher (`LauncherX`) and the worker of
a run (`MainX`) make through one temporary name, with the FileNotFoundError that
ends either of them when the other has renamed it.  `Gone` says how the worker
ended: "killed", "aborted" before it has installed its signal handlers (a load
that fails, or Ctrl-C, which the handler of the command line turns into exit
code 130: `CtrlCAborts`), or "exited" through its `finally` clause.  The
commands are `cancel`, `status` (and follow), `fast` (the fast path) and `qa`
(and ac-tree); they share the steps they share in the code and differ in order
and guards where the code does.  Operators `Candidate`, `Similarity`,
`Oscillates`, `Repeats` compute the evolution's stopping rule.

**SessionLog** is what a session promises to those who watch it: events are
only added, and a status is terminal only with its event.  RunLifecycle is
proved to implement it (`WritersKeepTheSession`), and so is a follower's own
reconciliation (`FollowersKeepTheSession`), which is what lets **Follow** and
**RunReports** take "the others" to be anything SessionLog allows.

**Follow** is `mobius status --follow`: the poll loop with its early returns,
the reconciliation before each poll, both reads, the cursor.

**RunReports** is a poller of `mobius ac-tree` and a judge, `mobius qa`: two
reads each with writers in between, the tree with its groups, deltas, edges and
truncation, and the six verdicts.

**Setup** is installation and removal file by file, over releases with
different files, with a user who edits and deletes them.

**Config** is `mobius config`: every command loads the file, or writes the
default when there is none, and a `set` writes a temporary file of its own and
renames it over the old one.  The histories `after` (who had not ended when a
process started) and `wrote` say which commands overlapped.

**Intake** is `mobius interview`, `mobius init` and `mobius seed`: the gate, the
sessions event by event, the file as truncated, written or garbled, the
existence check of `init`, the resolution of the source, and the validation as
far as an interview's output exercises it.

**SpecFile** is the file itself: the writers (`render_spec` of the templates
and the interview's rendering), the parser's state machine with one operator
per handler of `_YamlState` and a function of how many lines it has handled, and
the validation of what it returns.  **Lineage**
is the two traversals and the printed tree over a table of parent links; the
loop of the one and the recursion of the other are functions of how many
sessions they have listed.  Neither module has a state: MCIntake and MCRunReports
extend them and check them at the start of their runs against what their callers
rely on.

The composition is by interface: EventStore shows that an operation on the
store behaves as one step, so the other modules take it as one (RunLifecycle
takes the worker's own as begin and commit, because signals fall in between);
RunLifecycle shows what a session does, so Follow and RunReports take that.

### Abstractions

* Ids, payloads, timestamps and hashes of events are left out where no property
  tells them apart; in Follow and RunReports a sequence is a position, which
  `ContiguousLog` justifies.
* Opening an existing store takes no write lock, so it is no step in
  RunLifecycle; StoreOpen covers the first open.
* In RunLifecycle a PID file with a number always names the worker: reuse of
  PIDs and zombies are left out.  `chmod` and `replace` of the temporary file are
  one step, since both fail for the same reason.  The foreground evolution's
  `_write_pid` is one step (`ForegroundWritesPid`): nobody else writes its PID, so
  that the renaming is the only system call whose effect others can see.
* In Follow, `MarkFindsPid` is the check, the reading and the removal of the PID
  file in one step; what others do in between is RunLifecycle's subject.
* A SIGTERM handler that is blocked by its own interrupted frame ends when the
  busy timeout does; time itself is not modelled, so the grace period of cancel
  may end at any moment.
* `wal_checkpoint(PASSIVE)` changes nothing a statement can see.
* Setup leaves out dry runs, directories and temporary files.
* Intake: a text is none, vague, clear or several lines; prompts, fixtures and
  flags only choose the answers, which are a constant.
* SpecFile: a line is its indentation and what the parser looks for in it; a
  text is what quoting and the parser tell apart (whether it has a colon, a
  quote, a newline).  JSON, blank lines and comments are left out, and metadata
  is validated but not kept.
* Lineage: a table is a function from sessions to parents.  The commands
  themselves only link evolutions to runs; longer chains, dangling links and
  cycles come through the store's interface, which accepts any metadata.
* Config: names, permissions and formatting of the files are left out; so is
  the store that a load opens first.

## 3. What is checked

Every property has a mutant: a definition that models code, changed as a
plausible bug would change it, which makes TLC find the property violated in
the same run.  The type invariants, which are all theorems, are left to the proofs, except
where a run checks one because it also bounds counts (`run_reports`, `setup`,
`intake`).

| Run | Instance | Shows |
|---|---|---|
| `store` | 3 processes, 1 aggregate, 2 ids of the store's and 1 of callers, who may choose sequence 1 | AckedIsDurable, RetryWritesOnce, AppendRepairsIndex, ImplementsLog |
| `run_detached` | detached run, 2 commands (cancel, fast path, qa) that may die; kill, exception, launcher death, invalid spec; handlers nested twice | StatusBackedByEvent, WorkerCancelsOnce, CancelKeepsPromise, CancelsBounded, NoFalseCrash |
| `evolution_foreground` | 5 generations asked for, 2 commands (cancel, status); Ctrl-C, stray SIGTERM, exceptions, kill | PidRemovedOnExit, WorkerStory, HandlerSpeaksLast, KeepsTheSession |
| `run_ends` | detached run, 2 commands (cancel, fast path), no faults; fair | EverybodyEnds, EventuallyTerminal |
| `store_open` | 3 processes of any kind, all faults; fair | MigratedMeansComplete, WritersFindTables; EveryOpenSucceeds |
| `follow` | 2 followers, 2 events of others; fair | PrintsTheLog, ShowsTheOutcome, KeepsTheSession; FollowersEnd |
| `run_reports` | 3 events, with and without a spec, bounds on and off; all tables of 4 sessions | OutputIsTree, PollerSeesAll, VerdictsAgree; LineageIsSymmetric, TreeShowsParents |
| `setup` | 2 commands, 3 releases of one or two files, 2 targets | SetupTakesEffect, NothingForgotten, RemovalIsSelective |
| `intake` | 2 interviews, 1 seed, 1 init, 2 files, 5 answers; gate over lists of up to 12 items; documents of up to 2 steps and 2 axes | GateIsExact, SeedsWhatWasAsked; SpecsRoundTrip, AcceptedLinesAreKept |
| `config` | 3 commands, 2 keys, 2 values, deaths | NoCommandFails, SetsSurvive, SetsAreSeen |
| `cancel_ignored` | violation | HandledMeansEnded |
| `pid_file` | violation | MarkedOnlyIfDead |

### Bounds, and why they are enough

* *Three processes on one aggregate*: a conflict has two parties, and the third
  acts between them; aggregates share nothing but the lock and the primary key.
* *Two commands*: every race the code comments on is between a command and the
  worker or between two commands.  `evolution_foreground` has `status` among
  them, which reconciles like `qa`.  *Two nested handlers*: the second interrupts
  the first at each of its steps.  In `run_detached` the SIGTERMs come
  from two cancels, which may die once they have sent theirs; stray ones are left
  to `evolution_foreground`, since they multiply with the steps of every command.
  `Beats` = 1 for runs (each heartbeat is the same step); 5 for evolutions, so that
  the fourth generation is seen to be the last.
* *Follow*: two events suffice for skipping and repeating; a third, `crashed`,
  comes from the followers themselves.  Two event types suffice: an event is
  recorded before the row ends, and until then a terminal one is to a follower
  what any other event is.
* *Reports*: a bound of 7 nodes truncates a large tree before, and a small one
  among, the event nodes of a log of three; 0 is no bound.
* *Lineage* (`MaxSessions`): four sessions have cycles with and without a tail that leads into
  them, forks below a fork, and dangling links at every distance.
* *Setup*: releases that share, add and drop a file.
* *Intake*: lists of up to twelve items cover every fraction the gate meets
  there.  Beyond that the property is no longer true: with 4 vague of 7 and 3
  vague of 13 items a brownfield score of 0.2005 is rounded to 0.2 and passes.
  A seed reads once, and what counts is whether another writer came in between:
  two interviews and an `init` are such writers.
* *SpecFile*: the parser remembers one pending item and one open section, so two
  items per list, two steps and two axes reach every pair of handlers; the
  hand-written files are a top-level key and any three lines below it.
* *Config*: a lost update has two parties, and a third command sees the outcome.

Counters are bounded by `MaxEvents`, `Beats`, `MaxDepth`, `MaxItems` and the
size of `Uuid`.  Deadlock is not checked in RunLifecycle, StoreOpen, Follow,
RunReports, Intake and Config, where everything comes to an end and stops.

### Fairness

* `RunLifecycle!FairSpec`: weak fairness of the launcher, of the worker and of
  each command that has been issued, with signals only from `cancel`.  They are operating-system processes that
  are runnable whenever their step is enabled; a blocked handler and the writes
  behind it end because SQLite's busy timeout does.  No fault is fair, and no
  command has to be issued.
* `StoreOpen!FairSpec`: weak fairness of each process's steps.  The lock need
  not be granted: the busy timeout ends the wait.
* `Follow!FairSpec`: weak fairness of each follower's poll loop only.  The
  others may stop forever.

### What the violations show

* `cancel_ignored`.  The SIGTERM handler interrupts `append_event` inside its
  transaction and waits for the lock its own process holds; the busy timeout
  raises, the worker exits, and neither event nor status is written, although
  the handler's docstring makes the worker the authority on `run.cancelled`.
* `pid_file`.  Launcher and worker write the PID file through one temporary
  file.  One of them opens, and so empties, what the other has written and is
  about to rename into place; `mobius status` finds no number in the PID file,
  takes that for a dead worker and goes on to mark the living one crashed, which
  `docs/architecture.md` reserves for dead processes.  In other orders one of the
  two dies of a FileNotFoundError at `chmod` or `replace`; when it is the worker,
  its session stays running.  `files.shared` remembers that the two have met.
  Once they have, NoFalseCrash no longer forbids a crash that is not true, and
  EventuallyTerminal a worker that exits before its first progress event; as long
  as they have not, both hold without that exception.

Other places where the code does not do what its documentation says were met
while modelling; no run states them, because the properties above already say
what holds there:

* `append_event` with `event_id` but no `sequence`, repeated, commits a bump of
  the aggregates row and then raises (`event_store.py:271` calls it idempotent).
* `cancel` between `create_session` and `_write_pid` finds no PID file and
  records the event while the worker lives (`cancel.py:9-11`); the worker then
  completes.  A second `cancel` finds the session finished and removes the PID
  file of the worker that goes on (`cancel.py:49-50`), and `mobius qa`, if it was
  just about to read that file, records a crash: hence the excuse in NoFalseCrash.  A cancel and a SIGTERM from elsewhere can leave two cancelled
  events (`cancel.py:13-14`).
* `mobius evolve --foreground` writes its PID file (`evolve.py:124`) before it
  installs its signal handlers.  A Ctrl-C in between (`CtrlCAborts`) runs the
  handler of the command line, which exits with 130 from outside of the `try`, and
  the PID file stays, although `docs/cli-reference.md:22` calls that code a clean
  shutdown.  PidRemovedOnExit is therefore about a worker that has reached its
  `try`.
* The launcher's late `_write_pid` can recreate the PID file of a worker that
  has already exited (`docs/architecture.md:47-48`).  The file also stays when the
  metadata of an evolution do not load (the worker ends with a traceback), and
  when one handler blocks another that has interrupted it inside `finally`.  A
  launcher that dies, or a specification that no longer loads, leaves a session
  that runs forever; EventuallyTerminal is checked without these faults.
* A read-only open of a store that is being migrated succeeds and then fails on
  a missing table.
* A tree that was truncated hands out the latest cursor: what it omitted is
  never shown.
* The evolution's reason "converged" cannot occur; every evolution ends with
  its fourth generation at the latest, whatever `--generations` says.
* Two overlapping `config set` commands can lose one of the two changes, and a
  first reader of a new home can overwrite an acknowledged set with the default.
  SetsSurvive and SetsAreSeen excuse commands that overlap, and only those.
* A brownfield interview without a context scores exactly 0.2, which passes the
  gate; `mobius seed` refuses the specification it writes, which the interview
  promises to be valid (`interview.py:3-4`, `seed.py:140-141`).
* The gate is exact for lists of up to twelve items (see Bounds).
* A foreground evolution that is killed between `_write_pid` (`evolve.py:124`)
  and `create_session` is reconciled into a session without its source run,
  which the lineage of that run does not show.
* The metadata of a seed session, `source_session_id`, is not a key that lineage
  looks for: interviews and seeds are never linked.
* The parser keeps escapes (`\"` comes back as two characters); an unquoted item
  `- Use: X` becomes a mapping, whose text is a Python dict; duplicate keys, and
  a block below a key with a value, replace silently; "indented deeper"
  (`seed.py:410`) is not checked, and a mapping below a subkey is flattened.
  Cyclic `depends_on` is accepted.

## 4. What is proved

For every value of the constants that satisfies the named assumptions
(`ConstantsOK` of each module, `ReleasesOK` of Setup, `SessionsOK` of
MCRunReports), with no axioms.

| Module | Theorem | States |
|---|---|---|
| EventStoreProofs | TypeCorrect | `[]TypeOK` |
| | LogIsAppendOnly, AppendsAreDurable | AppendOnly, `[]AckedIsDurable` |
| | LogIsContiguous | `[]ContiguousLog`, if callers choose no sequence but 1 |
| | RetriesWriteOnce, IndexNeverDecreases | `[]RetryWritesOnce`, IndexMonotone |
| | AppendsRepairTheIndex | AppendRepairsIndex, if callers choose no sequence but 1 |
| | StoreImplementsLog | ImplementsLog, if callers choose no sequence but 1 |
| RunLifecycleProofs | TypeCorrect | `[]TypeOK` |
| | StatusIsBacked, CancelDelivers | `[]StatusBackedByEvent`, `[]CancelKeepsPromise` |
| | TerminalStates, WritersKeepTheSession | TerminalForever, KeepsTheSession |
| | HandlersHaveTheLastWord, OutcomesOnce | `[]HandlerSpeaksLast`, `[]WorkerCancelsOnce` |
| | CrashesAreTrue | `[]NoFalseCrash` |
| | LoneCrashesAreTrue | `[](NoFalseCrash /\ ~Shared)` of an evolution, and of anything in the foreground |
| | ForegroundRemovesPid | `[]PidRemovedOnExit`, in the foreground, with no handler on top of another |
| | TheStoryIsTold | `[]WorkerStory` |
| | CancelsAreCounted | `[]CancelsBounded`, if no SIGTERM comes from elsewhere |
| StoreOpenProofs | TypeCorrect, VersionCertifiesSchema, OpenIsReady, WritersNeverBreak | TypeOK, MigratedMeansComplete, OpenMeansReady, WritersFindTables |
| FollowProofs | TypeCorrect, FollowersPrintTheLog, OutcomeIsShown | the three invariants |
| | FollowersKeepTheSession | KeepsTheSession |
| ConfigProofs | ConfigTypeCorrect, NoTornConfig | `[]TypeOK`, `[]NoCommandFails` |
| | AcknowledgedSetsSurvive, AcknowledgedSetsAreSeen | `[]SetsSurvive`, `[]SetsAreSeen` |
| SetupProofs | SetupTypeCorrect, CommandsTakeEffect | `[]TypeOK`, `[]SetupTakesEffect` |
| | RemovalsAreSelective, EverythingIsListed | RemovalIsSelective, `[]NothingForgotten` |
| RunReportsProofs | ReportsTypeCorrect, TheVerdictsAgree | `[]TypeOK`, `[]VerdictsAgree` |
| | EveryOutputIsTree, PollersMissNothing | `[]OutputIsTree`, `[]PollerSeesAll` |
| | AnyLineageIsSymmetric, LineageSymmetric | IsSymmetric of every table; `[]LineageIsSymmetric` |
| | AnyTreeShowsParents, TreesShowParents | ShowsParents of every table; `[]TreeShowsParents` |
| IntakeProofs | IntakeTypeCorrect, SeedsAreAsAsked | `[]TypeOK`, `[]SeedsWhatWasAsked` |
| | GateDecidesExactly | `[]GateIsExact`, with lists of at most twelve items |
| | GateIsNearlyExact | lists of any length: nothing refused up to 0.2, nothing passed above 0.201 |
| | AnyFileKeepsItsTexts | KeepsTexts of a file of any length, with any keys, texts and indentation |
| | LinesAreKept | `[]AcceptedLinesAreKept` |

The code's only caller-chosen sequence is 1, of the bootstrap event; a caller
who chose another could leave a gap.

### The arguments

**EventStore.**  `IInv` is the type invariant with what the lock implies: only
its holder is inside a transaction, its view differs from the committed rows by
its own insert and upsert.  Durability follows from `EventsGrow` (no step
removes a row).  Contiguity needs `LogInv`: the view's sequences are an
interval 1..n whenever the committed ones are, because the next sequence is
computed from the same view, under the lock (`AddNextRow`), and a fast insert at
a stale position meets the unique index.  The refinement maps a step that
commits a row to `EventLog!Record` (`StepAddsOneRow`, `AddingARowRecords`) and
every other to a stutter.  For AppendsRepairTheIndex the invariant `RepairInv`
bounds what repeated calls and half-finished fast paths leave behind: the index
row is at most one ahead of the log, and whoever is in a transaction or between
the statements of the fast path knows by how much.

**RunLifecycle.**  StatusBackedByEvent is not inductive: the status is written
one transaction after the event by the worker's main frame, by each nested
handler and by each command.  `StatusInv` adds that whoever is about to end the
session has recorded its event: `MainEnder`, `HandlerEnder` for every frame of
the stack, `CommandsOK` for every command.  `LogStep` (a step appends at most
one event) and `RecordedStays` carry these over everybody else's steps.
TypeCorrect needs `BeatsOK`, which ties the count of beats to the place of the
main frame.  The refinement to SessionLog needs `OneTableAtATime`: no step
changes both log and row.

**The worker.**  The last word needs that a main frame which has been interrupted
stays so until it is in its `finally` (`InterruptedStays`).  That an outcome is
recorded once needs `OnceInv`: what the innermost handler is about to append no
handler has appended, although the check and the append are two steps; a nested
handler may append it in between, but then the exception that ends it ends the
frames below, which never find out (`DecidesToAppend`).  NoFalseCrash is about
many steps of a command: `KnowsOver` says what it may conclude at each of them (a
PID file that it has seen and that is gone had a worker that is over; who removes
the file, or records a crash, knows the worker to be over), `Over` is stable
(`OverStays`) and the PID file disappears only when it holds (`PidGone`).
`Over` includes that the two writes of the PID file have met, and `FilesInv` says
what holds as long as they have not: whoever is in `_write_pid` finds its own
temporary file, filled by the time it is renamed, so that the PID file is never
empty.  LoneCrashesAreTrue adds that only the launcher of a detached session and
the worker of a detached run can meet: in an evolution the worker does not write,
and in the foreground there is no launcher (`LoneInv`), so that nothing has to be
excused there but a session that counts as cancelled.
ForegroundRemovesPid rests on the lock: a lone handler can be blocked by the main
frame's transaction only, hence not once `finally` has been reached.  It is
about "exited", the end of a worker that has installed its handlers; one that
is "aborted" before may leave the file (section 3).

WorkerStory is about the main frame's events among everybody's.  `PlaceInStory`
ties how many of them there are (`Told`) to where the main frame is, and an
evolution's generations to its stopping rule: `StopsInTime` evaluates the rule
for every generation and shows that the fourth is never followed by a fifth.
CancelsBounded compares two cardinalities, so the proof maps every cancelled
event to a cancel command, no two to the same (`FS_Injection`).  A command's own
event goes to that command.  The handlers' event, of which OutcomesOnce says
there is one, goes to a cancel that has recorded nothing (`Silent`) and never
will (`Spent`): whoever has sent a signal waits for the worker, or dies, and when
it goes on it finds the handlers' event before it would record one.  The hypothesis that
SIGTERM is no fault of the environment (`"term" \notin Faults`) is the property's
own: a stray signal is recorded as a cancel that nobody has issued.

**StoreOpen.**  The inductive invariant is TypeOK, MigratedMeansComplete and
`Knows(p)`: what a process may conclude from where it is, e.g. that the first
n objects of the script exist when it is at position n+1.  Steps only add to the
database (`Grows`), so nobody invalidates what another one knows.

**Follow.**  The invariant is TypeOK, the status's backing, PrintsTheLog,
ShowsTheOutcome and `Knows(f)`: a follower between its two reads that has seen a
terminal row will find the event behind it, since the log already has it.
`PrefixAndRest` says that a printed prefix and what is read behind the cursor
make up the log.

**Config.**  SetsSurvive is about the file, but what a command puts there it has
loaded before; `LoadedSets` says of the memory of every command that is about to
write, or has ended, what SetsAreSeen says of those that have ended: it holds the
value of every earlier acknowledged set that nobody has overtaken.
`AfterIsComplete` says that the history `after` misses nobody, so that a command
that is still running when a set is acknowledged overlaps it.  NoCommandFails
follows from `FilesAreWhole`: only whole files are renamed into place.

**Setup.**  SetupTakesEffect is about the end of a command; `Achieved` says what
one that nobody has disturbed has done so far: the entries it is through with
(`Through`) are in place, or gone, which the next copy or removal leaves as they
are because the paths of a release are distinct (`OtherEntries`).  NothingForgotten
is about all commands: while the history is tidy, installations under way are
all of one release and no removal runs beside them (`OneRelease`), every file of
Mobius is listed or in the plan of one of them (`AnsweredFor`), the entries an
installation is through with hold nothing else of Mobius (`InstallOK`), and those
a removal is through with do not hold what is listed (`RemovalOK`).  Hence the
inventory may be replaced when the one is done and unlinked when the other is.

**RunReports.**  VerdictsAgree is inductive with the status's and the read row's
backing: whatever SessionLog allows the others in between, the log only grows.
The trees are put together from parts, and so is the proof: a `Branch` is a
sequence of nodes of certain kinds, each once, whose parents are the root or
precede them; a group is one (`BranchOfGroup`), two of disjoint kinds are one
(`BranchGrows`), and so are the first nodes of one with the marker behind them
(`MarkedTree`).  Dropping the edges with an end that is dropped leaves the edges
of the nodes that are kept (`TruncatedTree`).  The events of a tree stand together
(`ShapeOfNodes`, `EventsAt`), hence a poll adds those after the cursor, in order
(`PollShowsNew`); PollerSeesAll is inductive with that.

**Intake.**  SeedsWhatWasAsked is about three commands and a file without a lock.
`WrittenBy(i)` says that the file of interview i, as long as it is its own, is
empty while it is open and holds the answers once the completion is recorded.
A seed that was given the session has found that completion (`SoughtBy`), after
which the interview touches neither file nor answers (`FinishedIsDone`,
`FinishedStays`).  That a completed interview is past its writing needs `Counted`,
which ties the number of its events to where it is.

**The gate.**  A component is off by half a thousandth at most (`ThousandthsNear`),
hence the sum of the two that lists contribute by one at most (`SumNear`).  So
rounding may take for the threshold only a sum of two fractions that lies on
it, below it, or within a thousandth above (`GateOnThreshold`).  There is no such
sum strictly above when both denominators are at most twelve (`NothingBetween`):
it would differ from the threshold, a fraction by three or five, by less than
the product of the denominators allows, and the products too large for that
argument are few enough to look at each (`LargeProducts`).  The hypothesis
`MaxItems <= 12` of GateDecidesExactly is what the property needs: section 3
has the answers for which it fails with thirteen.  Where a tie would arise,
with sixteen items or more, GateIsNearlyExact is about ties that are rounded up.

**The parser.**  AcceptedLinesAreKept is about four lines, KeepsTexts about any
file.  `Shape` says that the container the parser is in is there and has the
form its `container_kind` says, and that an item is pending only in a list;
`Has`, that a text is in the result or in the pending item, below keys that
have been given.  A line that is not refused adds its text and loses none
(`Advances`), unless its key has been given or it is the first below a scalar,
which it replaces: one lemma for each way through the handlers
(`TopLevelAdvances` to `PendingFieldAdvances`, `HandleAdvances`).  `Sound` says of every earlier line
what has become of it, and is an invariant of the lines (`LineSound`,
`AlwaysSound`); flushing at the end (`Flushed`) and what the parser puts for a
key with nothing behind it lose nothing either.  The lemmas are over a set W of words,
any set with the empty one, from which keys and texts are taken.

**Lineage.**  The traversals are functions on 0..n of how often their loop has
gone round, or their recursion has listed somebody (`ChainExists` shows that
such a function exists, `WalkSteps` and `VisitSteps` what its values are), and
what holds of them is shown by an invariant of the rounds (`UpTo`).  `WalkedTo`
says that a walk is the line of the links, up to where it leaves the table or
meets itself, and `SomeoneTwice` that it does so within n rounds.  `VisitedTo`
says that everybody is listed once and behind a parent, with nobody less deep in
between (`ListedBelow`), and, which makes that inductive, that only deeper ones
follow a session that has children left.  Then the depth of a session is the
least number of links to where the visit started (`DepthIsDistance`), and
whoever has a line to there is listed (`EverybodyBelow`), so that both lists
agree with the distances of the links, and hence with one another.  The printed
tree is the line upside down followed by the visit (`TreeIs`), where `ListedBelow`
is all that is to be shown.

### Model-checked only

* Liveness under fairness: EverybodyEnds, EventuallyTerminal, EveryOpenSucceeds,
  FollowersEnd.
* SpecsRoundTrip: which lines the writers make of a document, and what the
  validation makes of the values, is a computation over nested lists that would
  need induction over data.

Of the community modules' operators the proofs use no more than their
definitions (`Max`, `Min`, `IsInjective`, `Reverse`, `ToSet`); what the folds
compute is evaluated, not proved.

## 5. Not modelled

* **Run listing** (`mobius runs ls`) is one query and its formatting: it changes
  nothing, and what it reads is the store's.  (Without `--all` it lists runs and
  evolutions only, so that `--runtime seed` finds nothing.)
* **Command-line surface, output, logging**: option parsing, dispatch, exit
  codes and wording; no state the properties tell apart.  The fast paths that
  do touch the store are in EventStore, StoreOpen and RunLifecycle.
* **Parts of modelled components**: readers of the store (`read_events`,
  `replay_hash`), which are single queries; dry runs of setup; prompts and
  fixtures of the interview; the JSON form of a specification, whose parser is
  the library's; the detection of a project's template, which looks for files.
* **Hazards without a property.**  Nothing in the code prevents some of what
  `PROJECT.json` lists, and a property that excused it would say nothing: the
  reuse of a PID (`cancel.py:207`), a read-only open of a store that is being
  migrated (`event_store.py:241`), a cancel before there is a PID file
  (`cancel.py:53`), a launcher that writes it late (`run.py:96`) or never
  (`run.py:75`), a reconciliation that dies after it has removed the PID file
  (`status.py:237`), a file that is edited while a removal checks it
  (`setup.py:291`), overlapping changes of the configuration (`config.py:118`)
  and of a specification (`init.py:43`).  The note of each says what happens.
  So does that of an evolution which ends at once (`evolve.py:124`): its source
  run is lost, or its PID file stays.
