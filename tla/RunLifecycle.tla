---------------------------- MODULE RunLifecycle ----------------------------
(***************************************************************************)
(* The life of one detached run or evolution of mobius: the launcher that  *)
(* creates its session and forks its worker, the worker with its signal    *)
(* handlers, and the commands that other processes issue meanwhile:        *)
(* `mobius cancel`, and the commands that mark a dead worker's session     *)
(* crashed (`mobius status`, its import-free fast path, and `mobius qa` /  *)
(* `mobius ac-tree`).  They share three things: the session row and the    *)
(* event log in the store, and the PID file.                               *)
(*                                                                         *)
(* A store operation of another process is one step here: module           *)
(* EventStore shows that a transaction behaves as one.  An operation of    *)
(* the worker is two, BEGIN IMMEDIATE and COMMIT, because a signal handler *)
(* runs between any two statements of the frame it interrupts and opens a  *)
(* connection of its own, which then waits for the lock that frame holds.  *)
(***************************************************************************)
EXTENDS Naturals, Sequences, FiniteSets

CONSTANTS
  Runtime,     \* "run" or "evolution"
  Detached,    \* FALSE: --foreground, the command itself is the worker
  Beats,       \* progress events of a run; --generations of an evolution
  Clients,     \* commands issued while the session exists
  Roles,       \* what they may be: subset of {"cancel", "status", "fast", "qa"}
  Faults,      \* what the environment may do: subset of FaultKinds
  MaxDepth     \* bound on the handlers nested in one another

FaultKinds ==
  {"kill",       \* SIGKILL, or the machine's out-of-memory killer
   "term",       \* a SIGTERM that does not come from `mobius cancel`
   "int",        \* Ctrl-C on a foreground worker
   "invalid",    \* the spec or the metadata no longer loads in the worker
   "error",      \* an exception in the worker's try block
   "launcher",   \* the launcher dies, or Popen fails
   "client"}     \* a command dies between two of its steps

ASSUME ConstantsOK ==
  /\ Runtime \in {"run", "evolution"}
  /\ Detached \in BOOLEAN
  /\ Beats \in Nat \ {0}
  /\ Roles \subseteq {"cancel", "status", "fast", "qa"}
  /\ Runtime = "evolution" => "qa" \notin Roles  \* qa knows no evolution
  /\ Faults \subseteq FaultKinds
  /\ MaxDepth \in Nat
  /\ {"main", "handler"} \cap Clients = {}

VARIABLES
  log,       \* the session's events: what, and who appended it
  status,    \* sessions.status
  files,     \* the PID file and the temporary file it is written through
  launcher,  \* next step of the launcher
  worker,    \* "absent", "alive", or how it ended: see Gone
  main,      \* next step of the worker's main frame
  beats,     \* progress events appended so far
  handlers,  \* the worker's signal-handler frames, innermost last
  lock,      \* frame of the worker that holds the write lock, 0 if none
  pending,   \* signals sent to the worker and not yet delivered
  handled,   \* a SIGTERM handler has begun to run
  role,      \* what each command is
  pc,        \* next step of each command
  memo       \* what each command remembers between steps

store == <<log, status>>
frames == <<worker, main, beats, handlers, lock>>
signals == <<pending, handled>>
commands == <<role, pc, memo>>
elsewhere == <<launcher, commands>>   \* what no step of the worker touches
vars == <<store, files, frames, signals, elsewhere>>

\* "failed" counts as terminal as well, but nobody writes it.
Terminal == {"completed", "cancelled", "interrupted", "crashed"}

Status == {"none", "running"} \cup Terminal

EventType == {"started", "progress", "completed", "cancelled", "interrupted",
              "crashed"}

\* Steps of the worker's main frame that are transactions on the store.
MainTx == {"create", "started", "progress", "completed", "end"}

\* Steps before the signal handlers are installed.
Unprotected == {"fgpid", "load", "install"}

\* Steps of _write_pid in the worker of a run.
PidStep == {"open", "write", "replace", "chmod"}

MainStep == Unprotected \cup MainTx \cup PidStep \cup {"finally", "exit", "gone"}

\* Launcher and worker both write the worker's PID, through one temporary name.
Writer == {"launcher", "main"}

HasPid == files.pid # "none"

Signals == {"TERM", "INT"}

\* Events and statuses of the two handlers.
Outcome(sig) == IF sig = "TERM" THEN "cancelled" ELSE "interrupted"

Recorded(type) == \E i \in DOMAIN log : log[i].type = type

Frame(sig, step) == [sig |-> sig, step |-> step]

Entry(type, by) == [type |-> type, by |-> by]

\* INSERT OR IGNORE INTO sessions ... 'running'
Created(s) == IF s = "none" THEN "running" ELSE s

\* UPDATE sessions SET status = new
Ended(s, new) == IF s = "none" THEN s ELSE new

Alive == worker = "alive"

Depth == 1 + Len(handlers)

-----------------------------------------------------------------------------
Init ==
  /\ log = <<>>
  /\ status = "none"
  /\ files = [pid |-> "none", tmp |-> "none", shared |-> FALSE,
               fd |-> [w \in Writer |-> "none"]]
  /\ launcher = IF Detached THEN "create" ELSE "done"
  /\ worker = IF Detached THEN "absent" ELSE "alive"
  /\ main = IF Detached \/ Runtime = "run" THEN "load" ELSE "fgpid"
  /\ beats = 0
  /\ handlers = <<>>
  /\ lock = 0
  /\ pending = {}
  /\ handled = FALSE
  /\ role \in [Clients -> Roles]
  /\ pc = [c \in Clients |-> "idle"]
  /\ memo = [c \in Clients |-> 0]

-----------------------------------------------------------------------------
(* _write_pid.  Of the PID file and the temporary file it is kept what they     *)
(* contain, of each writer the name of the file it has open; "shared" remembers *)
(* that a writer has opened the temporary file of the other.                    *)

\* write_text opens the temporary file: one that is there is emptied.
OpensTmp(w) ==
  files' = [files EXCEPT !.tmp = "empty", !.fd[w] = "tmp",
                         !.shared = @ \/ files.tmp # "none"]

\* What it has opened may have been renamed, or removed, since.
WritesTmp(w) ==
  LET Filled(name) == IF files.fd[w] = name THEN "number" ELSE files[name]
  IN files' = [files EXCEPT !.tmp = Filled("tmp"), !.pid = Filled("pid"),
                            !.fd[w] = "none"]

\* chmod and replace both need the temporary file.
RenamesTmp ==
  /\ files.tmp # "none"
  /\ files' = [files EXCEPT !.pid = files.tmp, !.tmp = "none",
                  !.fd = [w \in Writer |-> IF @[w] = "tmp" THEN "pid" ELSE "none"]]

RemovesPid ==
  files' = [files EXCEPT !.pid = "none",
              !.fd = [w \in Writer |-> IF @[w] = "tmp" THEN "tmp" ELSE "none"]]

-----------------------------------------------------------------------------
(* The launcher: start_detached_worker *)

LauncherCreates ==
  /\ launcher = "create"
  /\ lock = 0
  /\ status' = Created(status)
  /\ launcher' = "popen"
  /\ UNCHANGED <<log, files, frames, signals, commands>>

LauncherForks ==
  /\ launcher = "popen"
  /\ worker' = "alive"
  /\ launcher' = "open"
  /\ UNCHANGED <<store, files, main, beats, handlers, lock, signals, commands>>

\* The parent records the PID after the fork, however far the child has got.
LauncherOpensTmp ==
  /\ launcher = "open"
  /\ OpensTmp("launcher")
  /\ launcher' = "write"
  /\ UNCHANGED <<store, frames, signals, commands>>

LauncherWritesTmp ==
  /\ launcher = "write"
  /\ WritesTmp("launcher")
  /\ launcher' = "replace"
  /\ UNCHANGED <<store, frames, signals, commands>>

\* It ends here in any case: without a temporary file, or without a PID file
\* for the last chmod, with FileNotFoundError.
LauncherReplaces ==
  /\ launcher = "replace"
  /\ RenamesTmp \/ (files.tmp = "none" /\ UNCHANGED files)
  /\ launcher' = "done"
  /\ UNCHANGED <<store, frames, signals, commands>>

LauncherDies ==
  /\ "launcher" \in Faults
  /\ launcher # "done"
  /\ launcher' = "done"
  /\ UNCHANGED <<store, files, frames, signals, commands>>

-----------------------------------------------------------------------------
(* The worker's main frame: execute_run, execute_evolution *)

\* The main frame runs only while no handler has interrupted it.
MainAt(step) == Alive /\ handlers = <<>> /\ main = step

\* run_foreground of an evolution records its PID first.  One step: nobody else
\* writes it, so that others see no more of it than the renaming.
ForegroundWritesPid ==
  /\ MainAt("fgpid")
  /\ files' = [files EXCEPT !.pid = "number"]
  /\ main' = "load"
  /\ UNCHANGED <<store, worker, beats, handlers, lock, signals, elsewhere>>

WorkerLoads ==
  /\ MainAt("load")
  /\ main' = "install"
  /\ UNCHANGED <<store, files, worker, beats, handlers, lock, signals, elsewhere>>

\* The process is gone: its frames, its transaction and its signals with it.  It
\* is "killed", or it has ended by itself: "aborted" before its signal handlers
\* were installed, "exited" by way of its `finally` clause.
Gone(how) ==
  /\ worker' = how
  /\ main' = "gone"
  /\ handlers' = <<>>
  /\ lock' = 0
  /\ pending' = {}

\* A spec that fails validation ends a run's worker after it removes the PID
\* file; unreadable metadata ends a worker of either kind with a traceback.
WorkerLoadFails ==
  /\ "invalid" \in Faults
  /\ MainAt("load")
  /\ UNCHANGED files \/ (Runtime = "run" /\ RemovesPid)
  /\ Gone("aborted")
  /\ UNCHANGED <<store, beats, handled, elsewhere>>

WorkerInstallsHandlers ==
  /\ MainAt("install")
  /\ main' = "create"
  /\ UNCHANGED <<store, files, worker, beats, handlers, lock, signals, elsewhere>>

MainBegins ==
  /\ \E step \in MainTx : MainAt(step)
  /\ lock = 0
  /\ lock' = 1
  /\ UNCHANGED <<store, files, worker, main, beats, handlers, signals, elsewhere>>

\* COMMIT of the main frame's current transaction.
MainCommits(step, next) ==
  /\ MainAt(step)
  /\ lock = 1
  /\ lock' = 0
  /\ main' = next
  /\ UNCHANGED <<files, worker, handlers, signals, elsewhere>>

MainCreates ==
  /\ MainCommits("create", "started")
  /\ status' = Created(status)
  /\ UNCHANGED <<log, beats>>

MainStarted ==
  /\ MainCommits("started", IF Runtime = "run" THEN "open" ELSE "progress")
  /\ log' = Append(log, Entry("started", "main"))
  /\ UNCHANGED <<status, beats>>

\* Mutant of Unwind: the exception leaves the innermost handler only.
Resume ==
  /\ handlers' = IF handlers = <<>> THEN <<>> ELSE SubSeq(handlers, 1, Len(handlers) - 1)
  /\ lock' = IF lock = Depth THEN 0 ELSE lock
  /\ UNCHANGED <<worker, main, beats>>

\* An exception leaves every frame: transactions roll back, `finally` follows.
Unwind ==
  /\ main' = IF main \in {"finally", "exit"} THEN "exit" ELSE "finally"
  /\ handlers' = <<>>
  /\ lock' = 0
  /\ UNCHANGED <<worker, beats>>

\* The main frame goes on to its next step.
MainGoes(step) == main' = step /\ UNCHANGED <<worker, beats, handlers, lock>>

\* Only the worker of a run writes its own PID.
MainOpensTmp ==
  /\ MainAt("open")
  /\ OpensTmp("main")
  /\ MainGoes("write")
  /\ UNCHANGED <<store, signals, elsewhere>>

MainWritesTmp ==
  /\ MainAt("write")
  /\ WritesTmp("main")
  /\ MainGoes("replace")
  /\ UNCHANGED <<store, signals, elsewhere>>

\* The launcher may have renamed the temporary file: FileNotFoundError in the
\* `try`, which ends the worker and leaves its session running ...
MainReplaces ==
  /\ MainAt("replace")
  /\ \/ RenamesTmp /\ MainGoes("chmod")
     \/ files.tmp = "none" /\ Unwind /\ UNCHANGED files
  /\ UNCHANGED <<store, signals, elsewhere>>

\* ... and a command may have removed the PID file.
MainChmods ==
  /\ MainAt("chmod")
  /\ IF HasPid THEN MainGoes("progress") ELSE Unwind
  /\ UNCHANGED <<store, files, signals, elsewhere>>

\* The nth generation's candidate: two of them alternate.
Candidate(n) == n % 2

\* Its two questions: 0 is "Which acceptance criterion failed?", the other one
\* names the generation until the third.
Questions(n) == {0, IF n >= 3 THEN 3 ELSE n}

\* In hundredths: name 50, type 30, exact 20; every candidate has one type.
Similarity(n) == IF n > 1 /\ Candidate(n) = Candidate(n - 1) THEN 100 ELSE 30

\* The last four candidates form A/B/A/B.
Oscillates(n) ==
  /\ n >= 4
  /\ Candidate(n - 3) = Candidate(n - 1) /\ Candidate(n - 2) = Candidate(n)
  /\ Candidate(n - 3) # Candidate(n - 2)

\* At least 70% of two questions are those of the generation before.
Repeats(n) ==
  n > 1 /\ 10 * Cardinality(Questions(n) \cap Questions(n - 1)) >= 7 * 2

\* Mutant of LastBeat: the loop is not left.
LastBeatCounted(n) == n = Beats

\* An evolution ends with a generation that resembles the one before, takes
\* part in an oscillation or repeats its questions.
LastBeat(n) ==
  \/ n = Beats
  \/ Runtime = "evolution" /\ (Similarity(n) >= 95 \/ Oscillates(n) \/ Repeats(n))

MainProgress ==
  /\ MainCommits("progress", IF LastBeat(beats + 1) THEN "completed" ELSE "progress")
  /\ log' = Append(log, Entry("progress", "main"))
  /\ beats' = beats + 1
  /\ UNCHANGED status

MainCompleted ==
  /\ MainCommits("completed", "end")
  /\ log' = Append(log, Entry("completed", "main"))
  /\ UNCHANGED <<status, beats>>

MainEnds ==
  /\ MainCommits("end", "finally")
  /\ status' = Ended(status, "completed")
  /\ UNCHANGED <<log, beats>>

\* Mutant of MainFinally: no `finally` clause.
MainNoCleanup ==
  /\ MainAt("finally")
  /\ main' = "exit"
  /\ UNCHANGED <<store, files, worker, beats, handlers, lock, signals, elsewhere>>

\* The `finally` clause.
MainFinally ==
  /\ MainAt("finally")
  /\ RemovesPid
  /\ main' = "exit"
  /\ UNCHANGED <<store, worker, beats, handlers, lock, signals, elsewhere>>

WorkerExits ==
  /\ MainAt("exit")
  /\ Gone("exited")
  /\ UNCHANGED <<store, files, beats, handled, elsewhere>>

MainFails ==
  /\ "error" \in Faults
  /\ \E step \in MainTx \cup PidStep : MainAt(step)
  /\ Unwind
  /\ UNCHANGED <<store, files, signals, elsewhere>>

-----------------------------------------------------------------------------
(* Signals: RunInterrupted, EvolutionInterrupted *)

Signal(sig) ==
  /\ Alive
  /\ pending' = pending \cup {sig}

Interrupt ==
  /\ \/ "term" \in Faults /\ Signal("TERM")
     \/ "int" \in Faults /\ ~ Detached /\ Signal("INT")
  /\ UNCHANGED <<store, files, frames, handled, elsewhere>>

Kill ==
  /\ "kill" \in Faults
  /\ Alive
  /\ Gone("killed")
  /\ UNCHANGED <<store, files, beats, handled, elsewhere>>

\* Before the handlers are installed a SIGTERM kills the process, ...
SignalKills ==
  /\ Alive /\ "TERM" \in pending
  /\ main \in Unprotected
  /\ Gone("killed")
  /\ UNCHANGED <<store, files, beats, handled, elsewhere>>

\* ... while Ctrl-C runs the handler of the command line, which exits with 130
\* from outside of the `try`: the PID file stays.
CtrlCAborts ==
  /\ Alive /\ "INT" \in pending
  /\ main \in Unprotected
  /\ Gone("aborted")
  /\ UNCHANGED <<store, files, beats, handled, elsewhere>>

\* Afterwards it runs its handler on top of whatever frame is executing.
SignalHandled(sig) ==
  /\ Alive /\ sig \in pending
  /\ main \notin Unprotected
  /\ Len(handlers) < MaxDepth
  /\ pending' = pending \ {sig}
  /\ handlers' = Append(handlers, Frame(sig, "read"))
  /\ handled' = (handled \/ sig = "TERM")
  /\ UNCHANGED <<store, files, worker, main, beats, lock, elsewhere>>

\* The innermost handler is the one that executes.
Top == handlers[Len(handlers)]

HandlerAt(step) == Alive /\ handlers # <<>> /\ Top.step = step

HandlerOutcome == Outcome(Top.sig)

HandlerGoto(step) ==
  handlers' = [handlers EXCEPT ![Len(handlers)] = Frame(@.sig, step)]

\* Mutant of HandlerReads: the session is ended, the event forgotten.
HandlerForgets ==
  /\ HandlerAt("read")
  /\ HandlerGoto(IF Recorded(HandlerOutcome) THEN "cleanup" ELSE "end")
  /\ UNCHANGED <<store, files, worker, main, beats, lock, signals, elsewhere>>

\* _finish appends only an event that is not in the log yet.
HandlerReads ==
  /\ HandlerAt("read")
  /\ HandlerGoto(IF Recorded(HandlerOutcome) THEN "cleanup" ELSE "append")
  /\ UNCHANGED <<store, files, worker, main, beats, lock, signals, elsewhere>>

HandlerBegins ==
  /\ HandlerAt("append") \/ HandlerAt("end")
  /\ lock = 0
  /\ lock' = Depth
  /\ UNCHANGED <<store, files, worker, main, beats, handlers, signals, elsewhere>>

HandlerAppends ==
  /\ HandlerAt("append")
  /\ lock = Depth
  /\ lock' = 0
  /\ log' = Append(log, Entry(HandlerOutcome, "handler"))
  /\ HandlerGoto("end")
  /\ UNCHANGED <<status, files, worker, main, beats, signals, elsewhere>>

HandlerEnds ==
  /\ HandlerAt("end")
  /\ lock = Depth
  /\ lock' = 0
  /\ status' = Ended(status, HandlerOutcome)
  /\ HandlerGoto("cleanup")
  /\ UNCHANGED <<log, files, worker, main, beats, signals, elsewhere>>

\* The lock is held by a frame this handler interrupted: it cannot be released
\* while the handler waits, so busy_timeout ends in OperationalError.
Blocked ==
  /\ HandlerAt("append") \/ HandlerAt("end")
  /\ lock \notin {0, Depth}

HandlerTimesOut ==
  /\ Blocked
  /\ Unwind
  /\ UNCHANGED <<store, files, signals, elsewhere>>

\* The PID file is removed and SystemExit raised.
HandlerExits ==
  /\ HandlerAt("cleanup")
  /\ RemovesPid
  /\ Unwind
  /\ UNCHANGED <<store, signals, elsewhere>>

-----------------------------------------------------------------------------
(* Commands.  A write of theirs waits until the worker holds no lock. *)

Goto(c, step) == pc' = [pc EXCEPT ![c] = step]

Remember(c, n) == memo' = [memo EXCEPT ![c] = n]

At(c, step) == pc[c] = step

\* Everything but the store, the PID file and a command's own place.
others == <<launcher, frames, handled, role>>

\* cancel_run reads the session; a finished one is only tidied up.
CancelReads(c) ==
  /\ At(c, "idle") /\ role[c] = "cancel"
  /\ Goto(c, CASE status = "none" -> "not_found"
               [] status \in Terminal -> "tidy"
               [] OTHER -> "exists")
  /\ UNCHANGED <<store, files, pending, memo, others>>

\* mark_stale_session_if_needed (status, follow) reads the session first ...
StatusReads(c) ==
  /\ At(c, "idle") /\ role[c] = "status"
  /\ Goto(c, IF status \in Terminal THEN "exists_done" ELSE "exists")
  /\ UNCHANGED <<store, files, pending, memo, others>>

\* ... mark_stale_run_if_needed (qa, ac-tree) never does ...
QaStarts(c) ==
  /\ At(c, "idle") /\ role[c] = "qa"
  /\ Goto(c, "exists")
  /\ UNCHANGED <<store, files, pending, memo, others>>

\* ... and the fast path does so after it has seen the PID file.
FastStarts(c) ==
  /\ At(c, "idle") /\ role[c] = "fast"
  /\ Goto(c, IF HasPid THEN "fast_read" ELSE "done")
  /\ UNCHANGED <<store, files, pending, memo, others>>

FastReads(c) ==
  /\ At(c, "fast_read")
  /\ Goto(c, IF status \in Terminal THEN "tidy" ELSE "readpid")
  /\ Remember(c, IF status = "none" THEN 1 ELSE 0)
  /\ UNCHANGED <<store, files, pending, others>>

\* A session seen in a terminal state: its PID file is removed, nothing else.
Tidy(c) ==
  /\ At(c, "tidy")
  /\ RemovesPid
  /\ Goto(c, IF role[c] = "cancel" THEN "already_finished" ELSE "done")
  /\ UNCHANGED <<store, pending, memo, others>>

\* pid_file.exists()
LooksForPid(c) ==
  /\ At(c, "exists") \/ At(c, "exists_done")
  /\ Goto(c, IF ~ HasPid THEN IF role[c] = "cancel" THEN "has" ELSE "done"
             ELSE IF At(c, "exists") THEN "readpid" ELSE "tidy")
  /\ UNCHANGED <<store, files, pending, memo, others>>

\* Mutant of ReadsPid: the PID file is stale whenever it exists.
ReadsNoPid(c) ==
  /\ At(c, "readpid")
  /\ Goto(c, "clean")
  /\ UNCHANGED <<store, files, pending, memo, others>>

\* _read_pid and _pid_is_live: the file may have gone or be empty, the process
\* may be dead.
ReadsPid(c) ==
  /\ At(c, "readpid")
  /\ Goto(c, IF ~ (files.pid = "number" /\ Alive) THEN "clean"
             ELSE IF role[c] = "cancel" THEN "term" ELSE "done")
  /\ UNCHANGED <<store, files, pending, memo, others>>

\* _terminate_process; a worker that is gone by now counts as terminated.
CancelSignals(c) ==
  /\ At(c, "term")
  /\ IF Alive THEN Signal("TERM") /\ Goto(c, "wait") /\ UNCHANGED memo
     ELSE Goto(c, "clean") /\ Remember(c, 1) /\ UNCHANGED pending
  /\ UNCHANGED <<store, files, others>>

\* The worker is gone; only a SIGKILL that comes too late counts as escalated,
\* and then the cancel will not wait for the worker's event.
CancelSeesExit(c) ==
  /\ At(c, "wait")
  /\ ~ Alive
  /\ Goto(c, "clean")
  /\ \E waits \in {0, 1} : Remember(c, waits)
  /\ UNCHANGED <<store, files, pending, others>>

\* The grace period is over and the worker still there: SIGKILL.
CancelEscalates(c) ==
  /\ At(c, "wait")
  /\ Alive
  /\ Gone("killed")
  /\ Goto(c, "clean")
  /\ UNCHANGED <<store, files, launcher, beats, handled, role, memo>>

\* Mutant of CancelAwaits: no deadline.
CancelAwaitsForever(c) ==
  /\ At(c, "await")
  /\ Recorded("cancelled")
  /\ Goto(c, "ensure")
  /\ UNCHANGED <<store, files, pending, memo, others>>

\* _maybe_emit_cancel: with wait_for_worker it looks for the event for a second.
CancelAwaits(c) ==
  /\ At(c, "await")
  /\ Goto(c, IF Recorded("cancelled") THEN "ensure" ELSE "has")
  /\ UNCHANGED <<store, files, pending, memo, others>>

\* Mutant of CancelLooks: cancel emits its own event in any case.
CancelEmitsAnyway(c) ==
  /\ At(c, "has")
  /\ Goto(c, "create")
  /\ UNCHANGED <<store, files, pending, memo, others>>

CancelLooks(c) ==
  /\ At(c, "has")
  /\ Goto(c, IF Recorded("cancelled") THEN "ensure" ELSE "create")
  /\ UNCHANGED <<store, files, pending, memo, others>>

\* Mutant of CancelEnsures: the event is there, so the status must be.
CancelTrusts(c) ==
  /\ At(c, "ensure")
  /\ Goto(c, "cancelled")
  /\ UNCHANGED <<store, files, pending, memo, others>>

\* _ensure_status_cancelled
CancelEnsures(c) ==
  /\ At(c, "ensure")
  /\ Goto(c, IF status \in {"none", "cancelled"} THEN "cancelled" ELSE "end")
  /\ UNCHANGED <<store, files, pending, memo, others>>

\* _cleanup_pid_file, before anything is recorded.
Clean(c) ==
  /\ At(c, "clean")
  /\ RemovesPid
  /\ Goto(c, CASE role[c] = "cancel" -> IF memo[c] = 1 THEN "await" ELSE "has"
               [] role[c] = "fast" -> IF memo[c] = 1 THEN "create" ELSE "select"
               [] OTHER -> "create")
  /\ UNCHANGED <<store, pending, memo, others>>

\* What a command records: cancelled, or crashed.
Verdict(c) == IF role[c] = "cancel" THEN "cancelled" ELSE "crashed"

CreateSession(c) ==
  /\ At(c, "create")
  /\ lock = 0
  /\ status' = Created(status)
  /\ Goto(c, IF role[c] = "fast" THEN "select" ELSE "append")
  /\ UNCHANGED <<log, files, pending, memo, others>>

AppendEvent(c) ==
  /\ At(c, "append")
  /\ lock = 0
  /\ log' = Append(log, Entry(Verdict(c), c))
  /\ Goto(c, "end")
  /\ UNCHANGED <<status, files, pending, memo, others>>

\* The fast path allocates its sequence outside any transaction ...
FastSelects(c) ==
  /\ At(c, "select")
  /\ Remember(c, Len(log) + 1)
  /\ Goto(c, "insert")
  /\ UNCHANGED <<store, files, pending, others>>

\* ... and dies of IntegrityError when the position is taken by then.
FastInserts(c) ==
  /\ At(c, "insert")
  /\ lock = 0
  /\ IF Len(log) + 1 = memo[c]
     THEN log' = Append(log, Entry(Verdict(c), c)) /\ Goto(c, "end")
     ELSE Goto(c, "failed") /\ UNCHANGED log
  /\ UNCHANGED <<status, files, pending, memo, others>>

EndSession(c) ==
  /\ At(c, "end")
  /\ lock = 0
  /\ status' = Ended(status, Verdict(c))
  /\ Goto(c, IF role[c] = "cancel" THEN "cancelled" ELSE "done")
  /\ UNCHANGED <<log, files, pending, memo, others>>

Finished == {"not_found", "already_finished", "cancelled", "done", "failed"}

\* A write that waits as long as a blocked handler times out with it.
CommandTimesOut(c) ==
  /\ pc[c] \in {"create", "append", "insert", "end"}
  /\ Blocked
  /\ Goto(c, "failed")
  /\ UNCHANGED <<store, files, pending, memo, others>>

CommandDies(c) ==
  /\ "client" \in Faults
  /\ pc[c] \notin Finished \cup {"idle"}
  /\ Goto(c, "failed")
  /\ UNCHANGED <<store, files, pending, memo, others>>

-----------------------------------------------------------------------------
LauncherStep ==
  \/ LauncherCreates \/ LauncherForks
  \/ LauncherOpensTmp \/ LauncherWritesTmp \/ LauncherReplaces

MainSteps ==
  \/ ForegroundWritesPid \/ WorkerLoads \/ WorkerInstallsHandlers
  \/ MainBegins \/ MainCreates \/ MainStarted
  \/ MainOpensTmp \/ MainWritesTmp \/ MainReplaces \/ MainChmods
  \/ MainProgress \/ MainCompleted \/ MainEnds \/ MainFinally \/ WorkerExits

HandlerStep ==
  \/ HandlerReads \/ HandlerBegins \/ HandlerAppends \/ HandlerEnds
  \/ HandlerTimesOut \/ HandlerExits

Delivery == SignalKills \/ CtrlCAborts \/ \E sig \in Signals : SignalHandled(sig)

WorkerStep == MainSteps \/ HandlerStep \/ Delivery

CommandStarts(c) == CancelReads(c) \/ StatusReads(c) \/ QaStarts(c) \/ FastStarts(c)

CommandStep(c) ==
  \/ FastReads(c) \/ Tidy(c) \/ LooksForPid(c) \/ ReadsPid(c)
  \/ CancelSignals(c) \/ CancelSeesExit(c) \/ CancelEscalates(c)
  \/ CancelAwaits(c) \/ CancelLooks(c) \/ CancelEnsures(c)
  \/ Clean(c) \/ CreateSession(c) \/ AppendEvent(c)
  \/ FastSelects(c) \/ FastInserts(c) \/ EndSession(c)
  \/ CommandTimesOut(c)

Environment ==
  \/ WorkerLoadFails \/ MainFails \/ Interrupt \/ Kill \/ LauncherDies
  \/ \E c \in Clients : CommandDies(c)

Next ==
  \/ LauncherStep
  \/ WorkerStep
  \/ \E c \in Clients : CommandStarts(c) \/ CommandStep(c)
  \/ Environment

Spec == Init /\ [][Next]_vars

\* The operating system runs the launcher, the worker and every command that
\* has been issued; nobody has to issue one, and no fault has to happen.
FairSpec ==
  /\ Spec
  /\ WF_vars(LauncherStep)
  /\ WF_vars(WorkerStep)
  /\ \A c \in Clients : WF_vars(CommandStep(c))

-----------------------------------------------------------------------------
(* Properties *)

Label == {"idle", "exists", "exists_done", "fast_read", "tidy", "readpid",
          "term", "wait", "clean", "await", "has", "ensure", "create",
          "append", "select", "insert", "end"} \cup Finished

Event == [type : EventType, by : Clients \cup {"main", "handler"}]

HandlerFrame == [sig : Signals, step : {"read", "append", "end", "cleanup"}]

Content == {"none", "empty", "number"}

PidFiles == [pid : Content, tmp : Content, shared : BOOLEAN,
             fd : [Writer -> {"none", "tmp", "pid"}]]

\* Every variable has its type.
TypeOK ==
  /\ log \in Seq(Event)
  /\ status \in Status
  /\ files \in PidFiles
  /\ launcher \in {"create", "popen", "open", "write", "replace", "done"}
  /\ worker \in {"absent", "alive", "aborted", "exited", "killed"}
  /\ main \in MainStep
  /\ beats \in 0..Beats
  /\ handlers \in Seq(HandlerFrame) /\ Len(handlers) <= MaxDepth
  /\ lock \in Nat /\ lock <= Depth
  /\ pending \subseteq Signals
  /\ handled \in BOOLEAN
  /\ role \in [Clients -> Roles]
  /\ pc \in [Clients -> Label]
  /\ memo \in [Clients -> Nat]

\* A session is in a terminal state only if the event that says so is in its
\* log: every writer appends before it ends the session, and they are separate
\* transactions between which anything may happen.
StatusBackedByEvent == status \in Terminal => Recorded(status)

\* A session that has reached a terminal state never runs again, although
\* five places call create_session(status="running") on sessions that exist.
TerminalForever == [][(status \in Terminal) => (status' \in Terminal)]_vars

\* The places of the main frame's events in the log.
Mine == {i \in DOMAIN log : log[i].by = "main"}

\* What the worker's main frame appends when nothing interrupts it.  However
\* many generations are asked for, the fourth is the last of an evolution.
Story ==
  LET last == IF Runtime = "evolution" /\ Beats > 4 THEN 4 ELSE Beats
  IN <<"started">> \o [i \in 1..last |-> "progress"] \o <<"completed">>

\* Whatever interrupts it, the main frame records a prefix of that story, and
\* a session is completed only when the story is.
WorkerStory ==
  /\ \A i \in Mine :
       LET n == Cardinality({j \in Mine : j <= i})
       IN n <= Len(Story) /\ log[i].type = Story[n]
  /\ status = "completed" => Cardinality(Mine) = Len(Story)

\* A signal handler has the last word: nothing the worker's main frame appends
\* follows an event of its handlers, for no interrupted frame ever continues.
HandlerSpeaksLast ==
  \A i, j \in DOMAIN log :
    log[i].by = "handler" /\ log[j].by = "main" => j < i

\* However many signals arrive, and however their handlers interrupt one
\* another, the worker appends each outcome once ("second SIGTERM ... do not
\* append a duplicate", RunInterrupted._finish).
WorkerCancelsOnce ==
  \A i, j \in DOMAIN log :
    log[i].by = "handler" /\ log[j].by = "handler" /\ log[i].type = log[j].type
      => i = j

\* A cancel that reports success has left the event and a terminal status
\* behind, whoever wrote them.
CancelKeepsPromise ==
  \A c \in Clients :
    pc[c] = "cancelled" => Recorded("cancelled") /\ status \in Terminal

\* With no SIGTERM but that of `mobius cancel`, there are at most as many
\* cancelled events as cancel commands: the worker's handler and the commands
\* never both record the same request.
CancelsBounded ==
  Cardinality({i \in DOMAIN log : log[i].type = "cancelled"})
    <= Cardinality({c \in Clients : role[c] = "cancel" /\ pc[c] # "idle"})

\* The worker has ended, or is past the last thing it records.
Ending ==
  \/ worker # "alive"
  \/ main \in {"finally", "exit"}
  \/ \E i \in DOMAIN handlers : handlers[i].step = "cleanup"

\* The two writes of a detached run's PID file have met: the second has emptied
\* the temporary file of the first, who may rename it before it is filled again.
Shared == files.shared

\* No command declares a worker crashed that is still going to record progress
\* or its completion, although the check of the PID file and the verdict are many
\* steps apart.  Two exceptions: the session counts as cancelled already, as it
\* does when a cancel came before the PID file did (the worker goes on, but its
\* PID file may be tidied up); and the two writes of a detached run's PID file
\* met, so that a command found it empty (see MarkedOnlyIfDead).
NoFalseCrash == Recorded("crashed") => Ending \/ Recorded("cancelled") \/ Shared

\* What docs/architecture.md says of `mobius status`: it takes a session for
\* crashed when the PID file points at a dead process.
MarkedOnlyIfDead ==
  \A c \in Clients : role[c] # "cancel" /\ pc[c] = "clean" => ~ Alive

\* A worker that has reached its `try` and ends by itself, or by its handlers,
\* leaves no PID file behind, whatever interrupts it on the way.  Two things can
\* leave the file of such a worker: the launcher writes it late, or one handler
\* blocks another inside `finally`.  A worker that ends before its handlers are
\* installed is not meant: it leaves the file if a signal or unreadable metadata
\* of an evolution end it.
PidRemovedOnExit == worker = "exited" => ~ HasPid

\* The worker is the authority on the cancellation it handles: when it exits
\* after a SIGTERM handler has run, the session has ended.
HandledMeansEnded == worker = "exited" /\ handled => status \in Terminal

\* Nobody hangs: every command that has been issued ends and so does the
\* worker, although cancel waits for the worker, writers for its lock, and a
\* handler of its for the lock of the frame it interrupted.
EverybodyEnds ==
  /\ worker = "alive" ~> worker # "alive"
  /\ \A c \in Clients :
       pc[c] \notin Finished \cup {"idle"} ~> pc[c] \in Finished

\* What those who watch a session are promised, whoever writes it: see Follow.
Types(events) == [i \in DOMAIN events |-> events[i].type]

Session == INSTANCE SessionLog WITH log <- Types(log), Type <- EventType

\* The writers of a session together keep that promise.
KeepsTheSession == Session!Spec

\* With no fault but concurrent commands, every session reaches a terminal
\* state: a handler blocked by the frame it has interrupted is killed by the
\* cancel that waits for it, which then records the outcome itself.  Only a worker
\* that finds the temporary file of its PID file gone, because the launcher has
\* renamed the file both have opened, ends before its first progress event and
\* leaves its session running.
EventuallyTerminal ==
  <>(status \in Terminal \/ (Shared /\ worker = "exited" /\ beats = 0))
=============================================================================
