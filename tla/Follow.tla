------------------------------- MODULE Follow -------------------------------
(***************************************************************************)
(* `mobius status <id> --follow` (cli/commands/status.py): followers that  *)
(* poll the store and print what is new, while the session is written by   *)
(* others.  What the others do is all that module SessionLog allows, which *)
(* RunLifecycle implements.  A follower that is not read-only reconciles   *)
(* the session with a stale PID file before each poll, as RunLifecycle     *)
(* models it in detail.                                                    *)
(***************************************************************************)
EXTENDS Naturals, Sequences

CONSTANTS
  Follower,    \* processes that follow the session
  Type,        \* event types
  Terminal,    \* terminal statuses, each the type of its event
  Crashed,     \* what the reconciliation records
  MaxEvents    \* bound on the events others record

ASSUME ConstantsOK ==
  /\ Terminal \subseteq Type
  /\ Crashed \in Terminal
  /\ {"none", "running"} \cap Type = {}
  /\ MaxEvents \in Nat

VARIABLES
  log,       \* the types of the session's events, in order of sequence
  status,    \* sessions.status
  stale,     \* the PID file names a dead process
  died,      \* the worker has ended
  lost,      \* another command has removed its PID file, and may die itself
  files,     \* the session's directory has its metadata
  readOnly,  \* followers with --read-only
  pc,        \* next statement of each follower
  pending,   \* pending_run_files
  saw,       \* saw_session
  row,       \* the status of the session when it last read it
  cursor,    \* the last sequence it has printed
  printed    \* what it has printed

Session == INSTANCE SessionLog

session == <<log, status>>
others == <<stale, died, lost, files>>
progress == <<pending, saw, row, cursor, printed>>
vars == <<session, others, readOnly, pc, progress>>

Recorded(t) == \E i \in DOMAIN log : log[i] = t

Init ==
  /\ Session!Init
  /\ stale = FALSE /\ died = FALSE /\ lost = FALSE /\ files = FALSE
  /\ readOnly \in SUBSET Follower
  /\ pc = [f \in Follower |-> "start"]
  /\ pending = [f \in Follower |-> FALSE]
  /\ saw = [f \in Follower |-> FALSE]
  /\ row = [f \in Follower |-> "none"]
  /\ cursor = [f \in Follower |-> 0]
  /\ printed = [f \in Follower |-> <<>>]

-----------------------------------------------------------------------------
(* The others *)

\* prepare_run writes the metadata before there is a session.
Prepares ==
  /\ ~ files
  /\ files' = TRUE
  /\ UNCHANGED <<session, stale, died, lost, readOnly, pc, progress>>

\* Worker, launcher and commands write the session.
OthersWrite ==
  /\ files /\ Len(log) < MaxEvents
  /\ Session!Next
  /\ UNCHANGED <<others, readOnly, pc, progress>>

\* The worker is killed and leaves its PID file, if it still has one.
WorkerDies ==
  /\ files /\ ~ died
  /\ died' = TRUE /\ stale' \in BOOLEAN
  /\ UNCHANGED <<session, lost, files, readOnly, pc, progress>>

\* Another command removes the stale file before it records anything.
OthersClean ==
  /\ stale
  /\ stale' = FALSE /\ lost' = TRUE
  /\ UNCHANGED <<session, died, files, readOnly, pc, progress>>

-----------------------------------------------------------------------------
(* A follower *)

At(f, step) == pc[f] = step

Goto(f, step) == pc' = [pc EXCEPT ![f] = step]

\* Mutant of Loop: the reconciliation runs before the first poll only.
MarksOnce(f) == IF f \in readOnly \/ saw[f] THEN "session" ELSE "mark"

\* Where an iteration of the loop begins.
Loop(f) == IF f \in readOnly THEN "session" ELSE "mark"

Starts(f) ==
  /\ At(f, "start")
  /\ pending' = [pending EXCEPT ![f] = files]
  /\ Goto(f, Loop(f))
  /\ UNCHANGED <<session, others, readOnly, saw, row, cursor, printed>>

\* mark_stale_session_if_needed reads the session ...
Marks(f) ==
  /\ At(f, "mark")
  /\ row' = [row EXCEPT ![f] = status]
  /\ Goto(f, IF status = "none" /\ ~ files THEN "session" ELSE "pid_file")
  /\ UNCHANGED <<session, others, readOnly, pending, saw, cursor, printed>>

\* ... and then its PID file, which it removes in any case if it is stale.  A
\* file that its worker removes between the check and the read is taken for one.
MarkFindsPid(f) ==
  /\ At(f, "pid_file")
  /\ stale' = FALSE
  /\ IF row[f] \in Terminal THEN Goto(f, "session") /\ UNCHANGED died
     ELSE \/ stale /\ Goto(f, "create") /\ UNCHANGED died
          \/ files /\ ~ died /\ Goto(f, "create") /\ died' = TRUE
          \/ ~ stale /\ Goto(f, "session") /\ UNCHANGED died
  /\ UNCHANGED <<session, lost, files, readOnly, progress>>

\* Mutant of MarkCreates: INSERT OR REPLACE.
MarkReopens(f) ==
  /\ At(f, "create")
  /\ status' = "running"
  /\ Goto(f, "append")
  /\ UNCHANGED <<log, others, readOnly, progress>>

MarkCreates(f) ==
  /\ At(f, "create")
  /\ status' = IF status = "none" THEN "running" ELSE status
  /\ Goto(f, "append")
  /\ UNCHANGED <<log, others, readOnly, progress>>

MarkAppends(f) ==
  /\ At(f, "append")
  /\ log' = Append(log, Crashed)
  /\ Goto(f, "end")
  /\ UNCHANGED <<status, others, readOnly, progress>>

MarkEnds(f) ==
  /\ At(f, "end")
  /\ status' = Crashed
  /\ Goto(f, "session")
  /\ UNCHANGED <<log, others, readOnly, progress>>

\* Mutant of ReadsSession: it stops as soon as it sees a terminal status.
StopsFirst(f) ==
  /\ At(f, "session")
  /\ row' = [row EXCEPT ![f] = status]
  /\ Goto(f, IF status \in Terminal THEN "done"
             ELSE IF status # "none" THEN "events"
             ELSE IF saw[f] \/ ~ pending[f] THEN "not_found" ELSE Loop(f))
  /\ UNCHANGED <<session, others, readOnly, pending, saw, cursor, printed>>

\* _read_run_status: with no row it waits only if there were files to wait for.
ReadsSession(f) ==
  /\ At(f, "session")
  /\ row' = [row EXCEPT ![f] = status]
  /\ Goto(f, IF status # "none" THEN "events"
             ELSE IF saw[f] \/ ~ pending[f] THEN "not_found" ELSE Loop(f))
  /\ UNCHANGED <<session, others, readOnly, pending, saw, cursor, printed>>

\* Mutant of After: sequence >= cursor.
From(n) == SubSeq(log, IF n = 0 THEN 1 ELSE n, Len(log))

\* SELECT ... WHERE sequence > cursor ORDER BY sequence
After(n) == SubSeq(log, n + 1, Len(log))

\* The new events are printed; the row read before them says when to stop.
ReadsEvents(f) ==
  /\ At(f, "events")
  /\ saw' = [saw EXCEPT ![f] = TRUE]
  /\ printed' = [printed EXCEPT ![f] = @ \o After(cursor[f])]
  /\ cursor' = [cursor EXCEPT ![f] = Len(log)]
  /\ Goto(f, IF row[f] \in Terminal THEN "done" ELSE Loop(f))
  /\ UNCHANGED <<session, others, readOnly, pending, row>>

-----------------------------------------------------------------------------
FollowerStep(f) ==
  \/ Marks(f) \/ MarkFindsPid(f) \/ MarkCreates(f) \/ MarkAppends(f) \/ MarkEnds(f)
  \/ ReadsSession(f) \/ ReadsEvents(f)

Next ==
  \/ Prepares \/ OthersWrite \/ WorkerDies \/ OthersClean
  \/ \E f \in Follower : Starts(f) \/ FollowerStep(f)

Spec == Init /\ [][Next]_vars

\* The operating system runs the followers; nobody has to write.
FairSpec == Spec /\ \A f \in Follower : WF_vars(FollowerStep(f))

-----------------------------------------------------------------------------
(* Properties *)

Over == {"done", "not_found"}

Label ==
  {"start", "mark", "pid_file", "create", "append", "end", "session", "events"} \cup Over

\* Every variable has its type.
TypeOK ==
  /\ log \in Seq(Type)
  /\ status \in {"none", "running"} \cup Terminal
  /\ stale \in BOOLEAN /\ died \in BOOLEAN /\ lost \in BOOLEAN /\ files \in BOOLEAN
  /\ readOnly \subseteq Follower
  /\ pc \in [Follower -> Label]
  /\ pending \in [Follower -> BOOLEAN]
  /\ saw \in [Follower -> BOOLEAN]
  /\ row \in [Follower -> {"none", "running"} \cup Terminal]
  /\ cursor \in [Follower -> Nat]
  /\ printed \in [Follower -> Seq(Type)]

\* A follower has printed the log up to its cursor: no event is skipped and
\* none is printed twice, however writers and polls interleave.
PrintsTheLog ==
  \A f \in Follower :
    cursor[f] <= Len(log) /\ printed[f] = SubSeq(log, 1, cursor[f])

\* A follower that ends with a state has printed the event behind it, although
\* it reads the session and the events at different times.
ShowsTheOutcome ==
  \A f \in Follower :
    pc[f] = "done" =>
      row[f] \in Terminal /\ \E i \in DOMAIN printed[f] : printed[f][i] = row[f]

\* Every follower of a session that has ended ends ("stream event deltas until
\* a terminal state", docs/cli-reference.md).  One that may write does not wait
\* for a worker that died under it either: the session is reconciled, unless a
\* command other than a follower has removed the PID file.
FollowersEnd ==
  \A f \in Follower :
    /\ (pc[f] # "start" /\ status \in Terminal) ~> pc[f] \in Over
    /\ (pc[f] \notin Over \cup {"start"} /\ f \notin readOnly /\ stale)
         ~> (pc[f] \in Over \/ lost)

\* What the followers write is allowed to any writer of a session.
KeepsTheSession == Session!Spec
=============================================================================
