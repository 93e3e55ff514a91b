------------------------- MODULE RunLifecycleProofs -------------------------
(***************************************************************************)
(* Proofs about the life of a run, for any number of commands, progress    *)
(* events and nested signal handlers, and any set of faults: the session's *)
(* status and the events behind it, the last word and the single outcome   *)
(* of the worker's handlers, when it may be declared crashed, the PID file *)
(* it leaves, the story it records and the cancels that are counted.       *)
(***************************************************************************)
EXTENDS RunLifecycle, SequenceTheorems, FiniteSetTheorems, TLAPS

USE DEF Terminal, Status, EventType, MainTx, MainStep, PidStep, Unprotected, Signals,
        Finished, Label, Top, Alive, MainGoes

-----------------------------------------------------------------------------
(* The inductive invariant *)

\* Progress is counted from the start of the loop to its end.
BeatsOK ==
  /\ main \in Unprotected \cup {"create", "started"} \cup PidStep => beats = 0
  /\ main = "progress" => beats < Beats

StoreTypes ==
  /\ log \in Seq(Event)
  /\ status \in Status
  /\ files \in PidFiles
  /\ launcher \in {"create", "popen", "open", "write", "replace", "done"}

WorkerTypes ==
  /\ worker \in {"absent", "alive", "aborted", "exited", "killed"}
  /\ main \in MainStep
  /\ beats \in 0..Beats
  /\ handlers \in Seq(HandlerFrame) /\ Len(handlers) <= MaxDepth
  /\ lock \in Nat /\ lock <= Depth
  /\ pending \subseteq Signals
  /\ handled \in BOOLEAN

CommandTypes ==
  /\ role \in [Clients -> Roles]
  /\ pc \in [Clients -> Label]
  /\ memo \in [Clients -> Nat]

TypeInv == StoreTypes /\ WorkerTypes /\ BeatsOK /\ CommandTypes

\* Whoever is about to end the session finds its event recorded.
MainEnder == main = "end" => Recorded("completed")

HandlerEnder ==
  \A i \in DOMAIN handlers :
    handlers[i].step = "end" => Recorded(Outcome(handlers[i].sig))

\* So does a command; and a cancel that is under way has seen the session and
\* reports success only with event and status in place.
CommandOK(c) ==
  /\ pc[c] = "end" => Recorded(Verdict(c))
  /\ pc[c] \in {"await", "has", "ensure", "cancelled"} => role[c] = "cancel"
  /\ role[c] = "cancel" /\ pc[c] \notin {"idle", "not_found", "failed"}
       => status # "none"
  /\ pc[c] \in {"ensure", "cancelled"} => Recorded("cancelled")
  /\ pc[c] = "cancelled" => status \in Terminal

CommandsOK == \A c \in Clients : CommandOK(c)

StatusInv ==
  /\ TypeInv
  /\ StatusBackedByEvent
  /\ MainEnder /\ HandlerEnder
  /\ CommandsOK

-----------------------------------------------------------------------------
(* Lemmas about the log and the stack of handlers *)

LEMMA AppendRecords ==
  ASSUME log \in Seq(Event), NEW e \in Event, log' = Append(log, e)
  PROVE  /\ log' \in Seq(Event)
         /\ Recorded(e.type)'
         /\ \A t : Recorded(t) => Recorded(t)'
<1>1. log' \in Seq(Event) /\ Len(log') = Len(log) + 1
  OBVIOUS
<1>2. log'[Len(log) + 1] = e /\ \A i \in 1..Len(log) : log'[i] = log[i]
  OBVIOUS
<1>3. DOMAIN log = 1..Len(log) /\ DOMAIN log' = 1..(Len(log) + 1)
  BY <1>1
<1>4. Recorded(e.type)'
  BY <1>1, <1>2, <1>3 DEF Recorded
<1>5. \A t : Recorded(t) => Recorded(t)'
  BY <1>2, <1>3 DEF Recorded
<1> QED
  BY <1>1, <1>4, <1>5

LEMMA TopOK ==
  ASSUME handlers \in Seq(HandlerFrame), handlers # <<>>
  PROVE  /\ Len(handlers) \in Nat \ {0}
         /\ DOMAIN handlers = 1..Len(handlers)
         /\ Top \in HandlerFrame
  OBVIOUS

LEMMA GotoOK ==
  ASSUME handlers \in Seq(HandlerFrame), handlers # <<>>,
         NEW step \in {"read", "append", "end", "cleanup"}, HandlerGoto(step)
  PROVE  /\ handlers' \in Seq(HandlerFrame)
         /\ Len(handlers') = Len(handlers)
         /\ handlers'[Len(handlers)] = Frame(Top.sig, step)
         /\ \A i \in DOMAIN handlers \ {Len(handlers)} : handlers'[i] = handlers[i]
<1>1. Len(handlers) \in 1..Len(handlers) /\ Top \in HandlerFrame
  BY TopOK
<1>2. Frame(Top.sig, step) \in HandlerFrame
  BY <1>1 DEF HandlerFrame, Frame
<1>3. handlers' = [handlers EXCEPT ![Len(handlers)] = Frame(Top.sig, step)]
  BY <1>1 DEF HandlerGoto
<1> HIDE DEF Top
<1>4. handlers' \in Seq(HandlerFrame) /\ Len(handlers') = Len(handlers)
  BY <1>1, <1>2, <1>3, ExceptSeq
<1> QED
  BY <1>1, <1>3, <1>4

LEMMA PushOK ==
  ASSUME handlers \in Seq(HandlerFrame), NEW f \in HandlerFrame,
         handlers' = Append(handlers, f)
  PROVE  /\ handlers' \in Seq(HandlerFrame)
         /\ Len(handlers') = Len(handlers) + 1
         /\ handlers'[Len(handlers) + 1] = f
         /\ DOMAIN handlers' = 1..(Len(handlers) + 1)
         /\ \A i \in 1..Len(handlers) : handlers'[i] = handlers[i]
  OBVIOUS

LEMMA OutcomeIsTerminal ==
  \A sig \in Signals : Outcome(sig) \in EventType \cap Terminal
  BY DEF Outcome

LEMMA VerdictIsTerminal ==
  \A c : Verdict(c) \in EventType \cap Terminal
  BY DEF Verdict

-----------------------------------------------------------------------------
(* Type correctness *)

LEMMA EmptyStack == <<>> \in Seq(HandlerFrame) /\ Len(<<>>) = 0
  OBVIOUS

LEMMA DepthOK ==
  /\ handlers' = handlers => Depth' = Depth
  /\ handlers = <<>> => Depth = 1
  /\ handlers' = <<>> => Depth' = 1
  /\ Len(handlers') = Len(handlers) => Depth' = Depth
  BY EmptyStack DEF Depth

\* What a step leaves alone keeps its type.
LEMMA SameWorker ==
  ASSUME WorkerTypes, BeatsOK,
         UNCHANGED <<worker, main, beats, handlers, lock, pending, handled>>
  PROVE  WorkerTypes' /\ BeatsOK'
  BY DepthOK DEF WorkerTypes, BeatsOK

LEMMA SameStore ==
  StoreTypes /\ UNCHANGED <<log, status, files, launcher>> => StoreTypes'
  BY DEF StoreTypes

LEMMA SameCommands == CommandTypes /\ UNCHANGED <<role, pc, memo>> => CommandTypes'
  BY DEF CommandTypes

\* The end of the process, and an exception, leave no frame and no lock.
LEMMA GoneTypes ==
  ASSUME TypeInv, NEW how \in {"aborted", "exited", "killed"}, Gone(how),
         UNCHANGED <<beats, handled>>
  PROVE  WorkerTypes' /\ BeatsOK'
<1>1. worker' = how /\ main' = "gone" /\ handlers' = <<>> /\ lock' = 0 /\ pending' = {}
  BY DEF Gone
<1>2. WorkerTypes'
  BY <1>1, EmptyStack, DepthOK, ConstantsOK DEF TypeInv, WorkerTypes
<1>3. BeatsOK'
  BY <1>1 DEF BeatsOK
<1> QED
  BY <1>2, <1>3

LEMMA UnwindTypes ==
  ASSUME TypeInv, Unwind, UNCHANGED <<pending, handled>>
  PROVE  WorkerTypes' /\ BeatsOK'
<1>1. main' \in {"finally", "exit"} /\ handlers' = <<>> /\ lock' = 0
      /\ UNCHANGED <<worker, beats>>
  BY DEF Unwind
<1>2. WorkerTypes'
  BY <1>1, EmptyStack, DepthOK, ConstantsOK DEF TypeInv, WorkerTypes
<1>3. BeatsOK'
  BY <1>1 DEF BeatsOK
<1> QED
  BY <1>2, <1>3

\* A step of the main frame: no handler is active before or after it.
LEMMA MainWorker ==
  ASSUME TypeInv, handlers = <<>>, main' \in MainStep, beats' \in 0..Beats,
         lock' \in {0, 1}, UNCHANGED <<worker, handlers, pending, handled>>
  PROVE  WorkerTypes'
  BY DepthOK DEF TypeInv, WorkerTypes

\* So do the two PID files.
LEMMA FileTypes ==
  ASSUME files \in PidFiles, NEW w \in Writer,
         \/ OpensTmp(w) \/ WritesTmp(w) \/ RenamesTmp \/ RemovesPid
         \/ files' = files \/ files' = [files EXCEPT !.pid = "number"]
  PROVE  files' \in PidFiles
<1> USE DEF PidFiles, Content
<1>1. CASE OpensTmp(w)
  BY <1>1 DEF OpensTmp
<1>2. CASE WritesTmp(w)
  BY <1>2 DEF WritesTmp
<1>3. CASE RenamesTmp
  BY <1>3 DEF RenamesTmp
<1>4. CASE RemovesPid
  BY <1>4 DEF RemovesPid
<1> QED
  BY <1>1, <1>2, <1>3, <1>4

LEMMA PidFileSteps ==
  ASSUME TypeInv
  PROVE  /\ \A w \in Writer : /\ OpensTmp(w) => files'.pid = files.pid
                              /\ WritesTmp(w) => files'.pid \in {files.pid, "number"}
         /\ RenamesTmp => files'.pid # "none"
         /\ RemovesPid => files'.pid = "none"
         /\ files' = [files EXCEPT !.pid = "number"] => files'.pid = "number"
<1>1. files \in PidFiles
  BY DEF TypeInv, StoreTypes
<1> QED
  BY <1>1 DEF PidFiles, OpensTmp, WritesTmp, RenamesTmp, RemovesPid

LEMMA LauncherTypes == TypeInv /\ LauncherStep => TypeInv'
<1> SUFFICES ASSUME TypeInv, LauncherStep PROVE TypeInv'
  OBVIOUS
<1> USE DEF TypeInv, LauncherStep, LauncherCreates, LauncherForks,
   LauncherOpensTmp, LauncherWritesTmp, LauncherReplaces, store, frames, signals,
   commands, elsewhere
<1>1. StoreTypes'
  <2>1. "launcher" \in Writer /\ files \in PidFiles
    BY DEF Writer, StoreTypes
  <2>2. files' \in PidFiles
    BY <2>1, FileTypes, SMTT(30)
  <2> QED
    BY <2>2 DEF StoreTypes, Created
<1>2. WorkerTypes' /\ BeatsOK'
  BY DepthOK DEF WorkerTypes, BeatsOK
<1>3. CommandTypes'
  BY SameCommands
<1> QED
  BY <1>1, <1>2, <1>3

LEMMA EventsOK ==
  /\ \A type \in EventType : Entry(type, "main") \in Event
                             /\ Entry(type, "handler") \in Event
  /\ \A c \in Clients : Entry(Verdict(c), c) \in Event
  BY VerdictIsTerminal DEF Event, Entry

\* A step that appends one event.
LEMMA AppendTypes ==
  ASSUME StoreTypes, NEW e \in Event, log' = Append(log, e),
         UNCHANGED <<status, files, launcher>>
  PROVE  StoreTypes'
<1>1. log' \in Seq(Event)
  BY AppendRecords DEF StoreTypes
<1> QED
  BY <1>1 DEF StoreTypes

LEMMA MainTypes == TypeInv /\ MainSteps => TypeInv'
<1> SUFFICES ASSUME TypeInv, MainSteps PROVE TypeInv'
  OBVIOUS
<1> USE DEF MainAt, MainCommits, store, frames, signals, commands, elsewhere
<1>1. CommandTypes'
  <2>1. UNCHANGED <<role, pc, memo>>
    BY DEF MainSteps, ForegroundWritesPid, WorkerLoads, WorkerInstallsHandlers,
       MainBegins, MainCreates, MainStarted, MainOpensTmp, MainWritesTmp,
       MainReplaces, MainChmods, Unwind, MainProgress, MainCompleted, MainEnds,
       MainFinally, WorkerExits
  <2> QED
    BY <2>1, SameCommands DEF TypeInv
<1>2. StoreTypes'
  <2>1. CASE MainStarted \/ MainProgress \/ MainCompleted
    <3>1. \E e \in Event : log' = Append(log, e)
      BY <2>1, EventsOK DEF MainStarted, MainProgress, MainCompleted
    <3>2. UNCHANGED <<status, files, launcher>>
      BY <2>1 DEF MainStarted, MainProgress, MainCompleted
    <3> QED
      BY <3>1, <3>2, AppendTypes DEF TypeInv
  <2>2. CASE MainCreates \/ MainEnds
    BY <2>2 DEF MainCreates, MainEnds, Created, Ended, TypeInv, StoreTypes
  <2>3. CASE WorkerLoads \/ WorkerInstallsHandlers \/ MainBegins \/ WorkerExits
    BY <2>3, SameStore
    DEF WorkerLoads, WorkerInstallsHandlers, MainBegins, WorkerExits, TypeInv
  <2>4. CASE ForegroundWritesPid \/ MainFinally
             \/ MainOpensTmp \/ MainWritesTmp \/ MainReplaces \/ MainChmods
    <3> USE <2>4 DEF ForegroundWritesPid, MainFinally, MainOpensTmp, MainWritesTmp,
            MainReplaces, MainChmods
    <3>1. UNCHANGED <<log, status, launcher>>
      OBVIOUS
    <3>2. "main" \in Writer /\ files \in PidFiles
      BY DEF Writer, TypeInv, StoreTypes
    <3>3. files' \in PidFiles
      BY <3>2, FileTypes
    <3> QED
      BY <3>1, <3>3 DEF TypeInv, StoreTypes
  <2> QED
    BY <2>1, <2>2, <2>3, <2>4 DEF MainSteps
<1>3. CASE WorkerExits
  BY <1>1, <1>2, <1>3, GoneTypes DEF WorkerExits, TypeInv
<1>4. CASE \/ ForegroundWritesPid \/ WorkerLoads \/ WorkerInstallsHandlers
           \/ MainBegins \/ MainOpensTmp \/ MainWritesTmp \/ MainFinally
           \/ MainReplaces /\ MainGoes("chmod")
           \/ MainChmods /\ MainGoes("progress")
  <2> USE <1>4 DEF ForegroundWritesPid, WorkerLoads, WorkerInstallsHandlers,
     MainBegins, MainOpensTmp, MainWritesTmp, MainReplaces, MainChmods, Unwind,
     MainFinally
  <2>1. handlers = <<>> /\ main' \in MainStep /\ lock' \in {lock, 1}
        /\ UNCHANGED <<worker, beats, handlers, pending, handled>>
    OBVIOUS
  <2>2. lock \in {0, 1} /\ beats \in 0..Beats
    BY <2>1, DepthOK DEF TypeInv, WorkerTypes
  <2>3. BeatsOK'
    BY ConstantsOK DEF TypeInv, BeatsOK
  <2> QED
    BY <1>1, <1>2, <2>1, <2>2, <2>3, MainWorker DEF TypeInv
<1>5. CASE MainCreates \/ MainStarted \/ MainCompleted \/ MainEnds
  <2> USE <1>5 DEF MainCreates, MainStarted, MainCompleted, MainEnds
  <2>1. handlers = <<>> /\ main' \in MainStep /\ lock' = 0
        /\ UNCHANGED <<worker, beats, handlers, pending, handled>>
    OBVIOUS
  <2>2. BeatsOK'
    BY ConstantsOK DEF TypeInv, BeatsOK
  <2>3. beats \in 0..Beats
    BY DEF TypeInv, WorkerTypes
  <2> QED
    BY <1>1, <1>2, <2>1, <2>2, <2>3, MainWorker DEF TypeInv
<1>6. CASE MainProgress
  <2>1. handlers = <<>> /\ main' \in MainStep /\ lock' = 0
        /\ UNCHANGED <<worker, handlers, pending, handled>>
    BY <1>6 DEF MainProgress
  <2>2. beats' \in 0..Beats /\ BeatsOK'
    <3>1. beats + 1 = Beats => LastBeat(beats + 1)
      BY DEF LastBeat
    <3> QED
      BY <1>6, <3>1, ConstantsOK DEF MainProgress, MainCommits, TypeInv,
         WorkerTypes, BeatsOK
  <2> QED
    BY <1>1, <1>2, <2>1, <2>2, MainWorker DEF TypeInv
<1>7. CASE (MainReplaces \/ MainChmods) /\ Unwind
  <2>1. UNCHANGED <<pending, handled>>
    BY <1>7 DEF MainReplaces, MainChmods
  <2> QED
    BY <1>1, <1>2, <1>7, <2>1, UnwindTypes DEF TypeInv
<1> QED
  BY <1>3, <1>4, <1>5, <1>6, <1>7 DEF MainSteps, MainReplaces, MainChmods

LEMMA HandlerTypes == TypeInv /\ HandlerStep => TypeInv'
<1> SUFFICES ASSUME TypeInv, HandlerStep PROVE TypeInv'
  OBVIOUS
<1> USE DEF store, frames, signals, commands, elsewhere
<1>1. handlers \in Seq(HandlerFrame) /\ handlers # <<>>
  BY DEF TypeInv, WorkerTypes, HandlerStep, HandlerReads, HandlerBegins,
     HandlerAppends, HandlerEnds, HandlerTimesOut, HandlerExits, Blocked, HandlerAt
<1>2. HandlerOutcome \in EventType \cap Terminal
  BY <1>1, TopOK, OutcomeIsTerminal DEF HandlerFrame, HandlerOutcome
<1>3. CommandTypes'
  <2>1. UNCHANGED <<role, pc, memo>>
    BY DEF HandlerStep, HandlerReads, HandlerBegins, HandlerAppends, HandlerEnds,
       HandlerTimesOut, HandlerExits
  <2> QED
    BY <2>1, SameCommands DEF TypeInv
<1>4. CASE HandlerReads \/ HandlerAppends \/ HandlerEnds
  <2>1. handlers' \in Seq(HandlerFrame) /\ Len(handlers') = Len(handlers)
    BY <1>1, <1>4, GotoOK DEF HandlerReads, HandlerAppends, HandlerEnds
  <2>2. StoreTypes'
    <3>1. CASE HandlerReads
      BY <3>1, SameStore DEF HandlerReads, TypeInv
    <3>2. CASE HandlerAppends
      BY <1>2, <3>2, EventsOK, AppendTypes DEF HandlerAppends, TypeInv
    <3>3. CASE HandlerEnds
      BY <1>2, <3>3 DEF HandlerEnds, Ended, TypeInv, StoreTypes
    <3> QED
      BY <1>4, <3>1, <3>2, <3>3
  <2>3. lock' \in {lock, 0} /\ UNCHANGED <<worker, main, beats, pending, handled>>
    BY <1>4 DEF HandlerReads, HandlerAppends, HandlerEnds
  <2>4. Depth' = Depth /\ Depth \in Nat
    BY <1>1, <2>1, DepthOK DEF Depth
  <2>5. WorkerTypes' /\ BeatsOK'
    BY <2>1, <2>3, <2>4 DEF TypeInv, WorkerTypes, BeatsOK
  <2> QED
    BY <1>3, <2>2, <2>5 DEF TypeInv
<1>5. CASE HandlerBegins
  <2>1. lock' = Depth /\ UNCHANGED <<worker, main, beats, handlers, pending, handled>>
        /\ UNCHANGED <<log, status, files, launcher>>
    BY <1>5 DEF HandlerBegins
  <2>2. Depth \in Nat /\ Depth' = Depth
    BY <1>1, <2>1, DepthOK DEF Depth
  <2> QED
    BY <1>3, <2>1, <2>2, SameStore DEF TypeInv, WorkerTypes, BeatsOK
<1>6. CASE HandlerTimesOut \/ HandlerExits
  <2>1. StoreTypes'
    <3>1. files' \in PidFiles
      BY <1>6, FileTypes DEF TypeInv, StoreTypes, Writer, HandlerTimesOut,
         HandlerExits
    <3> QED
      BY <1>6, <3>1 DEF TypeInv, StoreTypes, HandlerTimesOut, HandlerExits
  <2>2. WorkerTypes' /\ BeatsOK'
    BY <1>6, UnwindTypes DEF HandlerTimesOut, HandlerExits
  <2> QED
    BY <1>3, <2>1, <2>2 DEF TypeInv
<1> QED
  BY <1>4, <1>5, <1>6 DEF HandlerStep

LEMMA DeliveryTypes == TypeInv /\ Delivery => TypeInv'
<1> SUFFICES ASSUME TypeInv, Delivery PROVE TypeInv'
  OBVIOUS
<1> USE DEF store, frames, signals, commands, elsewhere
<1>1. CASE SignalKills \/ CtrlCAborts
  BY <1>1, GoneTypes, SameStore, SameCommands DEF SignalKills, CtrlCAborts, TypeInv
<1>2. ASSUME NEW sig \in Signals, SignalHandled(sig) PROVE TypeInv'
  <2>1. Frame(sig, "read") \in HandlerFrame
    BY DEF HandlerFrame, Frame
  <2>2. handlers' \in Seq(HandlerFrame) /\ Len(handlers') = Len(handlers) + 1
    BY <1>2, <2>1, PushOK DEF SignalHandled, TypeInv, WorkerTypes
  <2>3. StoreTypes' /\ CommandTypes'
    BY <1>2, SameStore, SameCommands DEF SignalHandled, TypeInv
  <2>4. Len(handlers) \in Nat /\ Len(handlers') <= MaxDepth
    BY <1>2, <2>2, ConstantsOK DEF SignalHandled, TypeInv, WorkerTypes
  <2>5. Depth' = Depth + 1 /\ Depth \in Nat
    BY <2>2, <2>4 DEF Depth
  <2>6. UNCHANGED <<worker, main, beats, lock>> /\ pending' \subseteq Signals
        /\ handled' \in BOOLEAN
    BY <1>2 DEF SignalHandled, TypeInv, WorkerTypes
  <2>7. WorkerTypes' /\ BeatsOK'
    BY <2>2, <2>4, <2>5, <2>6 DEF TypeInv, WorkerTypes, BeatsOK
  <2> QED
    BY <2>3, <2>7 DEF TypeInv
<1> QED
  BY <1>1, <1>2 DEF Delivery

\* The steps of a command that change nothing but its own place.
CommandLooks(c) ==
  CommandStarts(c)
  \/ FastReads(c) \/ LooksForPid(c) \/ ReadsPid(c) \/ CancelSeesExit(c)
  \/ CancelAwaits(c) \/ CancelLooks(c) \/ CancelEnsures(c) \/ FastSelects(c)
  \/ CommandTimesOut(c) \/ CommandDies(c)

LEMMA LooksOnly ==
  ASSUME NEW c \in Clients, CommandLooks(c)
  PROVE  UNCHANGED <<store, files, pending, others>>
  BY DEF CommandLooks, CommandStarts, CancelReads, StatusReads, QaStarts,
     FastStarts, FastReads, LooksForPid, ReadsPid, CancelSeesExit, CancelAwaits,
     CancelLooks, CancelEnsures, FastSelects, CommandTimesOut, CommandDies

LEMMA Moves ==
  ASSUME TypeInv, NEW c \in Clients, NEW step \in Label, Goto(c, step),
         role' = role,
         memo' = memo \/ \E n \in Nat : Remember(c, n)
  PROVE  CommandTypes'
  BY DEF TypeInv, CommandTypes, Goto, Remember

LEMMA CommandLookTypes ==
  ASSUME TypeInv, NEW c \in Clients, CommandLooks(c)
  PROVE  TypeInv'
<1> USE DEF others, store, frames, signals, commands, elsewhere
<1>1. StoreTypes' /\ WorkerTypes' /\ BeatsOK' /\ role' = role
  BY LooksOnly, SameStore, SameWorker DEF TypeInv
<1>2. Len(log) + 1 \in Nat
  BY DEF TypeInv, StoreTypes
<1>3. \E step \in Label : Goto(c, step)
  BY DEF CommandLooks, CommandStarts, CancelReads, StatusReads, QaStarts,
     FastStarts, FastReads, LooksForPid, ReadsPid, CancelSeesExit, CancelAwaits,
     CancelLooks, CancelEnsures, FastSelects, CommandTimesOut, CommandDies
<1>4. memo' = memo \/ \E n \in Nat : Remember(c, n)
  BY <1>2 DEF CommandLooks, CommandStarts, CancelReads, StatusReads, QaStarts,
     FastStarts, FastReads, LooksForPid, ReadsPid, CancelSeesExit, CancelAwaits,
     CancelLooks, CancelEnsures, FastSelects, CommandTimesOut, CommandDies
<1> QED
  BY <1>1, <1>3, <1>4, Moves DEF TypeInv

LEMMA CommandStepTypes ==
  ASSUME TypeInv, NEW c \in Clients, CommandStep(c)
  PROVE  TypeInv'
<1> USE DEF others, store, frames, signals, commands, elsewhere
<1>1. CASE CommandLooks(c)
  BY <1>1, CommandLookTypes
<1>2. CASE CancelSignals(c)
  <2>1. StoreTypes'
    BY <1>2, SameStore DEF CancelSignals, TypeInv
  <2>2. UNCHANGED <<worker, main, beats, handlers, lock, handled>>
        /\ pending' \in {pending, pending \cup {"TERM"}}
    BY <1>2 DEF CancelSignals, Signal
  <2>3. WorkerTypes' /\ BeatsOK'
    BY <2>2, DepthOK DEF TypeInv, WorkerTypes, BeatsOK
  <2>4. /\ \E step \in Label : Goto(c, step)
        /\ memo' = memo \/ \E n \in Nat : Remember(c, n)
        /\ role' = role
    BY <1>2 DEF CancelSignals
  <2> QED
    BY <2>1, <2>3, <2>4, Moves DEF TypeInv
<1>3. CASE CancelEscalates(c)
  <2>1. StoreTypes' /\ WorkerTypes' /\ BeatsOK'
    BY <1>3, GoneTypes, SameStore DEF CancelEscalates, TypeInv
  <2> QED
    BY <1>3, <2>1, Moves DEF CancelEscalates, TypeInv
<1>4. CASE Tidy(c) \/ Clean(c)
  <2>1. WorkerTypes' /\ BeatsOK'
    BY <1>4, SameWorker DEF Tidy, Clean, TypeInv
  <2>2. StoreTypes'
    <3>1. files' \in PidFiles
      BY <1>4, FileTypes DEF Tidy, Clean, TypeInv, StoreTypes, Writer
    <3> QED
      BY <1>4, <3>1 DEF Tidy, Clean, TypeInv, StoreTypes
  <2>3. role' = role /\ memo' = memo /\ \E step \in Label : Goto(c, step)
    BY <1>4 DEF Tidy, Clean
  <2> QED
    BY <2>1, <2>2, <2>3, Moves DEF TypeInv
<1>5. CASE CreateSession(c) \/ EndSession(c) \/ AppendEvent(c) \/ FastInserts(c)
  <2>1. WorkerTypes' /\ BeatsOK'
    BY <1>5, SameWorker
    DEF CreateSession, EndSession, AppendEvent, FastInserts, TypeInv
  <2>2. StoreTypes'
    <3>1. CASE CreateSession(c) \/ EndSession(c)
      BY <3>1, VerdictIsTerminal
      DEF CreateSession, EndSession, Created, Ended, TypeInv, StoreTypes
    <3>2. CASE AppendEvent(c) \/ FastInserts(c)
      BY <3>2, EventsOK, AppendTypes, SameStore
      DEF AppendEvent, FastInserts, TypeInv
    <3> QED
      BY <1>5, <3>1, <3>2
  <2>3. role' = role /\ memo' = memo /\ \E step \in Label : Goto(c, step)
    BY <1>5 DEF CreateSession, EndSession, AppendEvent, FastInserts
  <2> QED
    BY <2>1, <2>2, <2>3, Moves DEF TypeInv
<1> QED
  BY <1>1, <1>2, <1>3, <1>4, <1>5 DEF CommandStep, CommandLooks

LEMMA EnvironmentTypes == TypeInv /\ Environment => TypeInv'
<1> SUFFICES ASSUME TypeInv, Environment PROVE TypeInv'
  OBVIOUS
<1> USE DEF store, frames, signals, commands, elsewhere
<1>1. CASE WorkerLoadFails \/ Kill
  <2>1. WorkerTypes' /\ BeatsOK'
    BY <1>1, GoneTypes DEF WorkerLoadFails, Kill
  <2>2. files' \in PidFiles
    BY <1>1, FileTypes DEF WorkerLoadFails, Kill, TypeInv, StoreTypes, Writer
  <2>3. StoreTypes' /\ CommandTypes'
    BY <1>1, <2>2, SameCommands DEF WorkerLoadFails, Kill, TypeInv, StoreTypes
  <2> QED
    BY <2>1, <2>3 DEF TypeInv
<1>2. CASE MainFails
  BY <1>2, UnwindTypes, SameStore, SameCommands DEF MainFails, TypeInv
<1>3. CASE Interrupt
  <2>1. UNCHANGED <<worker, main, beats, handlers, lock, handled>>
        /\ pending' \subseteq pending \cup Signals
    BY <1>3 DEF Interrupt, Signal
  <2>2. WorkerTypes' /\ BeatsOK'
    BY <2>1, DepthOK DEF TypeInv, WorkerTypes, BeatsOK
  <2> QED
    BY <1>3, <2>2, SameStore, SameCommands DEF Interrupt, TypeInv
<1>4. CASE LauncherDies
  <2>1. StoreTypes'
    BY <1>4 DEF LauncherDies, TypeInv, StoreTypes
  <2> QED
    BY <1>4, <2>1, SameWorker, SameCommands DEF LauncherDies, TypeInv
<1>5. ASSUME NEW c \in Clients, CommandDies(c) PROVE TypeInv'
  BY <1>5, CommandLookTypes DEF CommandLooks
<1> QED
  BY <1>1, <1>2, <1>3, <1>4, <1>5 DEF Environment

LEMMA TypeStep == TypeInv /\ [Next]_vars => TypeInv'
<1>1. TypeInv /\ UNCHANGED vars => TypeInv'
  BY SameStore, SameWorker, SameCommands
  DEF TypeInv, vars, store, frames, signals, commands, elsewhere
<1>2. ASSUME TypeInv, NEW c \in Clients, CommandStarts(c) PROVE TypeInv'
  BY <1>2, CommandLookTypes DEF CommandLooks
<1> QED
  BY <1>1, <1>2, LauncherTypes, MainTypes, HandlerTypes, DeliveryTypes,
     CommandStepTypes, EnvironmentTypes DEF Next, WorkerStep

LEMMA TypeInit == Init => TypeInv
<1> SUFFICES ASSUME Init PROVE TypeInv
  OBVIOUS
<1>1. StoreTypes
  <2>1. log = <<>> /\ status = "none" /\ launcher \in {"create", "done"}
    BY DEF Init
  <2>2. log \in Seq(Event)
    BY <2>1
  <2>3. files \in PidFiles
    BY DEF Init, PidFiles, Content
  <2> QED
    BY <2>1, <2>2, <2>3 DEF StoreTypes
<1>2. WorkerTypes
  <2>1. worker \in {"absent", "alive"} /\ main \in {"load", "fgpid"} /\ beats = 0
        /\ handlers = <<>> /\ lock = 0 /\ pending = {} /\ handled = FALSE
    BY DEF Init
  <2>2. handlers \in Seq(HandlerFrame) /\ Len(handlers) <= MaxDepth
    BY <2>1, ConstantsOK, EmptyStack
  <2>3. lock \in Nat /\ lock <= Depth /\ beats \in 0..Beats
    BY <2>1, ConstantsOK, DepthOK
  <2> QED
    BY <2>1, <2>2, <2>3 DEF WorkerTypes
<1>3. BeatsOK
  BY DEF Init, BeatsOK
<1>4. CommandTypes
  <2>1. role \in [Clients -> Roles] /\ pc = [c \in Clients |-> "idle"]
        /\ memo = [c \in Clients |-> 0]
    BY DEF Init
  <2> QED
    BY <2>1 DEF CommandTypes
<1> QED
  BY <1>1, <1>2, <1>3, <1>4 DEF TypeInv

\* Every variable keeps its type, whatever is interrupted, killed or lost.
THEOREM TypeCorrect == Spec => []TypeOK
<1>1. TypeInv => TypeOK
  BY DEF TypeInv, TypeOK, StoreTypes, WorkerTypes, CommandTypes
<1> QED
  BY <1>1, TypeInit, TypeStep, PTL DEF Spec

-----------------------------------------------------------------------------
(* The status and the event that backs it *)

\* A step leaves the log alone or appends one event to it.
LEMMA LogStep ==
  ASSUME TypeInv, [Next]_vars
  PROVE  log' = log \/ \E e \in Event : log' = Append(log, e)
<1> USE DEF store, frames, signals, commands, elsewhere, others
<1>1. CASE UNCHANGED vars
  BY <1>1 DEF vars
<1>2. CASE LauncherStep
  BY <1>2 DEF LauncherStep, LauncherCreates, LauncherForks, LauncherOpensTmp,
      LauncherWritesTmp, LauncherReplaces
<1>3. CASE MainSteps
  BY <1>3, EventsOK
  DEF MainSteps, ForegroundWritesPid, WorkerLoads, WorkerInstallsHandlers,
      MainBegins, MainCreates, MainStarted, MainOpensTmp, MainWritesTmp,
      MainReplaces, MainChmods, Unwind, MainProgress, MainCompleted, MainEnds,
      MainFinally, WorkerExits
<1>4. CASE HandlerStep
  <2>1. CASE HandlerAppends
    <3>1. handlers \in Seq(HandlerFrame) /\ handlers # <<>>
      BY <2>1 DEF TypeInv, WorkerTypes, HandlerAppends, HandlerAt
    <3>2. HandlerOutcome \in EventType
      BY <3>1, TopOK, OutcomeIsTerminal DEF HandlerFrame, HandlerOutcome
    <3> QED
      BY <2>1, <3>2, EventsOK DEF HandlerAppends
  <2>2. CASE ~ HandlerAppends
    BY <1>4, <2>2 DEF HandlerStep, HandlerReads, HandlerBegins, HandlerEnds,
       HandlerTimesOut, HandlerExits
  <2> QED
    BY <2>1, <2>2
<1>5. CASE Delivery
  BY <1>5 DEF Delivery, SignalKills, CtrlCAborts, SignalHandled
<1>6. ASSUME NEW c \in Clients, CommandStarts(c) \/ CommandDies(c) PROVE log' = log
  BY <1>6, LooksOnly DEF CommandLooks
<1>7. ASSUME NEW c \in Clients, CommandStep(c)
      PROVE  log' = log \/ \E e \in Event : log' = Append(log, e)
  <2>1. CASE CommandLooks(c)
    BY <2>1, LooksOnly
  <2>2. CASE AppendEvent(c) \/ FastInserts(c)
    BY <2>2, EventsOK DEF AppendEvent, FastInserts
  <2>3. CASE Tidy(c) \/ Clean(c) \/ CancelSignals(c) \/ CancelEscalates(c)
             \/ CreateSession(c) \/ EndSession(c)
    BY <2>3 DEF Tidy, Clean, CancelSignals, CancelEscalates, CreateSession, EndSession
  <2> QED
    BY <1>7, <2>1, <2>2, <2>3 DEF CommandStep, CommandLooks
<1>8. CASE WorkerLoadFails \/ MainFails \/ Interrupt \/ Kill \/ LauncherDies
  BY <1>8 DEF WorkerLoadFails, MainFails, Interrupt, Kill, LauncherDies
<1> QED
  BY <1>1, <1>2, <1>3, <1>4, <1>5, <1>6, <1>7, <1>8
  DEF Next, WorkerStep, Environment

LEMMA RecordedStays ==
  ASSUME TypeInv, [Next]_vars
  PROVE  \A t : Recorded(t) => Recorded(t)'
<1>1. CASE log' = log
  BY <1>1 DEF Recorded
<1>2. CASE \E e \in Event : log' = Append(log, e)
  BY <1>2, AppendRecords DEF TypeInv, StoreTypes
<1> QED
  BY <1>1, <1>2, LogStep

\* A step leaves the status alone, creates the session, or ends it with the
\* status whose event is recorded.
StatusMoves ==
  \/ status' = status
  \/ status = "none" /\ status' = "running"
  \/ status # "none" /\ status' \in Terminal /\ Recorded(status')

LEMMA StatusStep ==
  ASSUME StatusInv, [Next]_vars
  PROVE  StatusMoves
<1> USE DEF store, frames, signals, commands, elsewhere, others, StatusMoves
<1>1. CASE UNCHANGED vars
  BY <1>1 DEF vars
<1>2. CASE LauncherStep
  BY <1>2 DEF LauncherStep, LauncherCreates, LauncherForks, LauncherOpensTmp,
      LauncherWritesTmp, LauncherReplaces, Created
<1>3. CASE MainSteps
  <2>1. CASE MainCreates
    BY <2>1 DEF MainCreates, Created
  <2>2. CASE MainEnds
    BY <2>2 DEF MainEnds, MainCommits, MainAt, Ended, StatusInv, MainEnder
  <2>3. CASE ~ (MainCreates \/ MainEnds)
    BY <1>3, <2>3 DEF MainSteps, ForegroundWritesPid, WorkerLoads,
       WorkerInstallsHandlers, MainBegins, MainStarted, MainOpensTmp,
       MainWritesTmp, MainReplaces, MainChmods, Unwind, MainProgress,
       MainCompleted, MainFinally, WorkerExits
  <2> QED
    BY <2>1, <2>2, <2>3
<1>4. CASE HandlerStep
  <2>1. CASE HandlerEnds
    <3>1. handlers \in Seq(HandlerFrame) /\ handlers # <<>> /\ Top.step = "end"
      BY <2>1 DEF StatusInv, TypeInv, WorkerTypes, HandlerEnds, HandlerAt
    <3>2. Recorded(HandlerOutcome) /\ HandlerOutcome \in Terminal
      BY <3>1, TopOK, OutcomeIsTerminal
      DEF StatusInv, HandlerEnder, HandlerFrame, HandlerOutcome
    <3> QED
      BY <2>1, <3>2 DEF HandlerEnds, Ended
  <2>2. CASE ~ HandlerEnds
    BY <1>4, <2>2 DEF HandlerStep, HandlerReads, HandlerBegins, HandlerAppends,
       HandlerTimesOut, HandlerExits
  <2> QED
    BY <2>1, <2>2
<1>5. CASE Delivery
  BY <1>5 DEF Delivery, SignalKills, CtrlCAborts, SignalHandled
<1>6. ASSUME NEW c \in Clients, CommandStarts(c) \/ CommandDies(c)
      PROVE  status' = status
  BY <1>6, LooksOnly DEF CommandLooks
<1>7. ASSUME NEW c \in Clients, CommandStep(c) PROVE StatusMoves
  <2>1. CASE CommandLooks(c)
    BY <2>1, LooksOnly
  <2>2. CASE CreateSession(c)
    BY <2>2 DEF CreateSession, Created
  <2>3. CASE EndSession(c)
    BY <2>3, VerdictIsTerminal
    DEF EndSession, Ended, At, StatusInv, CommandsOK, CommandOK
  <2>4. CASE Tidy(c) \/ Clean(c) \/ CancelSignals(c) \/ CancelEscalates(c)
             \/ AppendEvent(c) \/ FastInserts(c)
    BY <2>4 DEF Tidy, Clean, CancelSignals, CancelEscalates, AppendEvent, FastInserts
  <2> QED
    BY <1>7, <2>1, <2>2, <2>3, <2>4 DEF CommandStep, CommandLooks
<1>8. CASE WorkerLoadFails \/ MainFails \/ Interrupt \/ Kill \/ LauncherDies
  BY <1>8 DEF WorkerLoadFails, MainFails, Interrupt, Kill, LauncherDies
<1> QED
  BY <1>1, <1>2, <1>3, <1>4, <1>5, <1>6, <1>7, <1>8
  DEF Next, WorkerStep, Environment

\* What a step that leaves the frames or the commands alone preserves.
LEMMA MainKept ==
  ASSUME MainEnder, \A t : Recorded(t) => Recorded(t)', main' = main \/ main' # "end"
  PROVE  MainEnder'
  BY DEF MainEnder

LEMMA HandlersKept ==
  ASSUME HandlerEnder, \A t : Recorded(t) => Recorded(t)',
         handlers' = handlers \/ handlers' = <<>>
  PROVE  HandlerEnder'
<1>1. CASE handlers' = handlers
  BY <1>1 DEF HandlerEnder
<1>2. CASE handlers' = <<>>
  BY <1>2 DEF HandlerEnder
<1> QED
  BY <1>1, <1>2

LEMMA CommandKept ==
  ASSUME NEW c \in Clients, CommandOK(c), \A t : Recorded(t) => Recorded(t)',
         StatusMoves, pc'[c] = pc[c], role' = role
  PROVE  CommandOK(c)'
  BY DEF CommandOK, StatusMoves, Verdict

\* A step of a command, or its death, keeps CommandOK for that command.
LEMMA CommandMovesOK ==
  ASSUME StatusInv, NEW c \in Clients, [Next]_vars,
         CommandStarts(c) \/ CommandStep(c) \/ CommandDies(c)
  PROVE  CommandOK(c)'
<1> USE DEF Goto, At, others
<1>1. \A t : Recorded(t) => Recorded(t)'
  BY RecordedStays DEF StatusInv
<1>2. StatusMoves
  BY StatusStep
<1>3. CommandOK(c) /\ pc \in [Clients -> Label] /\ log \in Seq(Event)
  BY DEF StatusInv, CommandsOK, TypeInv, CommandTypes, StoreTypes
<1>4. role' = role /\ Verdict(c)' = Verdict(c)
  BY DEF CommandStarts, CancelReads, StatusReads, QaStarts, FastStarts,
     CommandStep, FastReads, Tidy, LooksForPid, ReadsPid, CancelSignals,
     CancelSeesExit, CancelEscalates, CancelAwaits, CancelLooks, CancelEnsures,
     Clean, CreateSession, AppendEvent, FastSelects, FastInserts, EndSession,
     CommandTimesOut, CommandDies, Verdict
<1>5. CASE CommandStarts(c)
  BY <1>1, <1>2, <1>3, <1>4, <1>5
  DEF CommandStarts, CancelReads, StatusReads, QaStarts, FastStarts, CommandOK,
      StatusMoves
<1>6. CASE FastReads(c) \/ Tidy(c) \/ LooksForPid(c) \/ ReadsPid(c) \/ Clean(c)
  BY <1>1, <1>2, <1>3, <1>4, <1>6
  DEF FastReads, Tidy, LooksForPid, ReadsPid, Clean, CommandOK, StatusMoves
<1>7. CASE CancelSignals(c) \/ CancelSeesExit(c) \/ CancelEscalates(c)
  BY <1>1, <1>2, <1>3, <1>4, <1>7
  DEF CancelSignals, CancelSeesExit, CancelEscalates, CommandOK, StatusMoves
<1>8. CASE CancelAwaits(c) \/ CancelLooks(c) \/ CancelEnsures(c)
  <2>1. pc'[c] \in {"ensure", "has", "create", "cancelled", "end"}
        /\ role[c] = "cancel" /\ status' = status /\ status # "none"
    BY <1>3, <1>8
    DEF CancelAwaits, CancelLooks, CancelEnsures, CommandOK, store
  <2>2. pc'[c] \in {"ensure", "cancelled", "end"} => Recorded("cancelled")
    BY <1>3, <1>8 DEF CancelAwaits, CancelLooks, CancelEnsures, CommandOK
  <2>3. pc'[c] = "cancelled" => status \in Terminal
    BY <1>3, <1>8, <2>1 DEF CancelAwaits, CancelLooks, CancelEnsures
  <2> QED
    BY <1>1, <1>4, <2>1, <2>2, <2>3 DEF CommandOK, Verdict
<1>9. CASE CreateSession(c) \/ FastSelects(c) \/ CommandTimesOut(c) \/ CommandDies(c)
  BY <1>1, <1>2, <1>3, <1>4, <1>9
  DEF CreateSession, FastSelects, CommandTimesOut, CommandDies, CommandOK,
      StatusMoves
<1>10. CASE AppendEvent(c) \/ FastInserts(c)
  <2>1. pc'[c] = "end" => Recorded(Verdict(c))'
    <3>1. CASE pc'[c] = "end"
      <4>1. PICK e \in Event : e = Entry(Verdict(c), c)
        BY EventsOK
      <4>2. log' = Append(log, e) /\ e.type = Verdict(c)
        BY <1>3, <1>10, <3>1, <4>1 DEF AppendEvent, FastInserts, Entry
      <4>3. Recorded(e.type)'
        BY <1>3, <4>2, AppendRecords
      <4> QED
        BY <1>4, <4>2, <4>3
    <3> QED
      BY <3>1
  <2>2. pc'[c] \in {"end", "failed"} /\ pc[c] \in {"append", "insert"}
    BY <1>3, <1>10 DEF AppendEvent, FastInserts
  <2> QED
    BY <1>2, <1>3, <1>4, <2>1, <2>2 DEF CommandOK, StatusMoves
<1>11. CASE EndSession(c)
  <2>1. pc[c] = "end" /\ Recorded(Verdict(c))
        /\ pc'[c] = IF role[c] = "cancel" THEN "cancelled" ELSE "done"
    BY <1>3, <1>11 DEF EndSession, CommandOK
  <2>2. role[c] = "cancel" => status # "none" /\ status' \in Terminal
    BY <1>3, <1>11, <2>1, VerdictIsTerminal DEF EndSession, Ended, CommandOK
  <2> QED
    BY <1>1, <1>4, <2>1, <2>2 DEF CommandOK, Verdict
<1> QED
  BY <1>5, <1>6, <1>7, <1>8, <1>9, <1>10, <1>11 DEF CommandStep

\* A step of one command leaves the others, and the worker's frames unless it
\* kills the worker, where they are.
LEMMA CommandMovesAlone ==
  ASSUME CommandTypes, NEW c \in Clients, CommandStarts(c) \/ CommandStep(c) \/ CommandDies(c)
  PROVE  /\ role' = role
         /\ \A d \in Clients \ {c} : pc'[d] = pc[d]
         /\ main' = main \/ main' = "gone"
         /\ handlers' = handlers \/ handlers' = <<>>
<1> USE DEF CommandTypes, Goto, others, frames
<1>1. CASE CancelEscalates(c)
  BY <1>1 DEF CancelEscalates, Gone
<1>2. CASE CommandLooks(c)
  BY <1>2 DEF CommandLooks, CommandStarts, CancelReads, StatusReads, QaStarts,
     FastStarts, FastReads, LooksForPid, ReadsPid, CancelSeesExit, CancelAwaits,
     CancelLooks, CancelEnsures, FastSelects, CommandTimesOut, CommandDies
<1>3. CASE Tidy(c) \/ Clean(c) \/ CancelSignals(c) \/ CreateSession(c)
           \/ EndSession(c) \/ AppendEvent(c) \/ FastInserts(c)
  BY <1>3 DEF Tidy, Clean, CancelSignals, CreateSession, EndSession, AppendEvent,
     FastInserts
<1> QED
  BY <1>1, <1>2, <1>3 DEF CommandStep, CommandLooks

LEMMA StatusInvStep == StatusInv /\ [Next]_vars => StatusInv'
<1> SUFFICES ASSUME StatusInv, [Next]_vars PROVE StatusInv'
  OBVIOUS
<1> USE DEF store, frames, signals, commands, elsewhere
<1>1. TypeInv'
  BY TypeStep DEF StatusInv
<1>2. \A t : Recorded(t) => Recorded(t)'
  BY RecordedStays DEF StatusInv
<1>3. StatusMoves
  BY StatusStep
<1>4. StatusBackedByEvent'
  BY <1>2, <1>3 DEF StatusInv, StatusBackedByEvent, StatusMoves
<1>5. UNCHANGED <<role, pc>> => CommandsOK'
  BY <1>2, <1>3, CommandKept DEF StatusInv, CommandsOK
<1>6. handlers' = handlers \/ handlers' = <<>> => HandlerEnder'
  BY <1>2, HandlersKept DEF StatusInv
<1>7. main' = main \/ main' # "end" => MainEnder'
  BY <1>2, MainKept DEF StatusInv
<1>8. CASE UNCHANGED vars
  BY <1>1, <1>4, <1>5, <1>6, <1>7, <1>8 DEF vars, StatusInv
<1>9. CASE LauncherStep
  BY <1>1, <1>4, <1>5, <1>6, <1>7, <1>9
  DEF LauncherStep, LauncherCreates, LauncherForks, LauncherOpensTmp,
      LauncherWritesTmp, LauncherReplaces, StatusInv
<1>10. CASE MainSteps
  <2>1. UNCHANGED <<role, pc>> /\ (handlers' = handlers \/ handlers' = <<>>)
    BY <1>10 DEF MainSteps, ForegroundWritesPid, WorkerLoads,
       WorkerInstallsHandlers, MainBegins, MainCreates, MainStarted, MainOpensTmp,
       MainWritesTmp, MainReplaces, MainChmods, Unwind, MainProgress,
       MainCompleted, MainEnds, MainFinally, WorkerExits, MainCommits, Gone
  <2>2. MainEnder'
    <3>1. CASE MainCompleted
      <4>1. log \in Seq(Event) /\ Entry("completed", "main") \in Event
            /\ log' = Append(log, Entry("completed", "main"))
            /\ Entry("completed", "main").type = "completed"
        BY <3>1, EventsOK DEF MainCompleted, StatusInv, TypeInv, StoreTypes, Entry
      <4>2. Recorded(Entry("completed", "main").type)'
        BY <4>1, AppendRecords
      <4> QED
        BY <4>1, <4>2 DEF MainEnder
    <3>2. CASE ~ MainCompleted
      <4>1. main' = main \/ main' # "end"
        BY <1>10, <3>2 DEF MainSteps, ForegroundWritesPid, WorkerLoads,
           WorkerInstallsHandlers, MainBegins, MainCreates, MainStarted,
           MainOpensTmp, MainWritesTmp, MainReplaces, MainChmods, Unwind,
           MainProgress, MainEnds, MainFinally, WorkerExits, MainCommits, Gone
      <4> QED
        BY <1>7, <4>1
    <3> QED
      BY <3>1, <3>2
  <2> QED
    BY <1>1, <1>4, <1>5, <1>6, <2>1, <2>2 DEF StatusInv
<1>11. CASE HandlerStep
  <2>1. UNCHANGED <<role, pc>> /\ (main' = main \/ main' # "end")
    BY <1>11 DEF HandlerStep, HandlerReads, HandlerBegins, HandlerAppends,
       HandlerEnds, HandlerTimesOut, HandlerExits, Unwind
  <2>2. handlers \in Seq(HandlerFrame) /\ handlers # <<>>
    BY <1>11 DEF StatusInv, TypeInv, WorkerTypes, HandlerStep, HandlerReads,
       HandlerBegins, HandlerAppends, HandlerEnds, HandlerTimesOut, HandlerExits,
       Blocked, HandlerAt
  <2>3. HandlerBegins \/ HandlerTimesOut \/ HandlerExits => HandlerEnder'
    <3> HAVE HandlerBegins \/ HandlerTimesOut \/ HandlerExits
    <3>1. handlers' = handlers \/ handlers' = <<>>
      BY DEF HandlerBegins, HandlerTimesOut, HandlerExits, Unwind
    <3> QED
      BY <1>6, <3>1
  <2>4. ASSUME HandlerReads \/ HandlerEnds PROVE HandlerEnder'
    <3>1. PICK step \in {"append", "cleanup"} : HandlerGoto(step)
      BY <2>4 DEF HandlerReads, HandlerEnds
    <3>2. DOMAIN handlers' = DOMAIN handlers
      BY <2>2, <3>1 DEF HandlerGoto
    <3>3. \A i \in DOMAIN handlers \ {Len(handlers)} : handlers'[i] = handlers[i]
      BY <2>2, <3>1, GotoOK
    <3>4. handlers'[Len(handlers)].step # "end"
      BY <2>2, <3>1, GotoOK DEF Frame
    <3>5. ASSUME NEW i \in DOMAIN handlers'
          PROVE  (handlers[i].step = "end" => Recorded(Outcome(handlers[i].sig)))'
      <4>1. CASE i = Len(handlers)
        BY <3>4, <4>1
      <4>2. CASE i # Len(handlers)
        <5>1. i \in DOMAIN handlers /\ handlers'[i] = handlers[i]
          BY <3>2, <3>3, <4>2
        <5>2. handlers[i].step = "end" => Recorded(Outcome(handlers[i].sig))
          BY <5>1 DEF StatusInv, HandlerEnder
        <5> QED
          BY <1>2, <5>1, <5>2
      <4> QED
        BY <4>1, <4>2
    <3> QED
      BY <3>5 DEF HandlerEnder
  <2>5. ASSUME HandlerAppends PROVE HandlerEnder'
    <3>1. HandlerOutcome \in EventType
      BY <2>2, TopOK, OutcomeIsTerminal DEF HandlerFrame, HandlerOutcome
    <3>2. PICK e \in Event : e = Entry(HandlerOutcome, "handler")
      BY <3>1, EventsOK
    <3>3. log' = Append(log, e) /\ log \in Seq(Event) /\ e.type = Outcome(Top.sig)
      BY <2>5, <3>2
      DEF HandlerAppends, StatusInv, TypeInv, StoreTypes, Entry, HandlerOutcome
    <3>4. Recorded(e.type)'
      BY <3>3, AppendRecords
    <3>5. HandlerGoto("end")
      BY <2>5 DEF HandlerAppends
    <3>6. handlers'[Len(handlers)] = Frame(Top.sig, "end")
      BY <2>2, <3>5, GotoOK
    <3>7. DOMAIN handlers' = DOMAIN handlers
      BY <2>2, <3>5 DEF HandlerGoto
    <3>8. \A i \in DOMAIN handlers \ {Len(handlers)} : handlers'[i] = handlers[i]
      BY <2>2, <3>5, GotoOK
    <3>9. handlers'[Len(handlers)].sig = Top.sig
      BY <3>6 DEF Frame
    <3>10. ASSUME NEW i \in DOMAIN handlers'
           PROVE  (handlers[i].step = "end" => Recorded(Outcome(handlers[i].sig)))'
      <4>1. CASE i = Len(handlers)
        BY <3>3, <3>4, <3>9, <4>1
      <4>2. CASE i # Len(handlers)
        <5>1. i \in DOMAIN handlers /\ handlers'[i] = handlers[i]
          BY <3>7, <3>8, <4>2
        <5>2. handlers[i].step = "end" => Recorded(Outcome(handlers[i].sig))
          BY <5>1 DEF StatusInv, HandlerEnder
        <5> QED
          BY <1>2, <5>1, <5>2
      <4> QED
        BY <4>1, <4>2
    <3> QED
      BY <3>10 DEF HandlerEnder
  <2> QED
    BY <1>1, <1>4, <1>5, <1>7, <1>11, <2>1, <2>3, <2>4, <2>5
    DEF HandlerStep, StatusInv
<1>12. CASE Delivery
  <2>1. CASE SignalKills \/ CtrlCAborts
    BY <1>1, <1>4, <1>5, <1>6, <1>7, <2>1 DEF SignalKills, CtrlCAborts, Gone,
       StatusInv
  <2>2. ASSUME NEW sig \in Signals, SignalHandled(sig) PROVE StatusInv'
    <3>1. Frame(sig, "read") \in HandlerFrame /\ Frame(sig, "read").step = "read"
      BY DEF HandlerFrame, Frame
    <3>2. HandlerEnder'
      BY <1>2, <2>2, <3>1, PushOK
      DEF SignalHandled, StatusInv, TypeInv, WorkerTypes, HandlerEnder
    <3> QED
      BY <1>1, <1>4, <1>5, <1>7, <2>2, <3>2 DEF SignalHandled, StatusInv
  <2> QED
    BY <1>12, <2>1, <2>2 DEF Delivery
<1>13. ASSUME NEW c \in Clients, CommandStarts(c) \/ CommandStep(c) \/ CommandDies(c)
       PROVE  StatusInv'
  <2>1. CommandOK(c)'
    BY <1>13, CommandMovesOK
  <2>2. \A d \in Clients \ {c} : CommandOK(d)'
    BY <1>2, <1>3, <1>13, CommandMovesAlone, CommandKept
    DEF StatusInv, TypeInv, CommandsOK
  <2>3. CommandsOK'
    BY <2>1, <2>2 DEF CommandsOK
  <2> QED
    BY <1>1, <1>4, <1>6, <1>7, <1>13, <2>3, CommandMovesAlone
    DEF StatusInv, TypeInv
<1>14. CASE WorkerLoadFails \/ MainFails \/ Interrupt \/ Kill \/ LauncherDies
  BY <1>1, <1>4, <1>5, <1>6, <1>7, <1>14
  DEF WorkerLoadFails, MainFails, Interrupt, Kill, LauncherDies, Gone, Unwind,
      StatusInv
<1> QED
  BY <1>8, <1>9, <1>10, <1>11, <1>12, <1>13, <1>14
  DEF Next, WorkerStep, Environment

LEMMA StatusInvInit == Init => StatusInv
<1> SUFFICES ASSUME Init PROVE StatusInv
  OBVIOUS
<1>1. main # "end" /\ handlers = <<>> /\ status = "none"
      /\ pc = [c \in Clients |-> "idle"]
  BY DEF Init
<1>2. MainEnder /\ HandlerEnder /\ CommandsOK /\ StatusBackedByEvent
  BY <1>1 DEF MainEnder, HandlerEnder, CommandsOK, CommandOK, StatusBackedByEvent
<1> QED
  BY <1>2, TypeInit DEF StatusInv

\* In every reachable state the event behind a terminal status is in the log,
\* whatever crashes, signals and commands come between the two transactions.
THEOREM StatusIsBacked == Spec => []StatusBackedByEvent
<1>1. StatusInv => StatusBackedByEvent
  BY DEF StatusInv
<1> QED
  BY <1>1, StatusInvInit, StatusInvStep, PTL DEF Spec

\* A cancel command that reports success leaves event and status behind.
THEOREM CancelDelivers == Spec => []CancelKeepsPromise
<1>1. StatusInv => CancelKeepsPromise
  BY DEF StatusInv, CommandsOK, CommandOK, CancelKeepsPromise
<1> QED
  BY <1>1, StatusInvInit, StatusInvStep, PTL DEF Spec

\* No step of any process takes a session out of a terminal state.
THEOREM TerminalStates == Spec => TerminalForever
<1>1. StatusInv /\ [Next]_vars => [(status \in Terminal) => (status' \in Terminal)]_vars
  BY StatusStep DEF StatusMoves
<1> QED
  BY <1>1, StatusInvInit, StatusInvStep, PTL DEF Spec, TerminalForever
-----------------------------------------------------------------------------
(* The writers of a session implement SessionLog *)

LEMMA TypesOfAppend ==
  ASSUME NEW s \in Seq(Event), NEW e \in Event
  PROVE  Types(Append(s, e)) = Append(Types(s), e.type)
<1>1. /\ Append(s, e) \in Seq(Event) /\ Len(Append(s, e)) = Len(s) + 1
      /\ \A i \in 1..(Len(s) + 1) : Append(s, e)[i] = IF i <= Len(s) THEN s[i] ELSE e
      /\ DOMAIN s = 1..Len(s) /\ DOMAIN Append(s, e) = 1..(Len(s) + 1)
      /\ Len(s) \in Nat
  OBVIOUS
<1>2. Types(s) \in Seq(EventType) /\ Len(Types(s)) = Len(s) /\ e.type \in EventType
      /\ \A i \in 1..Len(s) : Types(s)[i] = s[i].type
  <2> HIDE DEF EventType, Event
  <2>1. \A i \in 1..Len(s) : s[i] \in Event
    OBVIOUS
  <2>2. \A d \in Event : d.type \in EventType
    BY DEF Event
  <2>3. Types(s) = [i \in 1..Len(s) |-> s[i].type]
    BY <1>1 DEF Types
  <2> QED
    BY <1>1, <2>1, <2>2, <2>3
<1>3. /\ DOMAIN Append(Types(s), e.type) = 1..(Len(s) + 1)
      /\ \A i \in 1..(Len(s) + 1) :
           Append(Types(s), e.type)[i] = IF i <= Len(s) THEN s[i].type ELSE e.type
  BY <1>2
<1>4. /\ DOMAIN Types(Append(s, e)) = 1..(Len(s) + 1)
      /\ \A i \in 1..(Len(s) + 1) :
           Types(Append(s, e))[i] = IF i <= Len(s) THEN s[i].type ELSE e.type
  BY <1>1 DEF Types
<1>5. Append(Types(s), e.type) = [i \in 1..(Len(s) + 1) |-> Append(Types(s), e.type)[i]]
  BY <1>2
<1> QED
  BY <1>3, <1>4, <1>5 DEF Types

\* No transaction writes both the events and the session.
LEMMA OneTableAtATime ==
  ASSUME [Next]_vars
  PROVE  log' = log \/ status' = status
<1> USE DEF store, frames, signals, commands, elsewhere, others
<1>1. CASE UNCHANGED vars
  BY <1>1 DEF vars
<1>2. CASE LauncherStep
  BY <1>2 DEF LauncherStep, LauncherCreates, LauncherForks, LauncherOpensTmp,
      LauncherWritesTmp, LauncherReplaces
<1>3. CASE MainSteps
  BY <1>3 DEF MainSteps, ForegroundWritesPid, WorkerLoads, WorkerInstallsHandlers,
     MainBegins, MainCreates, MainStarted, MainOpensTmp, MainWritesTmp,
     MainReplaces, MainChmods, Unwind, MainProgress, MainCompleted, MainEnds,
     MainFinally, WorkerExits
<1>4. CASE HandlerStep
  BY <1>4 DEF HandlerStep, HandlerReads, HandlerBegins, HandlerAppends, HandlerEnds,
     HandlerTimesOut, HandlerExits
<1>5. CASE Delivery
  BY <1>5 DEF Delivery, SignalKills, CtrlCAborts, SignalHandled
<1>6. ASSUME NEW c \in Clients, CommandStarts(c) \/ CommandDies(c)
      PROVE  log' = log
  BY <1>6, LooksOnly DEF CommandLooks
<1>7. ASSUME NEW c \in Clients, CommandStep(c)
      PROVE  log' = log \/ status' = status
  <2>1. CASE CommandLooks(c)
    BY <2>1, LooksOnly
  <2>2. CASE ~ CommandLooks(c)
    BY <1>7, <2>2 DEF CommandStep, CommandLooks, Tidy, Clean, CancelSignals,
       CancelEscalates, CreateSession, AppendEvent, FastInserts, EndSession
  <2> QED
    BY <2>1, <2>2
<1>8. CASE WorkerLoadFails \/ MainFails \/ Interrupt \/ Kill \/ LauncherDies
  BY <1>8 DEF WorkerLoadFails, MainFails, Interrupt, Kill, LauncherDies
<1> QED
  BY <1>1, <1>2, <1>3, <1>4, <1>5, <1>6, <1>7, <1>8
  DEF Next, WorkerStep, Environment

LEMMA SessionStep ==
  ASSUME StatusInv, [Next]_vars
  PROVE  Session!Next \/ UNCHANGED <<Types(log), status>>
<1>1. CASE log' = log
  <2>1. UNCHANGED Types(log)
    BY <1>1
  <2>2. ASSUME Recorded(status') PROVE Session!Recorded(status')
    BY <2>2 DEF Recorded, Session!Recorded, Types
  <2> QED
    BY <2>1, <2>2, StatusStep DEF StatusMoves, Session!Next, Session!Create,
       Session!End
<1>2. CASE \E e \in Event : log' = Append(log, e)
  <2>1. PICK e \in Event : log' = Append(log, e)
    BY <1>2
  <2>2. log \in Seq(Event) /\ Len(log') = Len(log) + 1 /\ Len(log) \in Nat
    BY <2>1 DEF StatusInv, TypeInv, StoreTypes
  <2>3. status' = status
    BY <2>2, OneTableAtATime
  <2>4. Types(log)' = Append(Types(log), e.type) /\ e.type \in EventType
    BY <2>1, <2>2, TypesOfAppend DEF Event
  <2> QED
    BY <2>3, <2>4 DEF Session!Next, Session!Record
<1> QED
  BY <1>1, <1>2, LogStep DEF StatusInv

\* Launcher, worker, handlers and commands together are a writer of SessionLog,
\* which is all that Follow assumes of those who write the session.
THEOREM WritersKeepTheSession == Spec => KeepsTheSession
<1>1. Init => Session!Init
  <2> SUFFICES ASSUME Init PROVE Types(log) = <<>> /\ status = "none"
    BY DEF Session!Init
  <2> QED
    BY DEF Init, Types
<1>2. StatusInv /\ [Next]_vars => [Session!Next]_<<Types(log), status>>
  BY SessionStep
<1> QED
  BY <1>1, <1>2, StatusInvInit, StatusInvStep, PTL DEF Spec, KeepsTheSession,
     Session!Spec

-----------------------------------------------------------------------------
(* Steps *)

\* The log after an append.
LEMMA Appended ==
  ASSUME NEW s \in Seq(Event), NEW e \in Event
  PROVE  /\ DOMAIN s = 1..Len(s) /\ Len(s) \in Nat
         /\ DOMAIN Append(s, e) = 1..(Len(s) + 1)
         /\ \A i \in 1..Len(s) : Append(s, e)[i] = s[i]
         /\ Append(s, e)[Len(s) + 1] = e
  OBVIOUS

\* A command leaves the worker's frames alone, unless it kills the worker.
LEMMA CommandFrames ==
  ASSUME NEW c \in Clients, CommandStarts(c) \/ CommandStep(c) \/ CommandDies(c),
         ~ CancelEscalates(c)
  PROVE  UNCHANGED frames
<1> USE DEF others, frames
<1>1. CASE CommandLooks(c)
  BY <1>1, LooksOnly
<1>2. CASE Tidy(c) \/ Clean(c) \/ CancelSignals(c) \/ CreateSession(c)
           \/ EndSession(c) \/ AppendEvent(c) \/ FastInserts(c)
  BY <1>2 DEF Tidy, Clean, CancelSignals, CreateSession, EndSession, AppendEvent,
     FastInserts
<1> QED
  BY <1>1, <1>2 DEF CommandStep, CommandLooks

AppendedByMain ==
  /\ MainSteps
  /\ \E t \in {"started", "progress", "completed"} :
       MainAt(t) /\ log' = Append(log, Entry(t, "main")) /\ UNCHANGED handlers

AppendedByHandler ==
  HandlerAppends /\ log' = Append(log, Entry(HandlerOutcome, "handler"))

AppendedBy(c) ==
  /\ AppendEvent(c) \/ FastInserts(c)
  /\ pc[c] \in {"append", "insert"}
  /\ log' = Append(log, Entry(Verdict(c), c))
  /\ UNCHANGED frames

\* Who may append an event, and which.
LEMMA WhoAppends ==
  ASSUME [Next]_vars
  PROVE  \/ log' = log
         \/ AppendedByMain \/ AppendedByHandler
         \/ \E c \in Clients : AppendedBy(c)
<1> USE DEF store, signals, commands, elsewhere, others
<1>1. CASE UNCHANGED vars
  BY <1>1 DEF vars
<1>2. CASE LauncherStep
  BY <1>2 DEF LauncherStep, LauncherCreates, LauncherForks, LauncherOpensTmp,
      LauncherWritesTmp, LauncherReplaces
<1>3. CASE MainSteps
  <2>1. CASE MainStarted \/ MainProgress \/ MainCompleted
    BY <1>3, <2>1 DEF MainStarted, MainProgress, MainCompleted, MainCommits,
       AppendedByMain
  <2>2. CASE ~ (MainStarted \/ MainProgress \/ MainCompleted)
    BY <1>3, <2>2 DEF MainSteps, ForegroundWritesPid, WorkerLoads,
       WorkerInstallsHandlers, MainBegins, MainCreates, MainOpensTmp,
       MainWritesTmp, MainReplaces, MainChmods, Unwind, MainEnds, MainFinally,
       WorkerExits
  <2> QED BY <2>1, <2>2
<1>4. CASE HandlerStep
  BY <1>4 DEF HandlerStep, HandlerReads, HandlerBegins, HandlerAppends, HandlerEnds,
     HandlerTimesOut, HandlerExits, AppendedByHandler
<1>5. CASE Delivery
  BY <1>5 DEF Delivery, SignalKills, CtrlCAborts, SignalHandled
<1>6. ASSUME NEW c \in Clients, CommandStarts(c) \/ CommandDies(c) PROVE log' = log
  BY <1>6, LooksOnly DEF CommandLooks
<1>7. ASSUME NEW c \in Clients, CommandStep(c) PROVE log' = log \/ AppendedBy(c)
  <2>1. CASE CommandLooks(c)
    BY <2>1, LooksOnly
  <2>2. CASE AppendEvent(c) \/ FastInserts(c)
    BY <2>2 DEF AppendEvent, FastInserts, At, AppendedBy
  <2>3. CASE Tidy(c) \/ Clean(c) \/ CancelSignals(c) \/ CancelEscalates(c)
             \/ CreateSession(c) \/ EndSession(c)
    BY <2>3 DEF Tidy, Clean, CancelSignals, CancelEscalates, CreateSession, EndSession
  <2> QED BY <1>7, <2>1, <2>2, <2>3 DEF CommandStep, CommandLooks
<1>8. CASE WorkerLoadFails \/ MainFails \/ Interrupt \/ Kill \/ LauncherDies
  BY <1>8 DEF WorkerLoadFails, MainFails, Interrupt, Kill, LauncherDies
<1> QED
  BY <1>1, <1>2, <1>3, <1>4, <1>5, <1>6, <1>7, <1>8 DEF Next, WorkerStep, Environment

-----------------------------------------------------------------------------
(* The last word *)

Late == {"finally", "exit", "gone"}

HandlerRecorded == \E i \in DOMAIN log : log[i].by = "handler"

\* Once a handler has recorded its event, the main frame does not run again: the
\* handlers are active until the exception has taken it to its `finally`.
LastWordInv ==
  /\ HandlerSpeaksLast
  /\ HandlerRecorded => handlers # <<>> \/ main \in Late

\* An interrupted main frame stays interrupted until it is in its `finally`.
LEMMA InterruptedStays ==
  ASSUME TypeInv, [Next]_vars, handlers # <<>> \/ main \in Late
  PROVE  (handlers # <<>> \/ main \in Late)'
<1> USE DEF store, frames, signals, commands, elsewhere, others, Late
<1>1. CASE UNCHANGED vars
  BY <1>1 DEF vars
<1>2. CASE LauncherStep
  BY <1>2 DEF LauncherStep, LauncherCreates, LauncherForks, LauncherOpensTmp,
      LauncherWritesTmp, LauncherReplaces
<1>3. CASE MainSteps
  BY <1>3 DEF MainSteps, ForegroundWritesPid, WorkerLoads, WorkerInstallsHandlers,
     MainBegins, MainCreates, MainStarted, MainOpensTmp, MainWritesTmp,
     MainReplaces, MainChmods, Unwind, MainProgress, MainCompleted, MainEnds,
     MainFinally, WorkerExits, MainCommits, MainAt, Gone
<1>4. CASE HandlerStep
  <2>1. handlers \in Seq(HandlerFrame) /\ handlers # <<>>
    BY <1>4 DEF TypeInv, WorkerTypes, HandlerStep, HandlerReads, HandlerBegins,
       HandlerAppends, HandlerEnds, HandlerTimesOut, HandlerExits, Blocked, HandlerAt
  <2>2. CASE HandlerBegins
    BY <2>1, <2>2 DEF HandlerBegins
  <2>3. CASE HandlerTimesOut \/ HandlerExits
    BY <2>3 DEF HandlerTimesOut, HandlerExits, Unwind
  <2>4. CASE HandlerReads \/ HandlerAppends \/ HandlerEnds
    <3>1. Len(handlers') = Len(handlers) /\ Len(handlers) # 0
      BY <2>1, <2>4, TopOK, GotoOK DEF HandlerReads, HandlerAppends, HandlerEnds
    <3> QED BY <3>1, EmptyStack
  <2> QED BY <1>4, <2>2, <2>3, <2>4 DEF HandlerStep
<1>5. CASE Delivery
  <2>1. CASE SignalKills \/ CtrlCAborts
    BY <2>1 DEF SignalKills, CtrlCAborts, Gone
  <2>2. ASSUME NEW sig \in Signals, SignalHandled(sig) PROVE handlers' # <<>>
    <3>1. handlers \in Seq(HandlerFrame) /\ Frame(sig, "read") \in HandlerFrame
          /\ handlers' = Append(handlers, Frame(sig, "read"))
      BY <2>2 DEF SignalHandled, TypeInv, WorkerTypes, HandlerFrame, Frame
    <3>2. Len(handlers') = Len(handlers) + 1 /\ Len(handlers) \in Nat
      BY <3>1, PushOK
    <3> QED BY <3>2, EmptyStack
  <2> QED BY <1>5, <2>1, <2>2 DEF Delivery
<1>6. ASSUME NEW c \in Clients, CommandStarts(c) \/ CommandStep(c) \/ CommandDies(c)
      PROVE  (handlers # <<>> \/ main \in Late)'
  <2>1. CASE CancelEscalates(c)
    BY <2>1 DEF CancelEscalates, Gone
  <2>2. CASE ~ CancelEscalates(c)
    <3>1. UNCHANGED <<main, handlers>>
      BY <1>6, <2>2, CommandFrames
    <3> QED BY <3>1
  <2> QED BY <2>1, <2>2
<1>7. CASE WorkerLoadFails \/ MainFails \/ Interrupt \/ Kill \/ LauncherDies
  BY <1>7 DEF WorkerLoadFails, MainFails, Interrupt, Kill, LauncherDies, Gone, Unwind
<1> QED
  BY <1>1, <1>2, <1>3, <1>4, <1>5, <1>6, <1>7 DEF Next, WorkerStep, Environment

LEMMA LastWordStep == TypeInv /\ LastWordInv /\ [Next]_vars => LastWordInv'
<1> SUFFICES ASSUME TypeInv, LastWordInv, [Next]_vars PROVE LastWordInv'
  OBVIOUS
<1>1. log \in Seq(Event) /\ handlers \in Seq(HandlerFrame)
  BY DEF TypeInv, StoreTypes, WorkerTypes
<1>2. CASE log' = log
  BY <1>2, InterruptedStays DEF LastWordInv, HandlerSpeaksLast, HandlerRecorded
<1>3. CASE AppendedByMain
  <2>1. PICK e \in Event : log' = Append(log, e) /\ e.by = "main"
    BY <1>3, EventsOK DEF AppendedByMain, Entry
  <2>2. ~ HandlerRecorded
    BY <1>3 DEF AppendedByMain, MainAt, LastWordInv, Late
  <2>3. \A i \in DOMAIN log' : log'[i].by # "handler"
    BY <1>1, <2>1, <2>2, Appended DEF HandlerRecorded
  <2> QED BY <2>3 DEF LastWordInv, HandlerSpeaksLast, HandlerRecorded
<1>4. CASE AppendedByHandler
  <2>1. HandlerOutcome \in EventType /\ handlers # <<>> /\ HandlerGoto("end")
    BY <1>1, <1>4, TopOK, OutcomeIsTerminal
    DEF AppendedByHandler, HandlerAppends, HandlerAt, HandlerFrame, HandlerOutcome
  <2>2. PICK e \in Event : log' = Append(log, e) /\ e.by = "handler"
    BY <1>4, <2>1, EventsOK DEF AppendedByHandler, Entry
  <2>3. handlers' # <<>>
    <3>1. Len(handlers') = Len(handlers) /\ Len(handlers) # 0
      BY <1>1, <2>1, TopOK, GotoOK
    <3> QED BY <3>1, EmptyStack
  <2>4. HandlerSpeaksLast'
    BY <1>1, <2>2, Appended DEF LastWordInv, HandlerSpeaksLast
  <2> QED BY <2>3, <2>4 DEF LastWordInv
<1>5. ASSUME NEW c \in Clients, AppendedBy(c) PROVE LastWordInv'
  <2>1. PICK e \in Event : log' = Append(log, e) /\ e.by = c
    BY <1>5, EventsOK DEF AppendedBy, Entry
  <2>2. e.by \notin {"main", "handler"}
    BY <2>1, ConstantsOK
  <2>3. HandlerSpeaksLast'
    BY <1>1, <2>1, <2>2, Appended DEF LastWordInv, HandlerSpeaksLast
  <2>4. HandlerRecorded' => HandlerRecorded
    BY <1>1, <2>1, <2>2, Appended DEF HandlerRecorded
  <2> QED BY <1>5, <2>3, <2>4 DEF LastWordInv, AppendedBy, frames
<1> QED
  BY <1>2, <1>3, <1>4, <1>5, WhoAppends

\* Nothing the main frame records follows an event of a signal handler, however
\* many signals arrive and whatever they interrupt.
THEOREM HandlersHaveTheLastWord == Spec => []HandlerSpeaksLast
<1>1. Init => LastWordInv
  BY DEF Init, LastWordInv, HandlerSpeaksLast, HandlerRecorded
<1>2. LastWordInv => HandlerSpeaksLast
  BY DEF LastWordInv
<1> QED
  BY <1>1, <1>2, TypeInit, TypeStep, LastWordStep, PTL DEF Spec

-----------------------------------------------------------------------------
(* Each outcome once *)

RecordedByHandler(type) ==
  \E i \in DOMAIN log : log[i].by = "handler" /\ log[i].type = type

\* What the innermost handler is about to append no handler has appended: those
\* it interrupted do not run while it does, and never again afterwards.
OnceInv ==
  /\ WorkerCancelsOnce
  /\ handlers # <<>> /\ Top.step = "append" => ~ RecordedByHandler(HandlerOutcome)

\* A handler decides to append only when it reads the log.
LEMMA DecidesToAppend ==
  ASSUME TypeInv, [Next]_vars
  PROVE  \/ handlers' = handlers \/ handlers' = <<>>
         \/ HandlerReads
         \/ (handlers # <<>> /\ Top.step # "append")'
<1> USE DEF store, frames, signals, commands, elsewhere, others
<1> DEFINE New == (handlers # <<>> /\ Top.step # "append")'
<1>1. CASE UNCHANGED vars
  BY <1>1 DEF vars
<1>2. CASE LauncherStep
  BY <1>2 DEF LauncherStep, LauncherCreates, LauncherForks, LauncherOpensTmp,
      LauncherWritesTmp, LauncherReplaces
<1>3. CASE MainSteps
  BY <1>3 DEF MainSteps, ForegroundWritesPid, WorkerLoads, WorkerInstallsHandlers,
     MainBegins, MainCreates, MainStarted, MainOpensTmp, MainWritesTmp,
     MainReplaces, MainChmods, Unwind, MainProgress, MainCompleted, MainEnds,
     MainFinally, WorkerExits, MainCommits, MainAt, Gone
<1>4. CASE HandlerStep
  <2>1. handlers \in Seq(HandlerFrame) /\ handlers # <<>>
    BY <1>4 DEF TypeInv, WorkerTypes, HandlerStep, HandlerReads, HandlerBegins,
       HandlerAppends, HandlerEnds, HandlerTimesOut, HandlerExits, Blocked, HandlerAt
  <2>2. CASE HandlerBegins \/ HandlerTimesOut \/ HandlerExits
    BY <2>2 DEF HandlerBegins, HandlerTimesOut, HandlerExits, Unwind
  <2>3. ASSUME HandlerAppends \/ HandlerEnds PROVE New
    <3>1. PICK step \in {"end", "cleanup"} : HandlerGoto(step)
      BY <2>3 DEF HandlerAppends, HandlerEnds
    <3>2. /\ Len(handlers') = Len(handlers) /\ Len(handlers) # 0
          /\ handlers'[Len(handlers)] = Frame(Top.sig, step)
      BY <2>1, <3>1, TopOK, GotoOK
    <3>3. Frame(Top.sig, step).step = step
      BY DEF Frame
    <3> QED BY <3>2, <3>3, EmptyStack
  <2> QED BY <1>4, <2>2, <2>3 DEF HandlerStep
<1>5. CASE Delivery
  <2>1. CASE SignalKills \/ CtrlCAborts
    BY <2>1 DEF SignalKills, CtrlCAborts, Gone
  <2>2. ASSUME NEW sig \in Signals, SignalHandled(sig) PROVE New
    <3>1. handlers \in Seq(HandlerFrame) /\ Frame(sig, "read") \in HandlerFrame
          /\ Frame(sig, "read").step = "read"
          /\ handlers' = Append(handlers, Frame(sig, "read"))
      BY <2>2 DEF SignalHandled, TypeInv, WorkerTypes, HandlerFrame, Frame
    <3>2. Len(handlers') = Len(handlers) + 1 /\ Len(handlers) \in Nat
          /\ handlers'[Len(handlers) + 1] = Frame(sig, "read")
      BY <3>1, PushOK
    <3> QED BY <3>1, <3>2, EmptyStack
  <2> QED BY <1>5, <2>1, <2>2 DEF Delivery
<1>6. ASSUME NEW c \in Clients, CommandStarts(c) \/ CommandStep(c) \/ CommandDies(c)
      PROVE  handlers' = handlers \/ handlers' = <<>>
  BY <1>6, CommandMovesAlone DEF TypeInv
<1>7. CASE WorkerLoadFails \/ MainFails \/ Interrupt \/ Kill \/ LauncherDies
  BY <1>7 DEF WorkerLoadFails, MainFails, Interrupt, Kill, LauncherDies, Gone, Unwind
<1> QED
  BY <1>1, <1>2, <1>3, <1>4, <1>5, <1>6, <1>7 DEF Next, WorkerStep, Environment

LEMMA OnceStep == TypeInv /\ OnceInv /\ [Next]_vars => OnceInv'
<1> SUFFICES ASSUME TypeInv, OnceInv, [Next]_vars PROVE OnceInv'
  OBVIOUS
<1>1. log \in Seq(Event) /\ handlers \in Seq(HandlerFrame)
  BY DEF TypeInv, StoreTypes, WorkerTypes
<1>2. CASE AppendedByHandler
  <2>1. /\ HandlerOutcome \in EventType /\ handlers # <<>> /\ HandlerGoto("end")
        /\ Top.step = "append"
    BY <1>1, <1>2, TopOK, OutcomeIsTerminal
    DEF AppendedByHandler, HandlerAppends, HandlerAt, HandlerFrame, HandlerOutcome
  <2>2. PICK e \in Event : /\ log' = Append(log, e)
                           /\ e.by = "handler" /\ e.type = HandlerOutcome
    BY <1>2, <2>1, EventsOK DEF AppendedByHandler, Entry
  <2>3. ~ RecordedByHandler(HandlerOutcome) /\ WorkerCancelsOnce
    BY <2>1 DEF OnceInv
  <2>4. WorkerCancelsOnce'
    BY <1>1, <2>2, <2>3, Appended DEF WorkerCancelsOnce, RecordedByHandler
  <2>5. (Top.step = "end")'
    <3>1. Len(handlers') = Len(handlers) /\ handlers'[Len(handlers)] = Frame(Top.sig, "end")
      BY <1>1, <2>1, GotoOK
    <3>2. Frame(Top.sig, "end").step = "end"
      BY DEF Frame
    <3> QED BY <3>1, <3>2
  <2> QED BY <2>4, <2>5 DEF OnceInv
<1>3. ASSUME ~ AppendedByHandler
      PROVE  /\ WorkerCancelsOnce'
             /\ \A t : RecordedByHandler(t)' => RecordedByHandler(t)
  <2>1. CASE log' = log
    BY <2>1 DEF OnceInv, WorkerCancelsOnce, RecordedByHandler
  <2>2. ASSUME log' # log
        PROVE  \E e \in Event : log' = Append(log, e) /\ e.by # "handler"
    <3>1. CASE AppendedByMain
      BY <3>1, EventsOK DEF AppendedByMain, Entry
    <3>2. ASSUME NEW c \in Clients, AppendedBy(c)
          PROVE  \E e \in Event : log' = Append(log, e) /\ e.by # "handler"
      BY <3>2, EventsOK, ConstantsOK DEF AppendedBy, Entry
    <3> QED BY <1>3, <2>2, <3>1, <3>2, WhoAppends
  <2>3. CASE log' # log
    <3>1. PICK e \in Event : log' = Append(log, e) /\ e.by # "handler"
      BY <2>2, <2>3
    <3> QED
      BY <1>1, <3>1, Appended DEF OnceInv, WorkerCancelsOnce, RecordedByHandler
  <2> QED BY <2>1, <2>3
<1>4. CASE ~ AppendedByHandler /\ handlers' = handlers
  BY <1>3, <1>4 DEF OnceInv, HandlerOutcome
<1>5. CASE ~ AppendedByHandler /\ handlers' = <<>>
  BY <1>3, <1>5 DEF OnceInv
<1>6. CASE ~ AppendedByHandler /\ (handlers # <<>> /\ Top.step # "append")'
  BY <1>3, <1>6 DEF OnceInv
<1>7. CASE ~ AppendedByHandler /\ HandlerReads
  <2>1. handlers # <<>> /\ log' = log
    BY <1>7 DEF HandlerReads, HandlerAt, store
  <2>2. PICK step \in {"append", "cleanup"} : /\ HandlerGoto(step)
                                              /\ step = "append" => ~ Recorded(HandlerOutcome)
    BY <1>7 DEF HandlerReads
  <2>3. /\ Len(handlers') = Len(handlers)
        /\ handlers'[Len(handlers)] = Frame(Top.sig, step)
    BY <1>1, <2>1, <2>2, GotoOK
  <2>4. (Top.sig)' = Top.sig /\ (Top.step)' = step
    BY <2>3 DEF Frame
  <2>5. step = "append" => ~ RecordedByHandler(HandlerOutcome)
    BY <2>2 DEF Recorded, RecordedByHandler
  <2>6. HandlerOutcome' = HandlerOutcome
    BY <2>4 DEF HandlerOutcome, Outcome
  <2> QED BY <1>3, <1>7, <2>1, <2>4, <2>5, <2>6 DEF OnceInv, RecordedByHandler
<1> QED
  BY <1>2, <1>4, <1>5, <1>6, <1>7, DecidesToAppend

\* However the handlers of repeated signals interrupt one another, the worker
\* records each outcome once.
THEOREM OutcomesOnce == Spec => []WorkerCancelsOnce
<1>1. Init => OnceInv
  BY DEF Init, OnceInv, WorkerCancelsOnce
<1>2. OnceInv => WorkerCancelsOnce
  BY DEF OnceInv
<1> QED
  BY <1>1, <1>2, TypeInit, TypeStep, OnceStep, PTL DEF Spec

-----------------------------------------------------------------------------
(* No false verdict *)

\* The worker has come and is past the last thing it records, or the session
\* counts as cancelled, or the two writes of the PID file have met.
Over ==
  \/ worker \in {"aborted", "exited", "killed"}
  \/ main \in {"finally", "exit"}
  \/ \E i \in DOMAIN handlers : handlers[i].step = "cleanup"
  \/ Recorded("cancelled")
  \/ Shared

\* Only a worker that has been started has a PID file.
LaunchInv ==
  /\ worker = "absent" => ~ HasPid /\ launcher \in {"create", "popen", "done"}
  /\ worker # "absent" => launcher \in {"open", "write", "replace", "done"}

\* A writer of the PID file that has not met the other one finds its own number
\* in the temporary file when it renames it.
FilesInv ==
  \/ Shared
  \/ /\ files.pid # "empty"
     /\ launcher = "write" => files.fd["launcher"] = "tmp" /\ files.tmp # "none"
     /\ main = "write" => files.fd["main"] = "tmp" /\ files.tmp # "none"
     /\ launcher = "replace" \/ main = "replace" => files.tmp = "number"
     /\ launcher \notin {"write", "replace"} \/ main \notin {"write", "replace"}

\* What a command knows at each of its steps: a PID file it has seen has a
\* worker behind it that is over if the file is gone; whoever is about to remove
\* the file or to record a crash knows that the worker is over.
KnowsOver(c) ==
  /\ pc[c] \in {"fast_read", "readpid"} => HasPid \/ Over
  /\ pc[c] \in {"tidy", "exists_done", "clean"} => Over
  /\ pc[c] \in {"term", "wait"} => worker # "absent"
  /\ pc[c] \in {"create", "append", "select", "insert", "end"} /\ role[c] # "cancel"
       => Over

CrashInv ==
  /\ LaunchInv
  /\ FilesInv
  /\ status \in Terminal => Over
  /\ Recorded("crashed") => Over
  /\ \A c \in Clients : KnowsOver(c)

\* What a step does to the two PID files.
FilesChange ==
  \/ \E w \in Writer : OpensTmp(w) \/ WritesTmp(w)
  \/ RenamesTmp \/ RemovesPid
  \/ files' = files \/ files' = [files EXCEPT !.pid = "number"]

LEMMA FilesStep == [Next]_vars => FilesChange
<1> SUFFICES ASSUME [Next]_vars PROVE FilesChange
  OBVIOUS
<1> USE DEF store, frames, signals, commands, elsewhere, others, FilesChange
<1>0. "launcher" \in Writer /\ "main" \in Writer
  BY DEF Writer
<1>1. CASE UNCHANGED vars
  BY <1>1 DEF vars
<1>2. CASE LauncherStep
  BY <1>0, <1>2
  DEF LauncherStep, LauncherCreates, LauncherForks, LauncherOpensTmp,
      LauncherWritesTmp, LauncherReplaces
<1>3. CASE MainSteps
  BY <1>0, <1>3
  DEF MainSteps, ForegroundWritesPid, WorkerLoads, WorkerInstallsHandlers,
      MainBegins, MainCreates, MainStarted, MainOpensTmp, MainWritesTmp, MainReplaces,
      MainChmods, MainProgress, MainCompleted, MainEnds, MainFinally, WorkerExits,
      MainCommits
<1>4. CASE HandlerStep
  BY <1>4 DEF HandlerStep, HandlerReads, HandlerBegins, HandlerAppends, HandlerEnds,
     HandlerTimesOut, HandlerExits
<1>5. CASE Delivery
  BY <1>5 DEF Delivery, SignalKills, CtrlCAborts, SignalHandled
<1>6. ASSUME NEW c \in Clients, CommandStarts(c) \/ CommandStep(c) \/ CommandDies(c)
      PROVE  FilesChange
  <2>1. CASE CommandLooks(c)
    BY <2>1, LooksOnly
  <2>2. CASE Tidy(c) \/ Clean(c) \/ CancelSignals(c) \/ CreateSession(c)
             \/ EndSession(c) \/ AppendEvent(c) \/ FastInserts(c) \/ CancelEscalates(c)
    BY <2>2 DEF Tidy, Clean, CancelSignals, CreateSession, EndSession, AppendEvent,
       FastInserts, CancelEscalates
  <2> QED BY <1>6, <2>1, <2>2 DEF CommandStep, CommandLooks
<1>7. CASE WorkerLoadFails \/ MainFails \/ Interrupt \/ Kill \/ LauncherDies
  BY <1>7 DEF WorkerLoadFails, MainFails, Interrupt, Kill, LauncherDies
<1> QED
  BY <1>1, <1>2, <1>3, <1>4, <1>5, <1>6, <1>7 DEF Next, WorkerStep, Environment

LEMMA SharedStays ==
  ASSUME TypeInv, [Next]_vars, Shared
  PROVE  Shared'
<1>1. FilesChange /\ files \in PidFiles
  BY FilesStep DEF TypeInv, StoreTypes
<1> QED
  BY <1>1 DEF FilesChange, PidFiles, Shared, OpensTmp, WritesTmp, RenamesTmp,
     RemovesPid

\* Outside of _write_pid a step at most removes the PID file, or writes it whole.
LEMMA FilesElsewhere ==
  ASSUME TypeInv, FilesInv, [Next]_vars,
         UNCHANGED launcher \/ launcher' \notin {"write", "replace"},
         UNCHANGED main \/ main' \notin {"write", "replace"},
         RemovesPid \/ files' = files \/ files' = [files EXCEPT !.pid = "number"]
  PROVE  FilesInv'
<1>1. CASE Shared
  BY <1>1, SharedStays DEF FilesInv
<1>2. CASE ~ Shared
  <2>1. files \in PidFiles /\ "launcher" \in Writer /\ "main" \in Writer
    BY DEF TypeInv, StoreTypes, Writer
  <2>2. CASE RemovesPid
    <3>1. /\ files'.tmp = files.tmp /\ files'.pid = "none"
          /\ files'.fd = [w \in Writer |-> IF files.fd[w] = "tmp" THEN "tmp" ELSE "none"]
      BY <2>1, <2>2 DEF RemovesPid, PidFiles
    <3> QED BY <1>2, <2>1, <3>1 DEF FilesInv
  <2>3. CASE files' = files
    BY <1>2, <2>3 DEF FilesInv
  <2>4. CASE files' = [files EXCEPT !.pid = "number"]
    BY <1>2, <2>1, <2>4 DEF FilesInv, PidFiles
  <2> QED BY <2>2, <2>3, <2>4
<1> QED BY <1>1, <1>2

LEMMA FilesInvStep == TypeInv /\ LaunchInv /\ FilesInv /\ [Next]_vars => FilesInv'
<1> SUFFICES ASSUME TypeInv, LaunchInv, FilesInv, [Next]_vars PROVE FilesInv'
  OBVIOUS
<1> USE DEF store, frames, signals, commands, elsewhere, others
<1>1. files \in PidFiles /\ "launcher" \in Writer /\ "main" \in Writer
  BY DEF TypeInv, StoreTypes, Writer
<1>2. CASE Shared
  BY <1>2, SharedStays DEF FilesInv
<1>3. CASE LauncherOpensTmp
  BY <1>1, <1>3 DEF LauncherOpensTmp, OpensTmp, PidFiles, FilesInv, Shared
<1>4. CASE MainOpensTmp
  BY <1>1, <1>4 DEF MainOpensTmp, MainAt, OpensTmp, PidFiles, FilesInv, Shared
<1>5. CASE LauncherWritesTmp
  BY <1>1, <1>2, <1>5 DEF LauncherWritesTmp, WritesTmp, PidFiles, FilesInv, Shared
<1>6. CASE MainWritesTmp
  BY <1>1, <1>2, <1>6 DEF MainWritesTmp, MainAt, WritesTmp, PidFiles, FilesInv, Shared
<1>7. CASE LauncherReplaces
  BY <1>1, <1>2, <1>7 DEF LauncherReplaces, RenamesTmp, PidFiles, FilesInv, Shared
<1>8. CASE MainReplaces
  BY <1>1, <1>2, <1>8
  DEF MainReplaces, MainAt, RenamesTmp, Unwind, PidFiles, FilesInv, Shared
<1>9. CASE LauncherCreates \/ LauncherForks \/ UNCHANGED vars
  BY <1>9, FilesElsewhere DEF LauncherCreates, LauncherForks, vars
<1>10. CASE MainSteps /\ ~ (MainOpensTmp \/ MainWritesTmp \/ MainReplaces)
  BY <1>10, FilesElsewhere
  DEF MainSteps, ForegroundWritesPid, WorkerLoads, WorkerInstallsHandlers,
      MainBegins, MainCreates, MainStarted, MainChmods, MainProgress, MainCompleted,
      MainEnds, MainFinally, WorkerExits, MainCommits, Gone, Unwind
<1>11. CASE HandlerStep
  BY <1>11, FilesElsewhere
  DEF HandlerStep, HandlerReads, HandlerBegins, HandlerAppends, HandlerEnds,
      HandlerTimesOut, HandlerExits, Unwind
<1>12. CASE Delivery
  BY <1>12, FilesElsewhere DEF Delivery, SignalKills, CtrlCAborts, SignalHandled, Gone
<1>13. ASSUME NEW c \in Clients, CommandStarts(c) \/ CommandStep(c) \/ CommandDies(c)
       PROVE  FilesInv'
  <2>1. CASE CommandLooks(c)
    BY <2>1, LooksOnly, FilesElsewhere
  <2>2. CASE Tidy(c) \/ Clean(c) \/ CancelSignals(c) \/ CreateSession(c)
             \/ EndSession(c) \/ AppendEvent(c) \/ FastInserts(c) \/ CancelEscalates(c)
    BY <2>2, FilesElsewhere
    DEF Tidy, Clean, CancelSignals, CreateSession, EndSession, AppendEvent,
        FastInserts, CancelEscalates, Gone
  <2> QED BY <1>13, <2>1, <2>2 DEF CommandStep, CommandLooks
<1>14. CASE WorkerLoadFails \/ MainFails \/ Interrupt \/ Kill \/ LauncherDies
  BY <1>14, FilesElsewhere
  DEF WorkerLoadFails, MainFails, Interrupt, Kill, LauncherDies, Gone, Unwind
<1> QED
  BY <1>2, <1>3, <1>4, <1>5, <1>6, <1>7, <1>8, <1>9, <1>10, <1>11, <1>12, <1>13, <1>14
  DEF Next, LauncherStep, WorkerStep, Environment

LEMMA LaunchStep == TypeInv /\ LaunchInv /\ [Next]_vars => LaunchInv'
<1> SUFFICES ASSUME TypeInv, LaunchInv, [Next]_vars PROVE LaunchInv'
  OBVIOUS
<1> USE DEF store, frames, signals, commands, elsewhere, others, LaunchInv, HasPid
<1>1. CASE UNCHANGED vars
  BY <1>1 DEF vars
<1>2. CASE LauncherStep
  BY <1>2 DEF LauncherStep, LauncherCreates, LauncherForks, LauncherOpensTmp,
      LauncherWritesTmp, LauncherReplaces
<1>3. CASE MainSteps
  BY <1>3, PidFileSteps DEF MainSteps, ForegroundWritesPid, WorkerLoads,
     WorkerInstallsHandlers, MainBegins, MainCreates, MainStarted, MainOpensTmp,
     MainWritesTmp, MainReplaces, MainChmods, Unwind, MainProgress, MainCompleted,
     MainEnds, MainFinally, WorkerExits, MainCommits, MainAt, Gone
<1>4. CASE HandlerStep
  BY <1>4, PidFileSteps DEF HandlerStep, HandlerReads, HandlerBegins,
     HandlerAppends, HandlerEnds, HandlerTimesOut, HandlerExits, Unwind
<1>5. CASE Delivery
  BY <1>5 DEF Delivery, SignalKills, CtrlCAborts, SignalHandled, Gone
<1>6. ASSUME NEW c \in Clients, CommandStarts(c) \/ CommandStep(c) \/ CommandDies(c)
      PROVE  LaunchInv'
  <2>1. CASE CommandLooks(c)
    BY <2>1, LooksOnly
  <2>2. CASE CancelEscalates(c)
    BY <2>2 DEF CancelEscalates, Gone
  <2>3. CASE Tidy(c) \/ Clean(c) \/ CancelSignals(c) \/ CreateSession(c)
             \/ EndSession(c) \/ AppendEvent(c) \/ FastInserts(c)
    BY <2>3, PidFileSteps DEF Tidy, Clean, CancelSignals, CreateSession,
       EndSession, AppendEvent, FastInserts
  <2> QED BY <1>6, <2>1, <2>2, <2>3 DEF CommandStep, CommandLooks
<1>7. CASE WorkerLoadFails \/ MainFails \/ Interrupt \/ Kill \/ LauncherDies
  BY <1>7, PidFileSteps DEF WorkerLoadFails, MainFails, Interrupt, Kill,
     LauncherDies, Gone, Unwind, MainAt
<1> QED
  BY <1>1, <1>2, <1>3, <1>4, <1>5, <1>6, <1>7 DEF Next, WorkerStep, Environment

\* A frame below the top of the stack stays where it is, and so does the top
\* once it is at its cleanup, until the stack is left for `finally`.
LEMMA OverStays ==
  ASSUME TypeInv, LaunchInv, [Next]_vars, Over
  PROVE  Over'
<1> USE DEF store, frames, signals, commands, elsewhere, others
<1>0. CASE Recorded("cancelled") \/ Shared
  BY <1>0, RecordedStays, SharedStays DEF Over
<1>1. ASSUME UNCHANGED <<worker, main, handlers>>, ~ Recorded("cancelled"), ~ Shared
      PROVE  Over'
  BY <1>1 DEF Over
<1>2. CASE LauncherStep
  BY <1>0, <1>2 DEF LauncherStep, LauncherCreates, LauncherForks, LauncherOpensTmp,
      LauncherWritesTmp, LauncherReplaces,
     LaunchInv, Over
<1>3. CASE MainSteps
  <2>1. handlers = <<>> /\ Alive
    BY <1>3 DEF MainSteps, ForegroundWritesPid, WorkerLoads,
       WorkerInstallsHandlers, MainBegins, MainCreates, MainStarted, MainOpensTmp,
       MainWritesTmp, MainReplaces, MainChmods, Unwind, MainProgress,
       MainCompleted, MainEnds, MainFinally, WorkerExits, MainCommits, MainAt
  <2>2. Recorded("cancelled") \/ Shared \/ main \in {"finally", "exit"}
    BY <2>1 DEF Over
  <2>3. CASE main \in {"finally", "exit"}
    BY <1>3, <2>3 DEF MainSteps, ForegroundWritesPid, WorkerLoads,
       WorkerInstallsHandlers, MainBegins, MainCreates, MainStarted, MainOpensTmp,
       MainWritesTmp, MainReplaces, MainChmods, Unwind, MainProgress,
       MainCompleted, MainEnds, MainFinally, WorkerExits, MainCommits, MainAt,
       Gone, Over
  <2> QED BY <1>0, <2>2, <2>3
<1>4. CASE HandlerStep
  <2>1. handlers \in Seq(HandlerFrame) /\ handlers # <<>>
    BY <1>4 DEF TypeInv, WorkerTypes, HandlerStep, HandlerReads, HandlerBegins,
       HandlerAppends, HandlerEnds, HandlerTimesOut, HandlerExits, Blocked, HandlerAt
  <2>2. CASE HandlerBegins
    BY <1>0, <1>1, <2>2 DEF HandlerBegins
  <2>3. CASE HandlerTimesOut \/ HandlerExits
    BY <2>3 DEF HandlerTimesOut, HandlerExits, Unwind, Over
  <2>4. CASE HandlerReads \/ HandlerAppends \/ HandlerEnds
    <3>1. PICK step \in {"append", "end", "cleanup"} : HandlerGoto(step)
      BY <2>4 DEF HandlerReads, HandlerAppends, HandlerEnds
    <3>2. Top.step # "cleanup" /\ UNCHANGED <<worker, main>>
      BY <2>4 DEF HandlerReads, HandlerAppends, HandlerEnds, HandlerAt
    <3>3. /\ handlers' \in Seq(HandlerFrame) /\ Len(handlers') = Len(handlers)
          /\ \A i \in DOMAIN handlers \ {Len(handlers)} : handlers'[i] = handlers[i]
      BY <2>1, <3>1, GotoOK
    <3>4. DOMAIN handlers' = DOMAIN handlers
      BY <2>1, <3>3
    <3> QED BY <1>0, <3>2, <3>3, <3>4 DEF Over
  <2> QED BY <1>4, <2>2, <2>3, <2>4 DEF HandlerStep
<1>5. CASE Delivery
  <2>1. CASE SignalKills \/ CtrlCAborts
    BY <2>1 DEF SignalKills, CtrlCAborts, Gone, Over
  <2>2. ASSUME NEW sig \in Signals, SignalHandled(sig) PROVE Over'
    <3>1. handlers \in Seq(HandlerFrame) /\ Frame(sig, "read") \in HandlerFrame
          /\ handlers' = Append(handlers, Frame(sig, "read"))
          /\ UNCHANGED <<worker, main>>
      BY <2>2 DEF SignalHandled, TypeInv, WorkerTypes, HandlerFrame, Frame
    <3>2. /\ DOMAIN handlers = 1..Len(handlers) /\ Len(handlers) \in Nat
          /\ DOMAIN handlers' = 1..(Len(handlers) + 1)
          /\ \A i \in 1..Len(handlers) : handlers'[i] = handlers[i]
      BY <3>1, PushOK
    <3> QED BY <1>0, <3>1, <3>2 DEF Over
  <2> QED BY <1>5, <2>1, <2>2 DEF Delivery
<1>6. ASSUME NEW c \in Clients, CommandStarts(c) \/ CommandStep(c) \/ CommandDies(c)
      PROVE  Over'
  <2>1. CASE CancelEscalates(c)
    BY <2>1 DEF CancelEscalates, Gone, Over
  <2>2. CASE ~ CancelEscalates(c)
    BY <1>0, <1>1, <1>6, <2>2, CommandFrames
  <2> QED BY <2>1, <2>2
<1>7. CASE WorkerLoadFails \/ MainFails \/ Kill
  BY <1>7 DEF WorkerLoadFails, MainFails, Kill, Gone, Unwind, Over
<1>8. CASE Interrupt \/ LauncherDies \/ UNCHANGED vars
  BY <1>0, <1>1, <1>8 DEF Interrupt, LauncherDies, vars
<1> QED
  BY <1>2, <1>3, <1>4, <1>5, <1>6, <1>7, <1>8 DEF Next, WorkerStep, Environment

\* A PID file disappears only when the worker is over.
LEMMA PidGone ==
  ASSUME TypeInv, CrashInv, [Next]_vars, HasPid, ~ HasPid'
  PROVE  Over'
<1> USE DEF store, frames, signals, commands, elsewhere, others, HasPid
<1>0. "launcher" \in Writer /\ "main" \in Writer
  BY DEF Writer
<1>1. CASE LauncherStep
  BY <1>0, <1>1, PidFileSteps DEF LauncherStep, LauncherCreates, LauncherForks,
     LauncherOpensTmp, LauncherWritesTmp, LauncherReplaces
<1>2. CASE MainSteps
  BY <1>0, <1>2, PidFileSteps DEF MainSteps, ForegroundWritesPid, WorkerLoads,
     WorkerInstallsHandlers, MainBegins, MainCreates, MainStarted, MainOpensTmp,
     MainWritesTmp, MainReplaces, MainChmods, Unwind, MainProgress, MainCompleted,
     MainEnds, MainFinally, WorkerExits, MainCommits, Over
<1>3. CASE HandlerStep
  BY <1>3 DEF HandlerStep, HandlerReads, HandlerBegins, HandlerAppends, HandlerEnds,
     HandlerTimesOut, HandlerExits, Unwind, Over
<1>4. CASE Delivery
  BY <1>4 DEF Delivery, SignalKills, CtrlCAborts, SignalHandled
<1>5. ASSUME NEW c \in Clients, CommandStarts(c) \/ CommandStep(c) \/ CommandDies(c)
      PROVE  Over'
  <2>1. CASE CommandLooks(c)
    BY <2>1, LooksOnly
  <2>2. CASE Tidy(c) \/ Clean(c)
    <3>1. Over
      BY <2>2 DEF Tidy, Clean, At, CrashInv, KnowsOver
    <3> QED BY <3>1, OverStays DEF CrashInv
  <2>3. CASE CancelSignals(c) \/ CreateSession(c) \/ EndSession(c)
             \/ AppendEvent(c) \/ FastInserts(c) \/ CancelEscalates(c)
    BY <2>3 DEF CancelSignals, CreateSession, EndSession, AppendEvent, FastInserts,
       CancelEscalates
  <2> QED BY <1>5, <2>1, <2>2, <2>3 DEF CommandStep, CommandLooks
<1>6. CASE WorkerLoadFails \/ MainFails \/ Interrupt \/ Kill \/ LauncherDies
           \/ UNCHANGED vars
  BY <1>6 DEF WorkerLoadFails, MainFails, Interrupt, Kill, LauncherDies, Gone, Over,
     vars
<1> QED
  BY <1>1, <1>2, <1>3, <1>4, <1>5, <1>6 DEF Next, WorkerStep, Environment

\* Whoever ends the session is over, or finds it cancelled.
LEMMA TerminalIsOver ==
  ASSUME StatusInv, CrashInv, [Next]_vars, status' \in Terminal
  PROVE  Over'
<1> USE DEF store, frames, signals, commands, elsewhere, others
<1>1. CASE status' = status
  BY <1>1, OverStays DEF StatusInv, CrashInv
<1>2. CASE MainSteps
  <2>1. CASE MainEnds
    BY <2>1 DEF MainEnds, MainCommits, Over
  <2>2. CASE ~ MainEnds
    BY <1>1, <1>2, <2>2 DEF MainSteps, ForegroundWritesPid, WorkerLoads,
       WorkerInstallsHandlers, MainBegins, MainCreates, MainStarted, MainOpensTmp,
       MainWritesTmp, MainReplaces, MainChmods, Unwind, MainProgress,
       MainCompleted, MainFinally, WorkerExits, Created
  <2> QED BY <2>1, <2>2
<1>3. CASE HandlerStep
  <2>1. CASE HandlerEnds
    <3>1. handlers \in Seq(HandlerFrame) /\ handlers # <<>> /\ HandlerGoto("cleanup")
      BY <2>1 DEF StatusInv, TypeInv, WorkerTypes, HandlerEnds, HandlerAt
    <3>2. /\ handlers' \in Seq(HandlerFrame) /\ Len(handlers') = Len(handlers)
          /\ Len(handlers) \in Nat \ {0}
          /\ handlers'[Len(handlers)] = Frame(Top.sig, "cleanup")
      BY <3>1, TopOK, GotoOK
    <3>3. Frame(Top.sig, "cleanup").step = "cleanup"
      BY DEF Frame
    <3> QED BY <3>2, <3>3 DEF Over
  <2>2. CASE ~ HandlerEnds
    BY <1>1, <1>3, <2>2 DEF HandlerStep, HandlerReads, HandlerBegins, HandlerAppends,
       HandlerTimesOut, HandlerExits
  <2> QED BY <2>1, <2>2
<1>4. ASSUME NEW c \in Clients, CommandStarts(c) \/ CommandStep(c) \/ CommandDies(c)
      PROVE  Over'
  <2>1. CASE CommandLooks(c)
    BY <1>1, <2>1, LooksOnly
  <2>2. CASE EndSession(c)
    <3>1. pc[c] = "end"
      BY <2>2 DEF EndSession, At
    <3>2. Recorded(Verdict(c)) /\ (role[c] # "cancel" => Over)
      BY <3>1 DEF StatusInv, CommandsOK, CommandOK, CrashInv, KnowsOver
    <3>3. Over
      BY <3>2 DEF Verdict, Over
    <3> QED BY <3>3, OverStays DEF StatusInv, CrashInv
  <2>3. CASE Tidy(c) \/ Clean(c) \/ CancelSignals(c) \/ CreateSession(c)
             \/ AppendEvent(c) \/ FastInserts(c) \/ CancelEscalates(c)
    BY <1>1, <2>3 DEF Tidy, Clean, CancelSignals, CreateSession, AppendEvent,
       FastInserts, CancelEscalates, Created
  <2> QED BY <1>4, <2>1, <2>2, <2>3 DEF CommandStep, CommandLooks
<1>5. CASE LauncherStep
  BY <1>1, <1>5 DEF LauncherStep, LauncherCreates, LauncherForks, LauncherOpensTmp,
      LauncherWritesTmp, LauncherReplaces,
     Created
<1>6. CASE Delivery
  BY <1>1, <1>6 DEF Delivery, SignalKills, CtrlCAborts, SignalHandled
<1>7. CASE WorkerLoadFails \/ MainFails \/ Interrupt \/ Kill \/ LauncherDies
           \/ UNCHANGED vars
  BY <1>1, <1>7 DEF WorkerLoadFails, MainFails, Interrupt, Kill, LauncherDies, vars
<1> QED
  BY <1>2, <1>3, <1>4, <1>5, <1>6, <1>7 DEF Next, WorkerStep, Environment

\* Only a command that knows the worker to be over records a crash.
LEMMA CrashIsOver ==
  ASSUME StatusInv, CrashInv, [Next]_vars, Recorded("crashed")'
  PROVE  Over'
<1>1. TypeInv /\ log \in Seq(Event) /\ handlers \in Seq(HandlerFrame)
  BY DEF StatusInv, TypeInv, StoreTypes, WorkerTypes
<1>2. CASE Recorded("crashed")
  BY <1>1, <1>2, OverStays DEF CrashInv
<1>3. ASSUME NEW e \in Event, log' = Append(log, e), e.type # "crashed"
      PROVE  Recorded("crashed")
  BY <1>1, <1>3, Appended DEF Recorded
<1>4. CASE AppendedByMain
  <2>1. \E e \in Event : log' = Append(log, e) /\ e.type # "crashed"
    BY <1>4, EventsOK DEF AppendedByMain, Entry
  <2> QED BY <1>2, <1>3, <2>1
<1>5. CASE AppendedByHandler
  <2>1. HandlerOutcome \in EventType /\ HandlerOutcome # "crashed"
    BY <1>1, <1>5, TopOK
    DEF AppendedByHandler, HandlerAppends, HandlerAt, HandlerFrame, HandlerOutcome,
        Outcome
  <2>2. \E e \in Event : log' = Append(log, e) /\ e.type # "crashed"
    BY <1>5, <2>1, EventsOK DEF AppendedByHandler, Entry
  <2> QED BY <1>2, <1>3, <2>2
<1>6. ASSUME NEW c \in Clients, AppendedBy(c) PROVE Over'
  <2>1. CASE role[c] = "cancel"
    <3>1. \E e \in Event : log' = Append(log, e) /\ e.type # "crashed"
      BY <1>6, <2>1, EventsOK DEF AppendedBy, Entry, Verdict
    <3> QED BY <1>2, <1>3, <3>1
  <2>2. CASE role[c] # "cancel"
    BY <1>1, <1>6, <2>2, OverStays DEF AppendedBy, CrashInv, KnowsOver
  <2> QED BY <2>1, <2>2
<1>7. CASE log' = log
  BY <1>2, <1>7 DEF Recorded
<1> QED
  BY <1>4, <1>5, <1>6, <1>7, WhoAppends

\* A step of command c keeps what c knows.
LEMMA CommandKnows ==
  ASSUME StatusInv, CrashInv, [Next]_vars, NEW c \in Clients,
         CommandStarts(c) \/ CommandStep(c) \/ CommandDies(c)
  PROVE  KnowsOver(c)'
<1> USE DEF Goto, At
<1>1. Over => Over'
  BY OverStays DEF StatusInv, CrashInv
<1>2. LaunchInv /\ KnowsOver(c) /\ pc \in [Clients -> Label] /\ role' = role
  BY CommandMovesAlone DEF StatusInv, TypeInv, CommandTypes, CrashInv
<1>3. worker \in {"absent", "alive", "aborted", "exited", "killed"}
  BY DEF StatusInv, TypeInv, WorkerTypes, StoreTypes
<1>4. CASE CommandStarts(c)
  <2>1. files' = files
    BY <1>4, LooksOnly DEF CommandLooks
  <2>2. pc'[c] \in {"not_found", "tidy", "exists", "exists_done", "fast_read", "done"}
        /\ (pc'[c] \in {"tidy", "exists_done"} => status \in Terminal)
        /\ (pc'[c] = "fast_read" => HasPid)
    BY <1>2, <1>4 DEF CommandStarts, CancelReads, StatusReads, QaStarts, FastStarts
  <2> QED BY <1>1, <2>1, <2>2 DEF KnowsOver, CrashInv, HasPid
<1>5. CASE FastReads(c) \/ LooksForPid(c)
  <2>1. files' = files
    BY <1>5, LooksOnly DEF CommandLooks
  <2>2. pc'[c] \in {"tidy", "readpid", "has", "done"}
        /\ (pc'[c] = "tidy" => status \in Terminal \/ pc[c] = "exists_done")
        /\ (pc'[c] = "readpid" => HasPid \/ pc[c] = "fast_read")
    BY <1>2, <1>5 DEF FastReads, LooksForPid
  <2> QED BY <1>1, <1>2, <2>1, <2>2 DEF KnowsOver, CrashInv, HasPid
<1>6. CASE ReadsPid(c)
  <2>1. UNCHANGED <<files, worker>>
    BY <1>6 DEF ReadsPid, others, frames
  <2>2. pc[c] = "readpid" /\ pc'[c] \in {"clean", "term", "done"}
        /\ (pc'[c] = "clean" => ~ (files.pid = "number" /\ Alive))
        /\ (pc'[c] = "term" => Alive)
    BY <1>2, <1>6 DEF ReadsPid
  <2>3. files.pid \in {"none", "empty", "number"} /\ (files.pid = "empty" => Shared)
    BY DEF StatusInv, TypeInv, StoreTypes, PidFiles, Content, CrashInv, FilesInv
  <2>4. pc'[c] = "clean" => Over
    BY <1>2, <1>3, <2>2, <2>3 DEF KnowsOver, LaunchInv, Over, HasPid
  <2> QED BY <1>1, <2>1, <2>2, <2>4 DEF KnowsOver
<1>7. CASE CancelSignals(c) \/ CancelSeesExit(c)
  <2>1. worker' = worker /\ pc[c] \in {"term", "wait"}
    BY <1>7 DEF CancelSignals, CancelSeesExit, others, frames
  <2>2. pc'[c] = "wait" \/ (pc'[c] = "clean" /\ ~ Alive)
    BY <1>2, <1>7 DEF CancelSignals, CancelSeesExit
  <2>3. worker # "absent"
    BY <1>2, <2>1 DEF KnowsOver
  <2>4. pc'[c] = "clean" => Over
    BY <1>3, <2>2, <2>3 DEF Over
  <2> QED BY <1>1, <2>1, <2>2, <2>3, <2>4 DEF KnowsOver
<1>8. CASE CancelEscalates(c)
  BY <1>2, <1>8 DEF CancelEscalates, Gone, KnowsOver, Over
<1>9. CASE CancelAwaits(c) \/ CancelLooks(c) \/ CancelEnsures(c)
  <2>1. role[c] = "cancel" /\ pc'[c] \in {"ensure", "has", "create", "cancelled", "end"}
    BY <1>2, <1>9 DEF CancelAwaits, CancelLooks, CancelEnsures, StatusInv, CommandsOK,
       CommandOK
  <2> QED BY <1>2, <2>1 DEF KnowsOver
<1>10. CASE Clean(c)
  BY <1>1, <1>2, <1>10 DEF Clean, KnowsOver
<1>11. CASE Tidy(c) \/ CommandTimesOut(c) \/ CommandDies(c)
  BY <1>2, <1>11 DEF Tidy, CommandTimesOut, CommandDies, KnowsOver
<1>12. CASE CreateSession(c) \/ AppendEvent(c) \/ FastSelects(c) \/ FastInserts(c)
            \/ EndSession(c)
  BY <1>1, <1>2, <1>12
  DEF CreateSession, AppendEvent, FastSelects, FastInserts, EndSession, KnowsOver
<1> QED
  BY <1>4, <1>5, <1>6, <1>7, <1>8, <1>9, <1>10, <1>11, <1>12 DEF CommandStep

LEMMA WorkerStays ==
  ASSUME [Next]_vars, worker # "absent"
  PROVE  worker' # "absent"
<1> USE DEF store, frames, signals, commands, elsewhere, others
<1>1. CASE LauncherStep
  BY <1>1 DEF LauncherStep, LauncherCreates, LauncherForks, LauncherOpensTmp,
      LauncherWritesTmp, LauncherReplaces
<1>2. CASE MainSteps
  BY <1>2 DEF MainSteps, ForegroundWritesPid, WorkerLoads, WorkerInstallsHandlers,
     MainBegins, MainCreates, MainStarted, MainOpensTmp, MainWritesTmp,
     MainReplaces, MainChmods, Unwind, MainProgress, MainCompleted, MainEnds,
     MainFinally, WorkerExits, MainCommits, Gone
<1>3. CASE HandlerStep
  BY <1>3 DEF HandlerStep, HandlerReads, HandlerBegins, HandlerAppends, HandlerEnds,
     HandlerTimesOut, HandlerExits, Unwind
<1>4. CASE Delivery
  BY <1>4 DEF Delivery, SignalKills, CtrlCAborts, SignalHandled, Gone
<1>5. ASSUME NEW c \in Clients, CommandStarts(c) \/ CommandStep(c) \/ CommandDies(c)
      PROVE  worker' # "absent"
  BY <1>5, CommandFrames DEF CancelEscalates, Gone
<1>6. CASE WorkerLoadFails \/ MainFails \/ Interrupt \/ Kill \/ LauncherDies
           \/ UNCHANGED vars
  BY <1>6 DEF WorkerLoadFails, MainFails, Interrupt, Kill, LauncherDies, Gone,
     Unwind, vars
<1> QED
  BY <1>1, <1>2, <1>3, <1>4, <1>5, <1>6 DEF Next, WorkerStep, Environment

\* A step of anybody else keeps it too.
LEMMA OthersKnow ==
  ASSUME StatusInv, CrashInv, [Next]_vars, NEW c \in Clients,
         UNCHANGED <<role[c], pc[c]>>
  PROVE  KnowsOver(c)'
<1>1. Over => Over'
  BY OverStays DEF StatusInv, CrashInv
<1>2. HasPid /\ ~ HasPid' => Over'
  BY PidGone DEF StatusInv
<1> QED
  BY <1>1, <1>2, WorkerStays DEF CrashInv, KnowsOver

\* Only a step of a command moves a command.
LEMMA SomeoneMoves ==
  ASSUME [Next]_vars
  PROVE  \/ UNCHANGED <<role, pc>>
         \/ \E d \in Clients : CommandStarts(d) \/ CommandStep(d) \/ CommandDies(d)
<1> USE DEF store, frames, signals, commands, elsewhere, others
<1>1. CASE LauncherStep
  BY <1>1 DEF LauncherStep, LauncherCreates, LauncherForks, LauncherOpensTmp,
      LauncherWritesTmp, LauncherReplaces
<1>2. CASE MainSteps
  BY <1>2 DEF MainSteps, ForegroundWritesPid, WorkerLoads, WorkerInstallsHandlers,
     MainBegins, MainCreates, MainStarted, MainOpensTmp, MainWritesTmp,
     MainReplaces, MainChmods, Unwind, MainProgress, MainCompleted, MainEnds,
     MainFinally, WorkerExits, MainCommits
<1>3. CASE HandlerStep
  BY <1>3 DEF HandlerStep, HandlerReads, HandlerBegins, HandlerAppends, HandlerEnds,
     HandlerTimesOut, HandlerExits
<1>4. CASE Delivery
  BY <1>4 DEF Delivery, SignalKills, CtrlCAborts, SignalHandled
<1>5. CASE WorkerLoadFails \/ MainFails \/ Interrupt \/ Kill \/ LauncherDies
           \/ UNCHANGED vars
  BY <1>5 DEF WorkerLoadFails, MainFails, Interrupt, Kill, LauncherDies, vars
<1> QED
  BY <1>1, <1>2, <1>3, <1>4, <1>5 DEF Next, WorkerStep, Environment

LEMMA CrashStep == StatusInv /\ CrashInv /\ [Next]_vars => CrashInv'
<1> SUFFICES ASSUME StatusInv, CrashInv, [Next]_vars PROVE CrashInv'
  OBVIOUS
<1>1. LaunchInv' /\ FilesInv'
  BY LaunchStep, FilesInvStep DEF StatusInv, CrashInv
<1>2. (status \in Terminal => Over)' /\ (Recorded("crashed") => Over)'
  BY TerminalIsOver, CrashIsOver
<1>3. ASSUME NEW c \in Clients PROVE KnowsOver(c)'
  <2>1. CASE CommandStarts(c) \/ CommandStep(c) \/ CommandDies(c)
    BY <2>1, CommandKnows
  <2>2. ASSUME NEW d \in Clients \ {c},
               CommandStarts(d) \/ CommandStep(d) \/ CommandDies(d)
        PROVE  UNCHANGED <<role[c], pc[c]>>
    BY <2>2, CommandMovesAlone DEF StatusInv, TypeInv
  <2>3. CASE UNCHANGED <<role, pc>>
    BY <2>3, OthersKnow
  <2>4. \/ UNCHANGED <<role, pc>>
        \/ \E d \in Clients : CommandStarts(d) \/ CommandStep(d) \/ CommandDies(d)
    BY SomeoneMoves
  <2> QED BY <2>1, <2>2, <2>3, <2>4, OthersKnow
<1> QED
  BY <1>1, <1>2, <1>3 DEF CrashInv

\* However far the check of the PID file and the verdict are apart, nobody
\* records a crash while the worker has something left to record, unless the
\* session counts as cancelled or a detached run's launcher and worker have both
\* had the temporary file of the PID file open (_write_pid), which is when a
\* command takes an empty PID file for that of a dead worker.
THEOREM CrashesAreTrue == Spec => []NoFalseCrash
<1>1. Init => CrashInv
  <2> SUFFICES ASSUME Init PROVE CrashInv
    OBVIOUS
  <2>1. /\ log = <<>> /\ status = "none" /\ files.pid = "none" /\ ~ Shared
        /\ \/ launcher = "create" /\ worker = "absent"
           \/ launcher = "done" /\ worker = "alive"
        /\ main \in {"load", "fgpid"} /\ pc = [c \in Clients |-> "idle"]
    BY DEF Init, Shared
  <2> QED
    BY <2>1 DEF CrashInv, LaunchInv, FilesInv, HasPid, KnowsOver, Recorded
<1>2. StatusInv /\ CrashInv => NoFalseCrash
  BY DEF StatusInv, TypeInv, WorkerTypes, CrashInv, Over, Ending, NoFalseCrash
<1> QED
  BY <1>1, <1>2, StatusInvInit, StatusInvStep, CrashStep, PTL DEF Spec

-----------------------------------------------------------------------------
(* Where one process alone writes the PID file *)

\* Where a worker in the foreground is before there is a temporary file.
BeforeWriting == Unprotected \cup {"create", "started", "open"}

LoneInv ==
  /\ ~ Shared
  /\ Runtime = "evolution" => main \notin PidStep
  /\ Detached => (launcher \in {"create", "popen", "open"} => files.tmp = "none")
  /\ ~ Detached => /\ launcher = "done"
                   /\ main \in BeforeWriting => files.tmp = "none"

LEMMA LoneElsewhere ==
  ASSUME TypeInv, LoneInv,
         UNCHANGED launcher
           \/ (launcher = "create" /\ launcher' = "popen")
           \/ (launcher = "popen" /\ launcher' = "open")
           \/ launcher' = "done",
         (main' = "open" /\ main = "started" /\ Runtime = "run")
           \/ main' = main \/ main' \notin PidStep,
         main' \in BeforeWriting => main \in BeforeWriting,
         RemovesPid \/ files' = files \/ files' = [files EXCEPT !.pid = "number"]
  PROVE  LoneInv'
<1>1. files'.tmp = files.tmp /\ files'.shared = files.shared
  BY DEF TypeInv, StoreTypes, PidFiles, RemovesPid
<1> QED
  BY <1>1 DEF LoneInv, Shared

LEMMA LoneStep ==
  ASSUME Runtime = "evolution" \/ ~ Detached, TypeInv, LoneInv, [Next]_vars
  PROVE  LoneInv'
<1> USE DEF store, frames, signals, commands, elsewhere, others
<1>1. files \in PidFiles /\ "launcher" \in Writer /\ "main" \in Writer
      /\ Runtime \in {"run", "evolution"}
  BY ConstantsOK DEF TypeInv, StoreTypes, Writer
<1>2. CASE LauncherOpensTmp \/ LauncherWritesTmp \/ LauncherReplaces
  BY <1>1, <1>2
  DEF LauncherOpensTmp, LauncherWritesTmp, LauncherReplaces, OpensTmp, WritesTmp,
      RenamesTmp, PidFiles, LoneInv, Shared
<1>3. CASE MainOpensTmp \/ MainWritesTmp \/ MainReplaces
  BY <1>1, <1>3
  DEF MainOpensTmp, MainWritesTmp, MainReplaces, MainAt, Unwind, OpensTmp, WritesTmp,
      RenamesTmp, PidFiles, LoneInv, Shared, BeforeWriting
<1>4. CASE LauncherCreates \/ LauncherForks \/ UNCHANGED vars
  BY <1>4, LoneElsewhere DEF LauncherCreates, LauncherForks, vars
<1>5. CASE MainSteps /\ ~ (MainOpensTmp \/ MainWritesTmp \/ MainReplaces)
  <2>1. main' \in BeforeWriting => main \in BeforeWriting
    BY <1>5
    DEF MainSteps, ForegroundWritesPid, WorkerLoads, WorkerInstallsHandlers,
        MainBegins, MainCreates, MainStarted, MainChmods, MainProgress, MainCompleted,
        MainEnds, MainFinally, WorkerExits, MainCommits, MainAt, Gone, Unwind,
        BeforeWriting
  <2>2. /\ UNCHANGED launcher
        /\ \/ main' = "open" /\ main = "started" /\ Runtime = "run"
           \/ main' = main \/ main' \notin PidStep
        /\ RemovesPid \/ files' = files \/ files' = [files EXCEPT !.pid = "number"]
    BY <1>1, <1>5
    DEF MainSteps, ForegroundWritesPid, WorkerLoads, WorkerInstallsHandlers,
        MainBegins, MainCreates, MainStarted, MainChmods, MainProgress, MainCompleted,
        MainEnds, MainFinally, WorkerExits, MainCommits, MainAt, Gone, Unwind
  <2> QED BY <2>1, <2>2, LoneElsewhere
<1>6. CASE HandlerStep
  BY <1>6, LoneElsewhere
  DEF HandlerStep, HandlerReads, HandlerBegins, HandlerAppends, HandlerEnds,
      HandlerTimesOut, HandlerExits, Unwind, BeforeWriting
<1>7. CASE Delivery
  BY <1>7, LoneElsewhere
  DEF Delivery, SignalKills, CtrlCAborts, SignalHandled, Gone, BeforeWriting
<1>8. ASSUME NEW c \in Clients, CommandStarts(c) \/ CommandStep(c) \/ CommandDies(c)
      PROVE  LoneInv'
  <2>1. CASE CommandLooks(c)
    BY <2>1, LooksOnly, LoneElsewhere
  <2>2. CASE Tidy(c) \/ Clean(c) \/ CancelSignals(c) \/ CreateSession(c)
             \/ EndSession(c) \/ AppendEvent(c) \/ FastInserts(c) \/ CancelEscalates(c)
    BY <2>2, LoneElsewhere
    DEF Tidy, Clean, CancelSignals, CreateSession, EndSession, AppendEvent,
        FastInserts, CancelEscalates, Gone, BeforeWriting
  <2> QED BY <1>8, <2>1, <2>2 DEF CommandStep, CommandLooks
<1>9. CASE WorkerLoadFails \/ MainFails \/ Interrupt \/ Kill \/ LauncherDies
  BY <1>9, LoneElsewhere
  DEF WorkerLoadFails, MainFails, Interrupt, Kill, LauncherDies, Gone, Unwind,
      BeforeWriting
<1> QED
  BY <1>2, <1>3, <1>4, <1>5, <1>6, <1>7, <1>8, <1>9
  DEF Next, LauncherStep, WorkerStep, Environment

\* The exception of the PID file is one of detached runs: in an evolution, whose
\* worker does not write its PID, and in the foreground, where nobody else does,
\* every recorded crash is true unless the session counts as cancelled.
THEOREM LoneCrashesAreTrue ==
  ASSUME Runtime = "evolution" \/ ~ Detached
  PROVE  Spec => [](NoFalseCrash /\ ~ Shared)
<1>1. Init => LoneInv
  BY DEF Init, LoneInv, Shared
<1>2. TypeInv /\ LoneInv /\ [Next]_vars => LoneInv'
  BY LoneStep
<1>3. LoneInv => ~ Shared
  BY DEF LoneInv
<1> QED
  BY <1>1, <1>2, <1>3, TypeInit, TypeStep, CrashesAreTrue, PTL DEF Spec

-----------------------------------------------------------------------------
(* The PID file of a foreground worker *)

\* The lock of the main frame is held only inside its transactions, so that a
\* lone handler is never blocked once `finally` has been reached.
PidInv ==
  /\ launcher = "done"
  /\ lock = 1 => main \in MainTx
  /\ main = "exit" => ~ HasPid
  /\ worker = "exited" => ~ HasPid

LEMMA PidInvStep ==
  ASSUME ~ Detached, MaxDepth <= 1,
         TypeInv, PidInv, [Next]_vars
  PROVE  PidInv'
<1> USE DEF store, frames, signals, commands, elsewhere, others, PidInv, HasPid
<1>1. CASE LauncherStep
  BY <1>1 DEF LauncherStep, LauncherCreates, LauncherForks, LauncherOpensTmp,
      LauncherWritesTmp, LauncherReplaces
<1>2. CASE MainSteps
  BY <1>2, PidFileSteps DEF MainSteps, ForegroundWritesPid, WorkerLoads,
     WorkerInstallsHandlers, MainBegins, MainCreates, MainStarted, MainOpensTmp,
     MainWritesTmp, MainReplaces, MainChmods, Unwind, MainProgress, MainCompleted,
     MainEnds, MainFinally, WorkerExits, MainCommits, MainAt, Gone
<1>3. CASE HandlerStep
  <2>1. handlers \in Seq(HandlerFrame) /\ handlers # <<>> /\ Alive
    BY <1>3 DEF TypeInv, WorkerTypes, HandlerStep, HandlerReads, HandlerBegins,
       HandlerAppends, HandlerEnds, HandlerTimesOut, HandlerExits, Blocked, HandlerAt
  <2>2. Len(handlers) = 1 /\ Depth = 2 /\ lock \in {0, 1, 2}
    BY <2>1, TopOK, ConstantsOK DEF TypeInv, WorkerTypes, Depth
  <2>3. CASE HandlerTimesOut
    BY <2>1, <2>2, <2>3 DEF HandlerTimesOut, Blocked, Unwind
  <2>4. CASE HandlerExits
    BY <2>1, <2>4, PidFileSteps DEF HandlerExits, Unwind
  <2>5. CASE HandlerReads \/ HandlerBegins \/ HandlerAppends \/ HandlerEnds
    BY <2>1, <2>2, <2>5 DEF HandlerReads, HandlerBegins, HandlerAppends, HandlerEnds
  <2> QED BY <1>3, <2>3, <2>4, <2>5 DEF HandlerStep
<1>4. CASE Delivery
  BY <1>4 DEF Delivery, SignalKills, CtrlCAborts, SignalHandled, Gone
<1>5. ASSUME NEW c \in Clients, CommandStarts(c) \/ CommandStep(c) \/ CommandDies(c)
      PROVE  PidInv'
  <2>1. CASE CommandLooks(c)
    BY <2>1, LooksOnly
  <2>2. CASE CancelEscalates(c)
    BY <2>2 DEF CancelEscalates, Gone
  <2>3. CASE Tidy(c) \/ Clean(c) \/ CancelSignals(c) \/ CreateSession(c)
             \/ EndSession(c) \/ AppendEvent(c) \/ FastInserts(c)
    BY <2>3, PidFileSteps DEF Tidy, Clean, CancelSignals, CreateSession,
       EndSession, AppendEvent, FastInserts
  <2> QED BY <1>5, <2>1, <2>2, <2>3 DEF CommandStep, CommandLooks
<1>6. CASE WorkerLoadFails \/ MainFails \/ Interrupt \/ Kill \/ LauncherDies
           \/ UNCHANGED vars
  BY <1>6 DEF WorkerLoadFails, MainFails, Interrupt, Kill, LauncherDies, Gone,
     Unwind, MainAt, vars
<1> QED
  BY <1>1, <1>2, <1>3, <1>4, <1>5, <1>6 DEF Next, WorkerStep, Environment

\* A worker in the foreground leaves no PID file when it ends by itself once it
\* has installed its signal handlers, by exceptions and Ctrl-C included, as long
\* as the handlers do not interrupt one another.  One that ends before, by Ctrl-C
\* or a load that fails, is "aborted" and may leave it.
THEOREM ForegroundRemovesPid ==
  ASSUME ~ Detached, MaxDepth <= 1
  PROVE  Spec => []PidRemovedOnExit
<1>1. Init => PidInv
  BY DEF Init, PidInv
<1>2. PidInv => PidRemovedOnExit
  BY DEF PidInv, PidRemovedOnExit
<1>3. TypeInv /\ PidInv /\ [Next]_vars => PidInv'
  BY PidInvStep
<1> QED
  BY <1>1, <1>2, <1>3, TypeInit, TypeStep, PTL DEF Spec

-----------------------------------------------------------------------------
(* The worker's story *)

\* The number of progress events of a story that is told to its end.
LastProgress == IF Runtime = "evolution" /\ Beats > 4 THEN 4 ELSE Beats

Told == Cardinality(Mine)

\* Where the main frame is in its story, as long as it runs.
PlaceInStory ==
  /\ main \in Unprotected \cup {"create", "started"} => Told = 0
  /\ main \in PidStep => Told = 1
  /\ main = "progress" => Told = 1 + beats /\ beats < LastProgress
  /\ main = "completed" => Told = 1 + LastProgress
  /\ main = "end" => Told = 2 + LastProgress

LEMMA StoryShape ==
  /\ LastProgress \in Nat \ {0} /\ LastProgress <= Beats
  /\ Len(Story) = LastProgress + 2
  /\ Story[1] = "started" /\ Story[LastProgress + 2] = "completed"
  /\ \A n \in 2..(LastProgress + 1) : Story[n] = "progress"
<1>1. LastProgress \in Nat \ {0} /\ LastProgress <= Beats
  BY ConstantsOK DEF LastProgress
<1> DEFINE Word == {"started", "progress", "completed"}
<1> DEFINE middle == [i \in 1..LastProgress |-> "progress"]
<1>2. Story = <<"started">> \o middle \o <<"completed">>
  BY DEF Story, LastProgress
<1>3. middle \in Seq(Word) /\ Len(middle) = LastProgress
  <2>1. middle \in [1..LastProgress -> Word]
    OBVIOUS
  <2>2. middle \in Seq(Word)
    BY <1>1, <2>1, SeqDef, SMTT(30)
  <2>3. DOMAIN middle = 1..LastProgress
    OBVIOUS
  <2> QED
    BY <1>1, <2>2, <2>3
<1> HIDE DEF middle
<1> DEFINE opening == <<"started">> \o middle
<1>4. /\ opening \in Seq(Word) /\ Len(opening) = LastProgress + 1
      /\ opening[1] = "started"
      /\ \A n \in 2..(LastProgress + 1) : opening[n] = middle[n - 1]
  <2>1. <<"started">> \in Seq(Word) /\ Len(<<"started">>) = 1
    OBVIOUS
  <2> QED
    BY <1>1, <1>3, <2>1, ConcatProperties
<1>5. \A n \in 2..(LastProgress + 1) : opening[n] = "progress"
  BY <1>1, <1>4 DEF middle
<1> HIDE DEF opening
<1>6. Story = opening \o <<"completed">>
  BY <1>2 DEF opening
<1> QED
  BY <1>1, <1>4, <1>5, <1>6

\* The stopping rule stops where the story ends: no earlier generation resembles
\* the one before or repeats its questions, but the fourth does.
LEMMA StopsInTime ==
  ASSUME NEW n \in 1..LastProgress
  PROVE  LastBeat(n) <=> n = LastProgress
<1>1. CASE Runtime = "run"
  BY <1>1, ConstantsOK DEF LastBeat, LastProgress
<1>2. CASE Runtime = "evolution"
  <2>1. CASE n = 4
    <3>1. Questions(4) = {0, 3} /\ Questions(3) = {0, 3}
      BY DEF Questions
    <3>2. Questions(4) \cap Questions(3) = {0} \cup {3}
      BY <3>1
    <3>3. Cardinality({0} \cup {3}) = 2
      <4>1. IsFiniteSet({0}) /\ Cardinality({0}) = 1
        BY FS_Singleton
      <4>2. 3 \notin {0}
        OBVIOUS
      <4>3. Cardinality({0} \cup {3}) = Cardinality({0}) + 1
        BY <4>1, <4>2, FS_AddElement
      <4> QED
        BY <4>1, <4>3
    <3>4. Repeats(n)
      BY <2>1, <3>2, <3>3 DEF Repeats
    <3>5. LastProgress = 4
      BY <1>2, <2>1, ConstantsOK DEF LastProgress
    <3> QED
      BY <1>2, <2>1, <3>4, <3>5 DEF LastBeat
  <2>2. CASE n \in 1..3
    <3>1. Similarity(n) = 30
      BY <2>2 DEF Similarity, Candidate
    <3>2. ~ Oscillates(n)
      BY <2>2 DEF Oscillates
    <3>3. ~ Repeats(n)
      <4>1. CASE n = 1
        BY <4>1 DEF Repeats
      <4>2. CASE n \in {2, 3}
        <5>1. Questions(n) \cap Questions(n - 1) = {0}
          BY <4>2 DEF Questions
        <5> QED
          BY <4>2, <5>1, FS_Singleton DEF Repeats
      <4> QED
        BY <2>2, <4>1, <4>2
    <3>4. LastBeat(n) <=> n = Beats
      BY <3>1, <3>2, <3>3 DEF LastBeat
    <3> QED
      BY <1>2, <2>2, <3>4, ConstantsOK DEF LastProgress
  <2> QED
    BY <1>2, <2>1, <2>2, ConstantsOK DEF LastProgress
<1> QED
  BY <1>1, <1>2, ConstantsOK

\* The places of the main frame's events after an append.
LEMMA MineGrows ==
  ASSUME log \in Seq(Event), NEW e \in Event, log' = Append(log, e), e.by = "main"
  PROVE  /\ Told' = Told + 1 /\ Told \in Nat
         /\ Mine' = Mine \cup {Len(log) + 1}
         /\ {j \in Mine' : j <= Len(log) + 1} = Mine'
         /\ \A i \in Mine : {j \in Mine' : j <= i} = {j \in Mine : j <= i}
         /\ \A i \in Mine : log'[i] = log[i]
         /\ log'[Len(log) + 1] = e
<1>1. Len(log) \in Nat /\ Mine \subseteq 1..Len(log)
  BY DEF Mine
<1>2. Mine' = Mine \cup {Len(log) + 1}
  BY Appended DEF Mine
<1>3. IsFiniteSet(Mine)
  <2>1. IsFiniteSet(1..Len(log))
    BY <1>1, FS_Interval
  <2> QED
    BY <1>1, <2>1, FS_Subset
<1>4. Len(log) + 1 \notin Mine
  BY <1>1
<1>5. Told' = Told + 1 /\ Told \in Nat
  BY <1>2, <1>3, <1>4, FS_AddElement, FS_CardinalityType DEF Told
<1>6. \A i \in Mine : log'[i] = log[i]
  BY <1>1, Appended
<1>7. log'[Len(log) + 1] = e
  BY Appended
<1>8. /\ {j \in Mine' : j <= Len(log) + 1} = Mine'
      /\ \A i \in Mine : {j \in Mine' : j <= i} = {j \in Mine : j <= i}
  <2>1. \A j \in Mine' : j \in Nat /\ j <= Len(log) + 1
    BY <1>1, <1>2
  <2>2. {j \in Mine' : j <= Len(log) + 1} = Mine'
    BY <2>1
  <2>3. ASSUME NEW i \in Mine PROVE {j \in Mine' : j <= i} = {j \in Mine : j <= i}
    <3>1. i \in Nat /\ ~ (Len(log) + 1 <= i)
      BY <1>1
    <3> QED BY <1>2, <3>1
  <2> QED BY <2>2, <2>3
<1> QED
  BY <1>2, <1>5, <1>6, <1>7, <1>8

LEMMA MineStays ==
  ASSUME log \in Seq(Event),
         log' = log \/ \E e \in Event : log' = Append(log, e) /\ e.by # "main"
  PROVE  Mine' = Mine /\ \A i \in Mine : log'[i] = log[i]
<1>1. CASE log' = log
  BY <1>1 DEF Mine
<1>2. ASSUME NEW e \in Event, log' = Append(log, e), e.by # "main"
      PROVE  Mine' = Mine /\ \A i \in Mine : log'[i] = log[i]
  BY <1>2, Appended DEF Mine
<1> QED
  BY <1>1, <1>2

StoryInv == WorkerStory /\ PlaceInStory

\* Whatever is not a step of the main frame leaves its story alone, and its
\* place or takes it to its end.
LEMMA StoryElsewhere ==
  ASSUME TypeInv, [Next]_vars, ~ MainSteps
  PROVE  /\ Mine' = Mine /\ \A i \in Mine : log'[i] = log[i]
         /\ UNCHANGED <<main, beats>> \/ main' \in Late
         /\ status' = "completed" => status = "completed"
<1> USE DEF store, frames, signals, commands, elsewhere, others, Late
<1>1. Mine' = Mine /\ \A i \in Mine : log'[i] = log[i]
  <2>1. log \in Seq(Event)
    BY DEF TypeInv, StoreTypes
  <2>2. CASE AppendedByHandler
    <3>1. HandlerOutcome \in EventType
      BY <2>2, TopOK, OutcomeIsTerminal
      DEF AppendedByHandler, HandlerAppends, HandlerAt, HandlerFrame, HandlerOutcome,
          TypeInv, WorkerTypes
    <3>2. \E e \in Event : log' = Append(log, e) /\ e.by # "main"
      BY <2>2, <3>1, EventsOK DEF AppendedByHandler, Entry
    <3> QED BY <2>1, <3>2, MineStays
  <2>3. ASSUME NEW c \in Clients, AppendedBy(c)
        PROVE  \E e \in Event : log' = Append(log, e) /\ e.by # "main"
    BY <2>3, EventsOK, ConstantsOK DEF AppendedBy, Entry
  <2>4. CASE \E c \in Clients : AppendedBy(c)
    BY <2>1, <2>3, <2>4, MineStays
  <2> QED
    BY <2>1, <2>2, <2>4, WhoAppends, MineStays DEF AppendedByMain
<1>2. CASE LauncherStep \/ UNCHANGED vars
  BY <1>1, <1>2 DEF LauncherStep, LauncherCreates, LauncherForks, LauncherOpensTmp,
      LauncherWritesTmp, LauncherReplaces,
     Created, vars
<1>3. CASE HandlerStep
  <2>1. HandlerOutcome # "completed"
    BY DEF HandlerOutcome, Outcome
  <2> QED
    BY <1>1, <1>3, <2>1 DEF HandlerStep, HandlerReads, HandlerBegins, HandlerAppends,
       HandlerEnds, HandlerTimesOut, HandlerExits, Unwind, Ended
<1>4. CASE Delivery
  BY <1>1, <1>4 DEF Delivery, SignalKills, CtrlCAborts, SignalHandled, Gone
<1>5. ASSUME NEW c \in Clients, CommandStarts(c) \/ CommandStep(c) \/ CommandDies(c)
      PROVE  /\ UNCHANGED <<main, beats>> \/ main' \in Late
             /\ status' = "completed" => status = "completed"
  <2>1. UNCHANGED <<main, beats>> \/ main' \in Late
    <3>1. CASE CancelEscalates(c)
      BY <3>1 DEF CancelEscalates, Gone
    <3> QED BY <1>5, <3>1, CommandFrames
  <2>2. CASE CommandLooks(c)
    BY <2>1, <2>2, LooksOnly
  <2>3. CASE CreateSession(c) \/ EndSession(c)
    BY <2>1, <2>3 DEF CreateSession, EndSession, Created, Ended, Verdict
  <2>4. CASE Tidy(c) \/ Clean(c) \/ CancelSignals(c) \/ CancelEscalates(c)
             \/ AppendEvent(c) \/ FastInserts(c)
    BY <2>1, <2>4
    DEF Tidy, Clean, CancelSignals, CancelEscalates, AppendEvent, FastInserts
  <2> QED BY <1>5, <2>2, <2>3, <2>4 DEF CommandStep, CommandLooks
<1>6. CASE WorkerLoadFails \/ MainFails \/ Interrupt \/ Kill \/ LauncherDies
  BY <1>1, <1>6 DEF WorkerLoadFails, MainFails, Interrupt, Kill, LauncherDies,
     Gone, Unwind
<1> QED
  BY <1>1, <1>2, <1>3, <1>4, <1>5, <1>6 DEF Next, WorkerStep, Environment

\* What the main frame records is the next word of the story.
LEMMA StoryGoesOn ==
  ASSUME TypeInv, StoryInv, NEW t, NEW e \in Event, log' = Append(log, e),
         e = Entry(t, "main"), Story[Told + 1] = t, Told < Len(Story), status' = status,
         status # "completed"
  PROVE  WorkerStory' /\ Told' = Told + 1 /\ Told \in Nat
<1>1. log \in Seq(Event) /\ e.by = "main" /\ e.type = t
  BY DEF TypeInv, StoreTypes, Entry
<1>2. /\ Told' = Told + 1 /\ Told \in Nat
      /\ Mine' = Mine \cup {Len(log) + 1}
      /\ {j \in Mine' : j <= Len(log) + 1} = Mine'
      /\ \A i \in Mine : {j \in Mine' : j <= i} = {j \in Mine : j <= i}
      /\ \A i \in Mine : log'[i] = log[i]
      /\ log'[Len(log) + 1] = e
  BY <1>1, MineGrows
<1>3. Story' = Story
  BY DEF Story
<1>4. ASSUME NEW i \in Mine'
      PROVE  LET n == Cardinality({j \in Mine' : j <= i})
             IN n <= Len(Story) /\ log'[i].type = Story[n]
  <2>1. CASE i \in Mine
    BY <1>2, <2>1 DEF StoryInv, WorkerStory
  <2>2. CASE i = Len(log) + 1
    <3>1. Cardinality({j \in Mine' : j <= i}) = Told + 1
      BY <1>2, <2>2 DEF Told
    <3> QED
      BY <1>1, <1>2, <2>2, <3>1, StoryShape
  <2> QED BY <1>2, <2>1, <2>2
<1> QED
  BY <1>2, <1>3, <1>4 DEF WorkerStory

LEMMA StoryStep == TypeInv /\ StoryInv /\ [Next]_vars => StoryInv'
<1> SUFFICES ASSUME TypeInv, StoryInv, [Next]_vars PROVE StoryInv'
  OBVIOUS
<1> USE DEF store, frames, signals, commands, elsewhere, others
<1>1. Story' = Story /\ LastProgress' = LastProgress
  BY DEF Story, LastProgress
<1>2. CASE ~ MainSteps
  <2>1. /\ Mine' = Mine /\ \A i \in Mine : log'[i] = log[i]
        /\ UNCHANGED <<main, beats>> \/ main' \in Late
        /\ status' = "completed" => status = "completed"
    BY <1>2, StoryElsewhere
  <2>2. WorkerStory'
    BY <1>1, <2>1 DEF StoryInv, WorkerStory
  <2>3. PlaceInStory'
    BY <1>1, <2>1 DEF StoryInv, PlaceInStory, Told, Late
  <2> QED BY <2>2, <2>3 DEF StoryInv
<1>3. ASSUME NEW t \in {"started", "progress", "completed"}, main = t,
             log' = Append(log, Entry(t, "main")), UNCHANGED status
      PROVE  WorkerStory' /\ Told' = Told + 1 /\ Told \in Nat
  <2>1. PICK e \in Event : e = Entry(t, "main")
    BY EventsOK
  <2>2. Told < Len(Story) /\ Story[Told + 1] = t
    BY <1>3, StoryShape DEF StoryInv, PlaceInStory, TypeInv, WorkerTypes
  <2>3. status # "completed"
    BY <2>2 DEF StoryInv, WorkerStory, Told
  <2> QED BY <1>3, <2>1, <2>2, <2>3, StoryGoesOn
<1>4. CASE MainStarted
  <2>1. main = "started" /\ log' = Append(log, Entry("started", "main"))
        /\ UNCHANGED <<status, beats>>
        /\ main' = IF Runtime = "run" THEN "open" ELSE "progress"
    BY <1>4 DEF MainStarted, MainCommits, MainAt
  <2>2. WorkerStory' /\ Told' = 1
    BY <1>3, <2>1 DEF StoryInv, PlaceInStory
  <2>3. beats = 0
    BY <2>1 DEF TypeInv, BeatsOK
  <2> QED BY <1>1, <2>1, <2>2, <2>3, StoryShape DEF StoryInv, PlaceInStory
<1>5. CASE MainProgress
  <2>1. main = "progress" /\ log' = Append(log, Entry("progress", "main"))
        /\ status' = status /\ beats' = beats + 1
        /\ main' = IF LastBeat(beats + 1) THEN "completed" ELSE "progress"
    BY <1>5 DEF MainProgress, MainCommits, MainAt
  <2>2. WorkerStory' /\ Told' = Told + 1
    BY <1>3, <2>1
  <2>3. Told = 1 + beats /\ beats < LastProgress /\ beats \in Nat
    BY <2>1 DEF StoryInv, PlaceInStory, TypeInv, WorkerTypes
  <2>4. LastBeat(beats + 1) <=> beats + 1 = LastProgress
    BY <2>3, StopsInTime, StoryShape
  <2> QED BY <1>1, <2>1, <2>2, <2>3, <2>4, StoryShape DEF StoryInv, PlaceInStory
<1>6. CASE MainCompleted
  <2>1. main = "completed" /\ log' = Append(log, Entry("completed", "main"))
        /\ UNCHANGED <<status, beats>> /\ main' = "end"
    BY <1>6 DEF MainCompleted, MainCommits, MainAt
  <2>2. WorkerStory' /\ Told' = 2 + LastProgress
    BY <1>3, <2>1, StoryShape DEF StoryInv, PlaceInStory
  <2> QED BY <1>1, <2>1, <2>2 DEF StoryInv, PlaceInStory
<1>7. CASE MainEnds
  <2>1. /\ main = "end" /\ main' = "finally" /\ log' = log
    BY <1>7 DEF MainEnds, MainCommits, MainAt
  <2>2. Told = Len(Story)
    BY <2>1, StoryShape DEF StoryInv, PlaceInStory
  <2>3. Mine' = Mine
    BY <2>1 DEF Mine
  <2>4. WorkerStory'
    BY <1>1, <2>1, <2>2, <2>3 DEF StoryInv, WorkerStory, Told
  <2> QED BY <1>1, <2>1, <2>4 DEF StoryInv, PlaceInStory
<1>8. CASE MainSteps /\ ~ (MainStarted \/ MainProgress \/ MainCompleted \/ MainEnds)
  <2>1. log' = log /\ (status' = "completed" => status = "completed") /\ beats' = beats
    BY <1>8 DEF MainSteps, ForegroundWritesPid, WorkerLoads,
       WorkerInstallsHandlers, MainBegins, MainCreates, MainOpensTmp,
       MainWritesTmp, MainReplaces, MainChmods, Unwind, MainFinally, WorkerExits,
       Created
  <2>2. WorkerStory' /\ Told' = Told
    BY <1>1, <2>1 DEF StoryInv, WorkerStory, Told, Mine
  <2>3. beats = 0 \/ main \notin PidStep
    BY DEF TypeInv, BeatsOK
  <2>4. PlaceInStory'
    BY <1>1, <1>8, <2>1, <2>2, <2>3, StoryShape
    DEF MainSteps, ForegroundWritesPid, WorkerLoads, WorkerInstallsHandlers,
        MainBegins, MainCreates, MainOpensTmp, MainWritesTmp, MainReplaces,
        MainChmods, Unwind, MainFinally, WorkerExits, Gone, MainAt, MainCommits,
        StoryInv, PlaceInStory
  <2> QED BY <2>2, <2>4 DEF StoryInv
<1> QED
  BY <1>2, <1>4, <1>5, <1>6, <1>7, <1>8

\* Whatever interrupts it, the main frame records a prefix of its story, and a
\* session is completed only when the story is; no evolution goes on after its
\* fourth generation.
THEOREM TheStoryIsTold == Spec => []WorkerStory
<1>1. Init => StoryInv
  <2> SUFFICES ASSUME Init PROVE StoryInv
    OBVIOUS
  <2>1. Mine = {}
    BY DEF Init, Mine
  <2>2. Told = 0
    BY <2>1, FS_EmptySet DEF Told
  <2> QED BY <2>1, <2>2 DEF Init, StoryInv, WorkerStory, PlaceInStory
<1>2. StoryInv => WorkerStory
  BY DEF StoryInv
<1> QED
  BY <1>1, <1>2, TypeInit, TypeStep, StoryStep, PTL DEF Spec
-----------------------------------------------------------------------------
(* As many cancelled events as cancels *)

IssuedCancels == {c \in Clients : role[c] = "cancel" /\ pc[c] # "idle"}

CancelledEvents == {i \in DOMAIN log : log[i].type = "cancelled"}

Silent(c) == \A i \in DOMAIN log : log[i].by # c

\* A SIGTERM is on its way, or one of its handlers is.
TermUnderWay ==
  "TERM" \in pending \/ \E i \in DOMAIN handlers : handlers[i].sig = "TERM"

\* A cancel that has signalled a living worker: it waits for the worker, or died.
Signalled(c) == role[c] = "cancel" /\ pc[c] \in {"wait", "failed"} /\ Silent(c)

\* A cancel that has recorded nothing and, since a handler has, never will.
Spent(c) ==
  /\ role[c] = "cancel" /\ Silent(c)
  /\ pc[c] \in {"wait", "clean", "await", "has", "ensure", "end", "cancelled", "failed"}

\* Steps of a command from which it never records anything.
Settled == {"ensure", "end", "cancelled", "done", "failed"}

\* A command records at most one event, and nothing before it is settled.
CommandCounts ==
  /\ \A c \in Clients : pc[c] \notin Settled => Silent(c)
  /\ \A c \in Clients : pc[c] \in {"term", "wait"} => role[c] = "cancel"
  /\ \A i, j \in DOMAIN log : log[i].by \in Clients /\ log[i].by = log[j].by => i = j
  /\ IsFiniteSet(IssuedCancels)

\* Every cancelled event is a command's own or the one of the handlers, for
\* which a cancel stands that has none.
CountInv ==
  /\ worker # "alive" => ~ TermUnderWay
  /\ TermUnderWay => \E c \in Clients : Signalled(c)
  /\ RecordedByHandler("cancelled") => \E c \in Clients : Spent(c)
  /\ \A i \in CancelledEvents :
       log[i].by = "handler" \/ (log[i].by \in Clients /\ role[log[i].by] = "cancel")
  /\ CommandCounts

\* A SIGTERM is under way only if it was before, or a cancel sends it now.
LEMMA SignalsMove ==
  ASSUME TypeInv, "term" \notin Faults, [Next]_vars, TermUnderWay'
  PROVE  \/ TermUnderWay /\ (worker' = worker \/ worker' = "alive")
         \/ /\ Alive /\ worker' = "alive"
            /\ \E c \in Clients : CancelSignals(c)
<1> USE DEF store, frames, signals, commands, elsewhere, others
<1>0. handlers \in Seq(HandlerFrame)
  BY DEF TypeInv, WorkerTypes
<1>1. UNCHANGED <<worker, pending, handlers>> => TermUnderWay
  BY DEF TermUnderWay
<1>2. ASSUME NEW how, Gone(how) PROVE FALSE
  BY <1>2 DEF Gone, TermUnderWay
<1>3. CASE LauncherStep \/ UNCHANGED vars
  BY <1>3 DEF LauncherStep, LauncherCreates, LauncherForks, LauncherOpensTmp,
      LauncherWritesTmp, LauncherReplaces, vars,
     TermUnderWay
<1>4. CASE MainSteps
  <2>1. CASE WorkerExits
    BY <1>2, <2>1 DEF WorkerExits
  <2> QED
    BY <1>1, <1>4, <2>1 DEF MainSteps, ForegroundWritesPid, WorkerLoads,
       WorkerInstallsHandlers, MainBegins, MainCreates, MainStarted, MainOpensTmp,
       MainWritesTmp, MainReplaces, MainChmods, Unwind, MainProgress,
       MainCompleted, MainEnds, MainFinally, MainCommits, MainAt
<1>5. CASE HandlerStep
  <2>1. handlers # <<>>
    BY <1>5 DEF HandlerStep, HandlerReads, HandlerBegins,
       HandlerAppends, HandlerEnds, HandlerTimesOut, HandlerExits, Blocked, HandlerAt
  <2>2. CASE HandlerBegins
    BY <1>1, <2>2 DEF HandlerBegins
  <2>3. CASE HandlerTimesOut \/ HandlerExits
    BY <2>3 DEF HandlerTimesOut, HandlerExits, Unwind, TermUnderWay
  <2>4. CASE HandlerReads \/ HandlerAppends \/ HandlerEnds
    <3>1. PICK step \in {"append", "end", "cleanup"} : HandlerGoto(step)
      BY <2>4 DEF HandlerReads, HandlerAppends, HandlerEnds
    <3>2. UNCHANGED <<worker, pending>>
      BY <2>4 DEF HandlerReads, HandlerAppends, HandlerEnds
    <3>3. /\ handlers' \in Seq(HandlerFrame) /\ Len(handlers') = Len(handlers)
          /\ \A i \in DOMAIN handlers \ {Len(handlers)} : handlers'[i] = handlers[i]
          /\ handlers'[Len(handlers)] = Frame(Top.sig, step)
      BY <1>0, <2>1, <3>1, GotoOK
    <3>4. DOMAIN handlers' = DOMAIN handlers /\ Frame(Top.sig, step).sig = Top.sig
      BY <1>0, <3>3 DEF Frame
    <3>5. \A i \in DOMAIN handlers : handlers'[i].sig = handlers[i].sig
      BY <3>3, <3>4
    <3> QED BY <3>2, <3>4, <3>5 DEF TermUnderWay
  <2> QED BY <1>5, <2>2, <2>3, <2>4 DEF HandlerStep
<1>6. CASE Delivery
  <2>1. CASE SignalKills \/ CtrlCAborts
    BY <1>2, <2>1 DEF SignalKills, CtrlCAborts
  <2>2. ASSUME NEW sig \in Signals, SignalHandled(sig)
        PROVE  TermUnderWay /\ worker' = worker
    <3>1. Frame(sig, "read") \in HandlerFrame /\ Frame(sig, "read").sig = sig
          /\ handlers' = Append(handlers, Frame(sig, "read"))
          /\ UNCHANGED worker /\ sig \in pending /\ pending' \subseteq pending
      BY <2>2 DEF SignalHandled, HandlerFrame, Frame
    <3>2. /\ DOMAIN handlers = 1..Len(handlers) /\ Len(handlers) \in Nat
          /\ DOMAIN handlers' = 1..(Len(handlers) + 1)
          /\ handlers'[Len(handlers) + 1] = Frame(sig, "read")
          /\ \A i \in 1..Len(handlers) : handlers'[i] = handlers[i]
      BY <1>0, <3>1, PushOK
    <3> QED BY <3>1, <3>2 DEF TermUnderWay
  <2> QED BY <1>6, <2>1, <2>2 DEF Delivery
<1>7. ASSUME NEW c \in Clients, CommandStarts(c) \/ CommandStep(c) \/ CommandDies(c)
      PROVE  \/ TermUnderWay /\ worker' = worker
             \/ Alive /\ worker' = "alive" /\ CancelSignals(c)
  <2>1. CASE CommandLooks(c)
    BY <1>1, <2>1, LooksOnly
  <2>2. CASE CancelEscalates(c)
    BY <1>2, <2>2 DEF CancelEscalates
  <2>3. CASE CancelSignals(c)
    BY <1>1, <2>3 DEF CancelSignals, Signal
  <2>4. CASE Tidy(c) \/ Clean(c) \/ CreateSession(c)
             \/ EndSession(c) \/ AppendEvent(c) \/ FastInserts(c)
    BY <1>1, <2>4 DEF Tidy, Clean, CreateSession, EndSession, AppendEvent, FastInserts
  <2> QED BY <1>7, <2>1, <2>2, <2>3, <2>4 DEF CommandStep, CommandLooks
<1>8. CASE WorkerLoadFails \/ Kill
  BY <1>2, <1>8 DEF WorkerLoadFails, Kill
<1>9. CASE MainFails \/ LauncherDies
  BY <1>1, <1>9 DEF MainFails, LauncherDies, Unwind, TermUnderWay
<1>10. CASE Interrupt
  BY <1>10 DEF Interrupt, Signal, TermUnderWay
<1> QED
  BY <1>3, <1>4, <1>5, <1>6, <1>7, <1>8, <1>9, <1>10 DEF Next, WorkerStep, Environment

\* A settled command stays settled, and none leaves a step of Spent but for another.
LEMMA CommandSettles ==
  ASSUME TypeInv, NEW c \in Clients, CommandStarts(c) \/ CommandStep(c) \/ CommandDies(c)
  PROVE  /\ pc[c] \in Settled => pc'[c] \in Settled
         /\ pc'[c] \in {"term", "wait"} => role[c] = "cancel" \/ pc[c] \in {"term", "wait"}
         /\ Recorded("cancelled") /\ Spent(c)
              => pc'[c] \in {"wait", "clean", "await", "has"} \cup (Settled \ {"done"})
         /\ Signalled(c) => \/ pc'[c] \in {"wait", "failed"}
                            \/ CancelSeesExit(c) \/ CancelEscalates(c)
         /\ AppendEvent(c) \/ FastInserts(c) => pc'[c] \in Settled
<1> USE DEF At, Goto, Settled
<1>1. pc \in [Clients -> Label]
  BY DEF TypeInv, CommandTypes
<1>2. CASE CommandStarts(c)
  BY <1>1, <1>2 DEF CommandStarts, CancelReads, StatusReads, QaStarts, FastStarts,
     Spent, Signalled, AppendEvent, FastInserts
<1>3. CASE FastReads(c) \/ Tidy(c) \/ LooksForPid(c) \/ ReadsPid(c) \/ Clean(c)
  BY <1>1, <1>3 DEF FastReads, Tidy, LooksForPid, ReadsPid, Clean, Spent,
     Signalled, AppendEvent, FastInserts
<1>4. CASE CancelSignals(c) \/ CancelSeesExit(c) \/ CancelEscalates(c)
           \/ CancelAwaits(c) \/ CancelLooks(c) \/ CancelEnsures(c)
  BY <1>1, <1>4 DEF CancelSignals, CancelSeesExit, CancelEscalates, CancelAwaits,
     CancelLooks, CancelEnsures, Spent, Signalled, AppendEvent, FastInserts
<1>5. CASE CreateSession(c) \/ AppendEvent(c) \/ FastSelects(c) \/ FastInserts(c)
           \/ EndSession(c) \/ CommandTimesOut(c) \/ CommandDies(c)
  BY <1>1, <1>5 DEF CreateSession, AppendEvent, FastSelects, FastInserts, EndSession,
     CommandTimesOut, CommandDies, Spent, Signalled
<1> QED
  BY <1>2, <1>3, <1>4, <1>5 DEF CommandStep

\* Whoever records nothing in a step stays silent.
LEMMA SilentStays ==
  ASSUME TypeInv, [Next]_vars, NEW c \in Clients, Silent(c), ~ AppendedBy(c)
  PROVE  Silent(c)'
<1>1. log \in Seq(Event) /\ handlers \in Seq(HandlerFrame)
  BY DEF TypeInv, StoreTypes, WorkerTypes
<1>2. CASE log' = log
  BY <1>2 DEF Silent
<1>3. ASSUME NEW e \in Event, log' = Append(log, e), e.by # c PROVE Silent(c)'
  BY <1>1, <1>3, Appended DEF Silent
<1>4. CASE AppendedByMain
  BY <1>3, <1>4, EventsOK, ConstantsOK DEF AppendedByMain, Entry
<1>5. CASE AppendedByHandler
  <2>1. HandlerOutcome \in EventType
    BY <1>1, <1>5, TopOK, OutcomeIsTerminal
    DEF AppendedByHandler, HandlerAppends, HandlerAt, HandlerFrame, HandlerOutcome
  <2> QED
    BY <1>3, <1>5, <2>1, EventsOK, ConstantsOK DEF AppendedByHandler, Entry
<1>6. ASSUME NEW d \in Clients, AppendedBy(d) PROVE Silent(c)'
  <2>1. d # c
    BY <1>6
  <2> QED BY <1>3, <1>6, <2>1, EventsOK DEF AppendedBy, Entry
<1> QED
  BY <1>2, <1>4, <1>5, <1>6, WhoAppends

\* Who moves in a step, if anybody does.
LEMMA OneMoves ==
  ASSUME TypeInv, [Next]_vars, NEW c \in Clients
  PROVE  /\ role' = role
         /\ \/ pc'[c] = pc[c]
            \/ CommandStarts(c) \/ CommandStep(c) \/ CommandDies(c)
  BY SomeoneMoves, CommandMovesAlone DEF TypeInv

\* Nobody but the worker's own handler, and nobody else, gains or loses a word.
LEMMA CountsOfCommands ==
  ASSUME TypeInv, CommandCounts, [Next]_vars
  PROVE  CommandCounts'
<1>1. log \in Seq(Event) /\ handlers \in Seq(HandlerFrame) /\ role' = role
  BY OneMoves, SomeoneMoves, CommandMovesAlone DEF TypeInv, StoreTypes, WorkerTypes
<1>2. ASSUME NEW c \in Clients PROVE pc'[c] \notin Settled => Silent(c)'
  <2>1. pc'[c] \notin Settled => pc[c] \notin Settled /\ ~ AppendedBy(c)
    BY OneMoves, CommandSettles DEF AppendedBy, CommandStep
  <2> QED
    BY <2>1, SilentStays DEF CommandCounts
<1>3. \A c \in Clients : pc'[c] \in {"term", "wait"} => role'[c] = "cancel"
  BY <1>1, OneMoves, CommandSettles DEF CommandCounts
<1>4. \A i, j \in DOMAIN log' :
        log'[i].by \in Clients /\ log'[i].by = log'[j].by => i = j
  <2>1. CASE log' = log
    BY <2>1 DEF CommandCounts
  <2>2. ASSUME NEW e \in Event, log' = Append(log, e), e.by \in Clients => Silent(e.by)
        PROVE  \A i, j \in DOMAIN log' :
                 log'[i].by \in Clients /\ log'[i].by = log'[j].by => i = j
    BY <1>1, <2>2, Appended DEF CommandCounts, Silent
  <2>3. CASE AppendedByMain
    BY <2>2, <2>3, EventsOK, ConstantsOK DEF AppendedByMain, Entry
  <2>4. CASE AppendedByHandler
    <3>1. HandlerOutcome \in EventType
      BY <1>1, <2>4, TopOK, OutcomeIsTerminal
      DEF AppendedByHandler, HandlerAppends, HandlerAt, HandlerFrame, HandlerOutcome
    <3> QED
      BY <2>2, <2>4, <3>1, EventsOK, ConstantsOK DEF AppendedByHandler, Entry
  <2>5. ASSUME NEW c \in Clients, AppendedBy(c)
        PROVE  \A i, j \in DOMAIN log' :
                 log'[i].by \in Clients /\ log'[i].by = log'[j].by => i = j
    <3>1. Silent(c)
      BY <2>5 DEF AppendedBy, CommandCounts, Settled
    <3> QED
      BY <2>2, <2>5, <3>1, EventsOK DEF AppendedBy, Entry
  <2> QED
    BY <2>1, <2>3, <2>4, <2>5, WhoAppends
<1>5. IsFiniteSet(IssuedCancels')
  <2>1. CASE UNCHANGED <<role, pc>>
    BY <2>1 DEF CommandCounts, IssuedCancels
  <2>2. ASSUME NEW c \in Clients, CommandStarts(c) \/ CommandStep(c) \/ CommandDies(c)
        PROVE  IsFiniteSet(IssuedCancels')
    <3>1. IssuedCancels' \subseteq IssuedCancels \cup {c}
      BY <1>1, <2>2, CommandMovesAlone DEF IssuedCancels, TypeInv
    <3>2. IsFiniteSet(IssuedCancels \cup {c})
      BY FS_AddElement DEF CommandCounts
    <3> QED BY <3>1, <3>2, FS_Subset
  <2> QED BY <2>1, <2>2, SomeoneMoves
<1> QED
  BY <1>2, <1>3, <1>4, <1>5 DEF CommandCounts

\* The cancel that stands for the handlers' event keeps standing for it.
LEMMA SpentStays ==
  ASSUME TypeInv, [Next]_vars, RecordedByHandler("cancelled"), NEW c \in Clients, Spent(c)
  PROVE  Spent(c)'
<1>1. Recorded("cancelled")
  BY DEF RecordedByHandler, Recorded
<1>2. pc'[c] \in {"wait", "clean", "await", "has"} \cup (Settled \ {"done"})
  BY <1>1, OneMoves, CommandSettles DEF Spent, Settled
<1>3. Silent(c)'
  BY SilentStays DEF Spent, AppendedBy
<1> QED
  BY <1>2, <1>3, OneMoves DEF Spent, Settled

\* The cancel that has signalled waits as long as its signal is under way.
LEMMA SignalledStays ==
  ASSUME TypeInv, CountInv, [Next]_vars, TermUnderWay, TermUnderWay',
         NEW c \in Clients, Signalled(c)
  PROVE  Signalled(c)'
<1>1. ~ CancelSeesExit(c)
  BY DEF CountInv, CancelSeesExit
<1>2. ~ CancelEscalates(c)
  BY DEF CancelEscalates, Gone, TermUnderWay
<1>3. pc'[c] \in {"wait", "failed"}
  BY <1>1, <1>2, OneMoves, CommandSettles DEF Signalled
<1>4. Silent(c)'
  BY SilentStays DEF Signalled, AppendedBy
<1> QED
  BY <1>3, <1>4, OneMoves DEF Signalled

LEMMA CountStep ==
  ASSUME "term" \notin Faults, TypeInv, CountInv, [Next]_vars
  PROVE  CountInv'
<1>1. log \in Seq(Event) /\ handlers \in Seq(HandlerFrame) /\ role' = role
  BY OneMoves, SomeoneMoves, CommandMovesAlone DEF TypeInv, StoreTypes, WorkerTypes
<1>2. CommandCounts'
  BY CountsOfCommands DEF CountInv
<1>3. (worker # "alive" => ~ TermUnderWay)'
  BY SignalsMove DEF CountInv
<1>4. TermUnderWay' => \E c \in Clients : Signalled(c)'
  <2> SUFFICES ASSUME TermUnderWay' PROVE \E c \in Clients : Signalled(c)'
    OBVIOUS
  <2>1. CASE TermUnderWay
    BY <2>1, SignalledStays DEF CountInv
  <2>2. ASSUME NEW c \in Clients, CancelSignals(c), Alive PROVE Signalled(c)'
    <3>1. pc[c] = "term" /\ pc'[c] = "wait"
      BY <2>2 DEF CancelSignals, At, Goto, TypeInv, CommandTypes
    <3>2. role[c] = "cancel" /\ Silent(c)
      BY <3>1 DEF CountInv, CommandCounts, Settled
    <3>3. Silent(c)'
      BY <3>1, <3>2, SilentStays DEF AppendedBy
    <3> QED BY <1>1, <3>1, <3>2, <3>3 DEF Signalled
  <2> QED BY <2>1, <2>2, SignalsMove
<1>5. RecordedByHandler("cancelled")' => \E c \in Clients : Spent(c)'
  <2>1. CASE RecordedByHandler("cancelled")
    BY <2>1, SpentStays DEF CountInv
  <2>2. CASE AppendedByHandler /\ HandlerOutcome = "cancelled"
    <3>1. handlers # <<>> /\ Top.sig = "TERM" /\ UNCHANGED pc
      BY <2>2 DEF AppendedByHandler, HandlerAppends, HandlerAt, HandlerOutcome,
         Outcome, elsewhere, commands
    <3>2. TermUnderWay
      BY <1>1, <3>1, TopOK DEF TermUnderWay
    <3>3. PICK c \in Clients : Signalled(c)
      BY <3>2 DEF CountInv
    <3>4. Silent(c)'
      BY <3>3, SilentStays DEF Signalled, AppendedBy
    <3> QED BY <1>1, <3>1, <3>3, <3>4 DEF Signalled, Spent
  <2>3. CASE ~ (AppendedByHandler /\ HandlerOutcome = "cancelled")
    <3>1. \/ log' = log
          \/ \E e \in Event : /\ log' = Append(log, e)
                              /\ e.by # "handler" \/ e.type # "cancelled"
      <4>1. CASE AppendedByMain
        BY <4>1, EventsOK DEF AppendedByMain, Entry
      <4>2. CASE AppendedByHandler
        <5>1. HandlerOutcome \in EventType
          BY <1>1, <4>2, TopOK, OutcomeIsTerminal
          DEF AppendedByHandler, HandlerAppends, HandlerAt, HandlerFrame,
              HandlerOutcome
        <5> QED BY <2>3, <4>2, <5>1, EventsOK DEF AppendedByHandler, Entry
      <4>3. ASSUME NEW c \in Clients, AppendedBy(c)
            PROVE  \E e \in Event : log' = Append(log, e) /\ e.by # "handler"
        BY <4>3, EventsOK, ConstantsOK DEF AppendedBy, Entry
      <4> QED BY <4>1, <4>2, <4>3, WhoAppends
    <3>2. RecordedByHandler("cancelled")' => RecordedByHandler("cancelled")
      BY <1>1, <3>1, Appended, SMTT(30) DEF RecordedByHandler
    <3> QED BY <2>1, <3>2
  <2> QED BY <2>2, <2>3
<1>6. \A i \in CancelledEvents' :
        log'[i].by = "handler" \/ (log'[i].by \in Clients /\ role[log'[i].by] = "cancel")
  <2>1. CASE log' = log
    BY <2>1 DEF CountInv, CancelledEvents
  <2>2. ASSUME NEW e \in Event, log' = Append(log, e),
               \/ e.type # "cancelled"
               \/ e.by = "handler" \/ (e.by \in Clients /\ role[e.by] = "cancel")
        PROVE  \A i \in CancelledEvents' :
                 \/ log'[i].by = "handler"
                 \/ log'[i].by \in Clients /\ role[log'[i].by] = "cancel"
    BY <1>1, <2>2, Appended DEF CountInv, CancelledEvents
  <2>3. CASE AppendedByMain
    BY <2>2, <2>3, EventsOK DEF AppendedByMain, Entry
  <2>4. CASE AppendedByHandler
    <3>1. HandlerOutcome \in EventType
      BY <1>1, <2>4, TopOK, OutcomeIsTerminal
      DEF AppendedByHandler, HandlerAppends, HandlerAt, HandlerFrame, HandlerOutcome
    <3> QED BY <2>2, <2>4, <3>1, EventsOK DEF AppendedByHandler, Entry
  <2>5. CASE \E c \in Clients : AppendedBy(c)
    BY <2>2, <2>5, EventsOK DEF AppendedBy, Entry, Verdict
  <2> QED BY <2>1, <2>3, <2>4, <2>5, WhoAppends
<1> QED
  BY <1>1, <1>2, <1>3, <1>4, <1>5, <1>6 DEF CountInv

\* Each cancelled event has a cancel of its own.
LEMMA EventsHaveCancels ==
  ASSUME TypeInv, WorkerCancelsOnce, CountInv
  PROVE  CancelsBounded
<1> DEFINE silent == CHOOSE c \in Clients : Spent(c)
<1> DEFINE Cancel(i) == IF log[i].by = "handler" THEN silent ELSE log[i].by
<1> DEFINE f == [i \in CancelledEvents |-> Cancel(i)]
<1>1. \A i \in CancelledEvents : log[i].by = "handler" => silent \in Clients /\ Spent(silent)
  BY DEF CountInv, RecordedByHandler, CancelledEvents
<1>2. ASSUME NEW i \in CancelledEvents PROVE Cancel(i) \in IssuedCancels
  <2>1. CASE log[i].by = "handler"
    BY <1>1, <2>1 DEF IssuedCancels, Spent
  <2>2. CASE log[i].by # "handler"
    <3>1. log[i].by \in Clients /\ role[log[i].by] = "cancel" /\ i \in DOMAIN log
      BY <2>2 DEF CountInv, CancelledEvents
    <3>2. pc[log[i].by] # "idle"
      BY <3>1 DEF CountInv, CommandCounts, Silent, Settled
    <3> QED BY <2>2, <3>1, <3>2 DEF IssuedCancels
  <2> QED BY <2>1, <2>2
<1>3. ASSUME NEW i \in CancelledEvents, NEW j \in CancelledEvents, Cancel(i) = Cancel(j)
      PROVE  i = j
  <2>1. i \in DOMAIN log /\ j \in DOMAIN log /\ log[i].type = log[j].type
    BY DEF CancelledEvents
  <2>2. CASE log[i].by = "handler" /\ log[j].by = "handler"
    BY <2>1, <2>2 DEF WorkerCancelsOnce
  <2>3. CASE log[i].by # "handler" /\ log[j].by # "handler"
    BY <1>3, <2>1, <2>3 DEF CountInv, CommandCounts
  <2>4. CASE log[i].by = "handler" /\ log[j].by # "handler"
    BY <1>1, <1>3, <2>1, <2>4 DEF Spent, Silent
  <2>5. CASE log[i].by # "handler" /\ log[j].by = "handler"
    BY <1>1, <1>3, <2>1, <2>5 DEF Spent, Silent
  <2> QED BY <2>2, <2>3, <2>4, <2>5
<1>4. f \in Injection(CancelledEvents, IssuedCancels)
  <2> HIDE DEF Cancel
  <2> QED BY <1>2, <1>3 DEF Injection, IsInjective
<1> HIDE DEF f
<1>5. Cardinality(CancelledEvents) <= Cardinality(IssuedCancels)
  BY <1>4, FS_Injection DEF CountInv, CommandCounts
<1> QED
  BY <1>5 DEF CancelsBounded, CancelledEvents, IssuedCancels

\* When SIGTERM comes from `mobius cancel` alone, there are at most as many
\* cancelled events as cancels have been issued: worker and commands never both
\* record the same request, in whatever order they notice one another.
THEOREM CancelsAreCounted ==
  ASSUME "term" \notin Faults
  PROVE  Spec => []CancelsBounded
<1>1. Init => CountInv
  <2> SUFFICES ASSUME Init PROVE CountInv
    OBVIOUS
  <2>1. log = <<>> /\ pending = {} /\ handlers = <<>> /\ pc = [c \in Clients |-> "idle"]
    BY DEF Init
  <2>2. IssuedCancels = {}
    BY <2>1 DEF IssuedCancels
  <2>3. IsFiniteSet(IssuedCancels)
    BY <2>2, FS_EmptySet
  <2> QED
    BY <2>1, <2>3 DEF CountInv, CommandCounts, TermUnderWay, RecordedByHandler,
       CancelledEvents, Silent
<1>2. Init => OnceInv
  BY DEF Init, OnceInv, WorkerCancelsOnce
<1>3. TypeInv /\ OnceInv /\ CountInv => CancelsBounded
  BY EventsHaveCancels DEF OnceInv
<1>4. TypeInv /\ CountInv /\ [Next]_vars => CountInv'
  BY CountStep
<1> QED
  BY <1>1, <1>2, <1>3, <1>4, TypeInit, TypeStep, OnceStep, PTL DEF Spec
=============================================================================
