---------------------------- MODULE FollowProofs ----------------------------
(* What holds of Follow for any number of followers and events. *)
EXTENDS Follow, SequenceTheorems, TLAPS

\* The status of the session is backed by its event.
StatusBacked == status \in Terminal => Recorded(status)

\* What a follower knows at each of its statements.
Knows(f) ==
  /\ row[f] \in Terminal => Recorded(row[f])
  /\ pc[f] \in {"append", "end"} => status # "none"
  /\ pc[f] = "end" => Recorded(Crashed)

Inv ==
  /\ TypeOK /\ StatusBacked /\ PrintsTheLog /\ ShowsTheOutcome
  /\ \A f \in Follower : Knows(f)

\* What every step does to the session: the log grows at its end.
Grows ==
  /\ log' \in Seq(Type) /\ Len(log) <= Len(log')
  /\ status' \in {"none", "running"} \cup Terminal
  /\ \A n \in 0..Len(log) : SubSeq(log', 1, n) = SubSeq(log, 1, n)
  /\ \A t \in Type : Recorded(t) => Recorded(t)'
  /\ status # "none" => status' # "none"
  /\ StatusBacked'

SessionStep == Session!Next \/ UNCHANGED session

USE ConstantsOK

-----------------------------------------------------------------------------
(* The log *)

\* What has been read of a log is not changed by an append.
LEMMA AppendKeepsPrefix ==
  ASSUME NEW s \in Seq(Type), NEW t \in Type, NEW n \in 0..Len(s)
  PROVE  SubSeq(Append(s, t), 1, n) = SubSeq(s, 1, n)
<1>1. CASE n = 0
  BY <1>1, SubSeqEmpty
<1>2. CASE n # 0
  <2>1. n \in 1..Len(s) /\ 1 \in 1..Len(s) /\ <<t>> \in Seq(Type)
    BY <1>2, LenProperties
  <2>2. Append(s, t) = s \o <<t>>
    BY AppendIsConcat
  <2> QED
    BY <2>1, <2>2, SubSeqOfConcat1
<1> QED
  BY <1>1, <1>2

\* What is printed up to a cursor and what follows it are the whole log.
LEMMA PrefixAndRest ==
  ASSUME NEW s \in Seq(Type), NEW n \in 0..Len(s)
  PROVE  SubSeq(s, 1, n) \o SubSeq(s, n + 1, Len(s)) = s
<1>1. Len(s) \in Nat
  BY LenProperties
<1>2. 1 \in 1..(Len(s) + 1) /\ n \in (1 - 1)..Len(s) /\ Len(s) \in n..Len(s)
  BY <1>1
<1>3. SubSeq(s, 1, n) \o SubSeq(s, n + 1, Len(s)) = SubSeq(s, 1, Len(s))
  BY <1>2, ConcatAdjacentSubSeq
<1> QED
  BY <1>3, SubSeqFull

LEMMA SessionGrows ==
  ASSUME log \in Seq(Type), status \in {"none", "running"} \cup Terminal,
         StatusBacked, SessionStep
  PROVE  Grows
<1> USE DEF session, Recorded, Session!Recorded, StatusBacked
<1>1. CASE UNCHANGED log
  <2>1. status' = status \/ (status = "none" /\ status' = "running")
        \/ (status # "none" /\ status' \in Terminal /\ Recorded(status'))
    <3>1. CASE Session!Create
      BY <3>1 DEF Session!Create
    <3>2. CASE \E t \in Type : Session!Record(t)
      BY <3>2 DEF Session!Record
    <3>3. CASE \E t \in Terminal : Session!End(t)
      BY <3>3 DEF Session!End
    <3>4. CASE UNCHANGED session
      BY <3>4
    <3> QED
      BY <3>1, <3>2, <3>3, <3>4 DEF SessionStep, Session!Next
  <2>2. Len(log) \in Nat
    BY LenProperties
  <2> QED
    BY <1>1, <2>1, <2>2 DEF Grows
<1>2. CASE ~ UNCHANGED log
  <2>1. PICK t \in Type : log' = Append(log, t) /\ status' = status
    BY <1>2 DEF SessionStep, Session!Next, Session!Create, Session!Record, Session!End
  <2>2. /\ log' \in Seq(Type) /\ Len(log') = Len(log) + 1 /\ Len(log) \in Nat
        /\ \A i \in 1..Len(log) : log'[i] = log[i]
    BY <2>1, AppendProperties, LenProperties
  <2>3. \A n \in 0..Len(log) : SubSeq(log', 1, n) = SubSeq(log, 1, n)
    BY <2>1, AppendKeepsPrefix
  <2>4. DOMAIN log = 1..Len(log) /\ DOMAIN log' = 1..Len(log')
    BY <2>2, LenProperties
  <2>5. \A u : Recorded(u) => Recorded(u)'
    BY <2>2, <2>4
  <2> QED
    BY <2>1, <2>2, <2>3, <2>5 DEF Grows
<1> QED
  BY <1>1, <1>2

-----------------------------------------------------------------------------
(* Every step of a follower is one a writer of a session may take *)

LEMMA StepOfSession ==
  ASSUME Inv, [Next]_vars
  PROVE  SessionStep
<1> USE DEF session, SessionStep
<1>1. CASE UNCHANGED vars
  BY <1>1 DEF vars
<1>2. CASE OthersWrite
  BY <1>2 DEF OthersWrite
<1>3. CASE Prepares \/ WorkerDies \/ OthersClean
  BY <1>3 DEF Prepares, WorkerDies, OthersClean
<1>4. ASSUME NEW f \in Follower, Starts(f) \/ FollowerStep(f)
      PROVE  SessionStep
  <2>1. CASE Starts(f) \/ Marks(f) \/ MarkFindsPid(f) \/ ReadsSession(f) \/ ReadsEvents(f)
    BY <2>1 DEF Starts, Marks, MarkFindsPid, ReadsSession, ReadsEvents
  <2>2. CASE MarkCreates(f)
    BY <2>2 DEF MarkCreates, Session!Next, Session!Create
  <2>3. CASE MarkAppends(f)
    BY <2>3 DEF MarkAppends, Session!Next, Session!Record
  <2>4. CASE MarkEnds(f)
    <3>1. status # "none" /\ Session!Recorded(Crashed)
      BY <2>4 DEF MarkEnds, At, Inv, Knows, Recorded, Session!Recorded
    <3> QED
      BY <2>4, <3>1 DEF MarkEnds, Session!Next, Session!End
  <2> QED
    BY <1>4, <2>1, <2>2, <2>3, <2>4 DEF FollowerStep
<1> QED
  BY <1>1, <1>2, <1>3, <1>4 DEF Next

LEMMA StepGrows ==
  ASSUME Inv, [Next]_vars
  PROVE  Grows
BY StepOfSession, SessionGrows DEF Inv, TypeOK

-----------------------------------------------------------------------------
(* The invariant *)

LEMMA InitInv == Init => Inv
<1> SUFFICES ASSUME Init PROVE Inv
  OBVIOUS
<1>1. /\ log = <<>> /\ log \in Seq(Type) /\ Len(log) = 0 /\ SubSeq(log, 1, 0) = log
      /\ status = "none"
  BY SubSeqEmpty DEF Init, Session!Init
<1>2. TypeOK
  <2>1. printed \in [Follower -> Seq(Type)]
    <3>1. printed = [f \in Follower |-> log]
      BY <1>1, Zenon DEF Init
    <3> QED
      BY <1>1, <3>1
  <2>2. pc \in [Follower -> Label] /\ row \in [Follower -> {"none", "running"} \cup Terminal]
        /\ cursor \in [Follower -> Nat] /\ pending \in [Follower -> BOOLEAN]
        /\ saw \in [Follower -> BOOLEAN]
    BY DEF Init, Label
  <2> QED
    BY <1>1, <2>1, <2>2, Zenon DEF Init, TypeOK
<1>3. PrintsTheLog
  <2>1. \A f \in Follower : cursor[f] = 0 /\ printed[f] = log
    BY <1>1, Zenon DEF Init
  <2>2. \A f \in Follower : cursor[f] <= Len(log)
    <3>1. Len(log) = 0 /\ 0 <= 0
      BY <1>1
    <3> QED
      BY <2>1, <3>1, Zenon
  <2>3. \A f \in Follower : printed[f] = SubSeq(log, 1, cursor[f])
    BY <1>1, <2>1, Zenon
  <2> QED
    BY <2>2, <2>3, Zenon DEF PrintsTheLog
<1>4. StatusBacked /\ ShowsTheOutcome /\ \A f \in Follower : Knows(f)
  BY <1>1 DEF Init, StatusBacked, ShowsTheOutcome, Knows
<1> QED
  BY <1>2, <1>3, <1>4 DEF Inv

\* A step of follower f leaves the others' state alone.
Moves(f) ==
  /\ pc' \in [Follower -> Label]
  /\ row' \in [Follower -> {"none", "running"} \cup Terminal]
  /\ \A g \in Follower \ {f} : pc'[g] = pc[g] /\ row'[g] = row[g]

\* What f has printed and where it stands after its step.
Prints(f) ==
  /\ cursor' \in [Follower -> Nat] /\ printed' \in [Follower -> Seq(Type)]
  /\ \A g \in Follower : \/ cursor'[g] = cursor[g] /\ printed'[g] = printed[g]
                         \/ /\ g = f /\ log' = log
                            /\ cursor'[g] = Len(log) /\ printed'[g] = log
  /\ pc'[f] = "done" => /\ row'[f] = row[f] /\ row[f] \in Terminal
                        /\ log' = log /\ printed'[f] = log

LEMMA EventsPrinted ==
  ASSUME Inv, NEW f \in Follower
  PROVE  /\ After(cursor[f]) \in Seq(Type)
         /\ printed[f] \o After(cursor[f]) = log
<1>1. /\ log \in Seq(Type) /\ Len(log) \in Nat /\ cursor[f] \in 0..Len(log)
      /\ \A i \in 1..Len(log) : log[i] \in Type
  BY LenProperties DEF Inv, TypeOK, PrintsTheLog
<1>2. After(cursor[f]) \in Seq(Type)
  BY <1>1, SubSeqProperties DEF After
<1>3. printed[f] \o After(cursor[f]) = log
  BY <1>1, PrefixAndRest DEF After, Inv, PrintsTheLog
<1> QED
  BY <1>2, <1>3

LEMMA FollowerMoves ==
  ASSUME Inv, NEW f \in Follower, Starts(f) \/ FollowerStep(f)
  PROVE  /\ Moves(f) /\ Prints(f)
         /\ stale' \in BOOLEAN /\ died' \in BOOLEAN /\ lost' \in BOOLEAN /\ files' \in BOOLEAN
         /\ readOnly' \subseteq Follower
         /\ pending' \in [Follower -> BOOLEAN] /\ saw' \in [Follower -> BOOLEAN]
<1> USE DEF Inv, TypeOK, Moves, Prints, At, Goto, Label, Over, Loop, session, others, progress
<1>1. CASE Starts(f)
  BY <1>1 DEF Starts
<1>2. CASE Marks(f)
  BY <1>2 DEF Marks
<1>3. CASE MarkFindsPid(f)
  BY <1>3 DEF MarkFindsPid
<1>4. CASE MarkCreates(f) \/ MarkAppends(f) \/ MarkEnds(f)
  BY <1>4 DEF MarkCreates, MarkAppends, MarkEnds
<1>5. CASE ReadsSession(f)
  BY <1>5 DEF ReadsSession
<1>6. CASE ReadsEvents(f)
  <2>1. Len(log) \in Nat
    BY LenProperties
  <2> QED
    BY <1>6, <2>1, EventsPrinted DEF ReadsEvents
<1> QED
  BY <1>1, <1>2, <1>3, <1>4, <1>5, <1>6 DEF FollowerStep

LEMMA FollowerKeepsInv ==
  ASSUME Inv, Next, NEW f \in Follower, Starts(f) \/ FollowerStep(f)
  PROVE  Inv'
<1>1. Grows
  BY StepGrows
<1>2. /\ Moves(f) /\ Prints(f)
      /\ stale' \in BOOLEAN /\ died' \in BOOLEAN /\ lost' \in BOOLEAN /\ files' \in BOOLEAN
      /\ readOnly' \subseteq Follower
      /\ pending' \in [Follower -> BOOLEAN] /\ saw' \in [Follower -> BOOLEAN]
  BY FollowerMoves
<1>3. TypeOK'
  BY <1>1, <1>2 DEF Grows, Moves, Prints, TypeOK
<1>4. PrintsTheLog'
  <2> SUFFICES ASSUME NEW g \in Follower
               PROVE  cursor'[g] <= Len(log') /\ printed'[g] = SubSeq(log', 1, cursor'[g])
    BY DEF PrintsTheLog
  <2>1. /\ log \in Seq(Type) /\ Len(log) \in Nat /\ Len(log') \in Nat
        /\ cursor[g] \in 0..Len(log) /\ printed[g] = SubSeq(log, 1, cursor[g])
    BY <1>1, LenProperties DEF Grows, Inv, TypeOK, PrintsTheLog
  <2>2. CASE cursor'[g] = cursor[g] /\ printed'[g] = printed[g]
    BY <1>1, <2>1, <2>2 DEF Grows
  <2>3. CASE log' = log /\ cursor'[g] = Len(log) /\ printed'[g] = log
    BY <2>1, <2>3, SubSeqFull
  <2> QED
    BY <1>2, <2>2, <2>3 DEF Prints
<1>5. ShowsTheOutcome'
  <2> SUFFICES ASSUME NEW g \in Follower, pc'[g] = "done"
               PROVE  /\ row'[g] \in Terminal
                      /\ \E i \in DOMAIN printed'[g] : printed'[g][i] = row'[g]
    BY DEF ShowsTheOutcome
  <2>1. CASE g = f
    BY <1>2, <2>1 DEF Prints, Inv, Knows, Recorded
  <2>2. CASE g # f
    BY <1>2, <2>2 DEF Moves, Prints, Inv, ShowsTheOutcome
  <2> QED
    BY <2>1, <2>2
<1>6. \A g \in Follower : Knows(g)'
  <2> TAKE g \in Follower
  <2>1. CASE g # f
    BY <1>1, <1>2, <2>1 DEF Grows, Moves, Inv, Knows
  <2>2. CASE g = f
    <3>1. row'[f] = row[f] \/ row'[f] = status
      BY DEF Starts, FollowerStep, Marks, MarkFindsPid, MarkCreates, MarkAppends, MarkEnds,
             ReadsSession, ReadsEvents, Inv, TypeOK, progress
    <3>2. row'[f] \in Terminal => Recorded(row[f])'
      BY <1>1, <3>1 DEF Inv, TypeOK, Knows, StatusBacked, Grows, Recorded
    <3>3. (pc'[f] \in {"append", "end"} => status' # "none")
          /\ (pc'[f] = "end" => Recorded(Crashed)')
      <4>1. CASE MarkCreates(f)
        BY <4>1 DEF MarkCreates, Goto, Inv, TypeOK
      <4>2. CASE MarkAppends(f)
        <5>1. log' = Append(log, Crashed) /\ log \in Seq(Type) /\ status' = status
              /\ pc[f] = "append"
          BY <4>2 DEF MarkAppends, At, Inv, TypeOK
        <5>2. Len(log) + 1 \in DOMAIN log' /\ log'[Len(log) + 1] = Crashed
          BY <5>1, AppendProperties, LenProperties
        <5>3. status # "none"
          BY <5>1 DEF Inv, Knows
        <5> QED
          BY <5>1, <5>2, <5>3 DEF Recorded
      <4>3. CASE Starts(f) \/ Marks(f) \/ MarkFindsPid(f) \/ MarkEnds(f) \/ ReadsSession(f)
                 \/ ReadsEvents(f)
        <5>1. pc'[f] \notin {"append", "end"}
          BY <4>3 DEF Starts, Marks, MarkFindsPid, MarkEnds, ReadsSession, ReadsEvents,
                      Goto, Loop, Inv, TypeOK
        <5> QED
          BY <5>1
      <4> QED
        BY <4>1, <4>2, <4>3 DEF FollowerStep
    <3> QED
      BY <2>2, <3>2, <3>3 DEF Knows
  <2> QED
    BY <2>1, <2>2
<1> QED
  BY <1>1, <1>3, <1>4, <1>5, <1>6 DEF Grows, Inv

LEMMA OthersKeepInv ==
  ASSUME Inv, [Next]_vars,
         UNCHANGED vars \/ Prepares \/ OthersWrite \/ WorkerDies \/ OthersClean
  PROVE  Inv'
<1>1. Grows
  BY StepGrows
<1>2. UNCHANGED <<readOnly, pc, progress>>
  BY DEF vars, Prepares, OthersWrite, WorkerDies, OthersClean
<1>3. TypeOK'
  <2>1. stale' \in BOOLEAN /\ died' \in BOOLEAN /\ lost' \in BOOLEAN /\ files' \in BOOLEAN
    BY DEF Inv, TypeOK, vars, Prepares, OthersWrite, WorkerDies, OthersClean, others
  <2> QED
    BY <1>1, <1>2, <2>1 DEF Grows, Inv, TypeOK, progress
<1>4. PrintsTheLog'
  <2> SUFFICES ASSUME NEW g \in Follower
               PROVE  cursor'[g] <= Len(log') /\ printed'[g] = SubSeq(log', 1, cursor'[g])
    BY DEF PrintsTheLog
  <2>1. /\ Len(log) \in Nat /\ Len(log') \in Nat
        /\ cursor[g] \in 0..Len(log) /\ printed[g] = SubSeq(log, 1, cursor[g])
    BY <1>1, LenProperties DEF Grows, Inv, TypeOK, PrintsTheLog
  <2> QED
    BY <1>1, <1>2, <2>1 DEF Grows, progress
<1>5. ShowsTheOutcome'
  BY <1>2 DEF Inv, ShowsTheOutcome, progress
<1>6. \A g \in Follower : Knows(g)'
  BY <1>1, <1>2 DEF Inv, Knows, Grows, progress
<1> QED
  BY <1>1, <1>3, <1>4, <1>5, <1>6 DEF Grows, Inv

LEMMA StepInv == Inv /\ [Next]_vars => Inv'
BY FollowerKeepsInv, OthersKeepInv DEF Next

LEMMA Invariance == Spec => []Inv
BY InitInv, StepInv, PTL DEF Spec

-----------------------------------------------------------------------------
(* Theorems *)

\* Every variable of the followers has its type.
THEOREM TypeCorrect == Spec => []TypeOK
<1>1. Inv => TypeOK
  BY DEF Inv
<1> QED
  BY <1>1, Invariance, PTL

\* No event is skipped or printed twice by `status --follow`.
THEOREM FollowersPrintTheLog == Spec => []PrintsTheLog
<1>1. Inv => PrintsTheLog
  BY DEF Inv
<1> QED
  BY <1>1, Invariance, PTL

\* A follower that ends has printed the event behind the state it shows.
THEOREM OutcomeIsShown == Spec => []ShowsTheOutcome
<1>1. Inv => ShowsTheOutcome
  BY DEF Inv
<1> QED
  BY <1>1, Invariance, PTL

\* The reconciliation `status` runs is a writer of a session like the others.
THEOREM FollowersKeepTheSession == Spec => KeepsTheSession
<1>1. Init => Session!Init
  BY DEF Init
<1>2. Inv /\ [Next]_vars => [Session!Next]_<<log, status>>
  BY StepOfSession DEF SessionStep, session
<1> QED
  BY <1>1, <1>2, Invariance, PTL DEF Spec, KeepsTheSession, Session!Spec
=============================================================================
