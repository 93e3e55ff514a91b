---------------------------- MODULE ConfigProofs ----------------------------
(***************************************************************************)
(* Proofs about Config, for any commands, keys and values: the file is     *)
(* never torn and an acknowledged `config set` survives.  The inductive    *)
(* invariant says what a command that is about to write has in its memory: *)
(* unless it ran at the same time as an acknowledged set, it has loaded    *)
(* that set's value.                                                       *)
(***************************************************************************)
EXTENDS Config, TLAPS

\* The history `after` misses nobody.
AfterIsComplete ==
  \A p, q \in Proc :
    /\ p \notin after[p]
    /\ ~ Started(p) => after[p] = {}
    /\ p # q /\ Started(p) /\ Running(q) => q \in after[p]

WritersStarted == \A q \in wrote : Started(q)

\* What is read is whole, what is renamed over it too.
FilesAreWhole ==
  /\ file # Torn
  /\ \A p \in Proc :
       /\ pc[p] \in {"read", "done"} => file # Absent
       /\ pc[p] = "replace" => temp[p] = mem[p]

HasLoaded(q) == pc[q] \in {"create", "write", "replace", "done"}

LoadedSets ==
  \A p, q \in Proc :
    Acknowledged(p) /\ HasLoaded(q) /\ q \in after[p] /\ p \notin after[q]
      => Overtaken(p) \/ Sets(q, cmd[p].key) \/ Holds(mem[q], p)

Inv ==
  /\ TypeOK /\ NoCommandFails
  /\ AfterIsComplete /\ WritersStarted /\ FilesAreWhole
  /\ SetsSurvive /\ LoadedSets

-----------------------------------------------------------------------------
\* with_value keeps the other keys and sets its own.
LEMMA WithValueIsContent ==
  ASSUME NEW config \in Content, NEW command \in Command
  PROVE  /\ WithValue(config, command) \in Content
         /\ command.kind = "set"
              => WithValue(config, command)[command.key] = command.value
         /\ \A k \in Key : ~ (command.kind = "set" /\ command.key = k)
              => WithValue(config, command)[k] = config[k]
<1>1. CASE command.kind = "set"
  <2>1. command.key \in Key /\ command.value \in Value
    BY <1>1 DEF Command
  <2>2. QED BY <1>1, <2>1 DEF WithValue, Content
<1>2. CASE command.kind # "set"
  BY <1>2 DEF WithValue
<1>3. QED BY <1>1, <1>2

\* Whoever overtook an acknowledged set has overtaken it for good.
LEMMA OvertakenStays ==
  ASSUME NEW p \in Proc, Overtaken(p), WritersStarted, TypeOK,
         wrote \subseteq wrote',
         \A q \in Proc : after[q] \subseteq after'[q],
         \A q \in Proc : Started(q) => cmd'[q] = cmd[q],
         Started(p)
  PROVE  Overtaken(p)'
<1>1. PICK q \in wrote : q \in after[p] /\ q # p /\ (Overlap(p, q) \/ Sets(q, cmd[p].key))
  BY DEF Overtaken
<1>2. q \in Proc /\ q \in wrote' /\ cmd'[q] = cmd[q] /\ cmd'[p] = cmd[p]
  BY <1>1 DEF WritersStarted, TypeOK
<1>3. q \in after'[p] /\ (p \in after[q] => p \in after'[q])
  BY <1>1, <1>2
<1>4. QED BY <1>1, <1>2, <1>3 DEF Overtaken, Overlap, Sets

\* A new home satisfies the invariant.
LEMMA InitInv == Init => Inv
<1> SUFFICES ASSUME Init PROVE Inv
  OBVIOUS
<1>1. TypeOK
  BY ConstantsOK DEF Init, TypeOK, Step, Command
<1>2. QED
  BY <1>1, ConstantsOK DEF Init, Inv, NoCommandFails, AfterIsComplete, WritersStarted,
    FilesAreWhole, SetsSurvive, LoadedSets, Acknowledged, Started, Running, Step

-----------------------------------------------------------------------------
\* Every step keeps the types.
LEMMA TypeStep == ASSUME TypeOK, [Next]_vars PROVE TypeOK'
<1> USE DEF TypeOK, Goto, Step
<1>1. ASSUME NEW p \in Proc, NEW command \in Command, Starts(p, command) PROVE TypeOK'
  BY <1>1 DEF Starts
<1>2. ASSUME NEW p \in Proc, FindsFile(p) PROVE TypeOK'
  BY <1>2 DEF FindsFile
<1>3. ASSUME NEW p \in Proc, FindsNoFile(p) PROVE TypeOK'
  BY <1>3, ConstantsOK DEF FindsNoFile
<1>4. ASSUME NEW p \in Proc, Reads(p) PROVE TypeOK'
  <2>1. cmd[p] \in Command
    OBVIOUS
  <2>2. CASE file \in Content
    <3>1. WithValue(file, cmd[p]) \in Content
      BY <2>1, <2>2, WithValueIsContent
    <3>2. QED BY <1>4, <2>2, <3>1 DEF Reads, Loaded
  <2>3. CASE file \notin Content
    BY <1>4, <2>3 DEF Reads
  <2>4. QED BY <2>2, <2>3
<1>5. ASSUME NEW p \in Proc, CreatesTemp(p) PROVE TypeOK'
  BY <1>5 DEF CreatesTemp
<1>6. ASSUME NEW p \in Proc, WritesTemp(p) PROVE TypeOK'
  BY <1>6 DEF WritesTemp
<1>7. ASSUME NEW p \in Proc, Replaces(p) PROVE TypeOK'
  <2>1. cmd[p] \in Command /\ mem[p] \in Content
    OBVIOUS
  <2>2. WithValue(mem[p], cmd[p]) \in Content
    BY <2>1, WithValueIsContent
  <2>3. QED BY <1>7, <2>2 DEF Replaces, Loaded
<1>8. ASSUME NEW p \in Proc, Dies(p) PROVE TypeOK'
  BY <1>8 DEF Dies
<1>9. ASSUME UNCHANGED vars PROVE TypeOK'
  BY <1>9 DEF vars
<1>10. QED BY <1>1, <1>2, <1>3, <1>4, <1>5, <1>6, <1>7, <1>8, <1>9 DEF Next

\* What every step does to the histories and to the commands.
LEMMA HistoriesGrow ==
  ASSUME TypeOK, AfterIsComplete, [Next]_vars
  PROVE  /\ wrote \subseteq wrote'
         /\ \A q \in Proc : after[q] \subseteq after'[q]
         /\ \A q \in Proc : Started(q) => cmd'[q] = cmd[q] /\ Started(q)'
<1> USE DEF TypeOK, Goto, Started, Running, Step
<1>1. ASSUME NEW p \in Proc, NEW command \in Command, Starts(p, command)
      PROVE  /\ wrote \subseteq wrote'
             /\ \A q \in Proc : after[q] \subseteq after'[q]
             /\ \A q \in Proc : Started(q) => cmd'[q] = cmd[q] /\ Started(q)'
  BY <1>1 DEF Starts, AfterIsComplete
<1>2. ASSUME NEW p \in Proc,
             \/ FindsFile(p) \/ FindsNoFile(p) \/ Reads(p) \/ CreatesTemp(p)
             \/ WritesTemp(p) \/ Replaces(p) \/ Dies(p)
      PROVE  /\ wrote \subseteq wrote' /\ after' = after /\ cmd' = cmd
             /\ \A q \in Proc : Started(q) => Started(q)'
  BY <1>2 DEF FindsFile, FindsNoFile, Reads, Loaded, CreatesTemp, WritesTemp, Replaces, Dies
<1>3. ASSUME UNCHANGED vars
      PROVE  /\ wrote' = wrote /\ after' = after /\ cmd' = cmd /\ pc' = pc
  BY <1>3 DEF vars
<1>4. QED BY <1>1, <1>2, <1>3 DEF Next

\* Whoever still runs stays in the history of everybody else who has started.
LEMMA AfterStep == ASSUME TypeOK, AfterIsComplete, [Next]_vars PROVE AfterIsComplete'
<1> USE DEF TypeOK, Goto, Started, Running, Step, AfterIsComplete
<1>1. ASSUME NEW p \in Proc, NEW command \in Command, Starts(p, command)
      PROVE AfterIsComplete'
  BY <1>1 DEF Starts
<1>2. ASSUME NEW p \in Proc,
             \/ FindsFile(p) \/ FindsNoFile(p) \/ Reads(p) \/ CreatesTemp(p)
             \/ WritesTemp(p) \/ Replaces(p) \/ Dies(p)
      PROVE AfterIsComplete'
  <2>1. after' = after /\ \A q \in Proc : (Running(q)' => Running(q)) /\ (Started(q)' <=> Started(q))
    BY <1>2 DEF FindsFile, FindsNoFile, Reads, Loaded, CreatesTemp, WritesTemp, Replaces, Dies
  <2>2. QED BY <2>1
<1>3. CASE UNCHANGED vars
  BY <1>3 DEF vars
<1>4. QED BY <1>1, <1>2, <1>3 DEF Next

\* Whoever has written the file has started.
LEMMA WrittenStep ==
  ASSUME TypeOK, AfterIsComplete, WritersStarted, [Next]_vars PROVE WritersStarted'
<1>1. \A q \in Proc : Started(q) => Started(q)'
  BY HistoriesGrow
<1>2. CASE wrote' = wrote
  BY <1>1, <1>2 DEF WritersStarted, TypeOK
<1>3. CASE \E p \in Proc : Replaces(p)
  BY <1>1, <1>3 DEF WritersStarted, TypeOK, Replaces, Started
<1>4. wrote' = wrote \/ \E p \in Proc : Replaces(p)
  BY DEF Next, Starts, FindsFile, FindsNoFile, Reads, CreatesTemp, WritesTemp, Dies, vars
<1>5. QED BY <1>2, <1>3, <1>4

\* The file is only ever replaced by a whole one.
LEMMA WholeStep ==
  ASSUME TypeOK, NoCommandFails, FilesAreWhole, [Next]_vars
  PROVE  FilesAreWhole' /\ NoCommandFails'
<1> USE DEF TypeOK, Goto, Step, FilesAreWhole, NoCommandFails
<1>1. ASSUME NEW p \in Proc, NEW command \in Command, Starts(p, command)
      PROVE FilesAreWhole' /\ NoCommandFails'
  BY <1>1 DEF Starts
<1>2. ASSUME NEW p \in Proc, FindsFile(p) \/ FindsNoFile(p)
      PROVE FilesAreWhole' /\ NoCommandFails'
  BY <1>2 DEF FindsFile, FindsNoFile
<1>3. ASSUME NEW p \in Proc, Reads(p)
      PROVE FilesAreWhole' /\ NoCommandFails'
  <2>1. file \in Content /\ file' = file /\ temp' = temp
    BY <1>3 DEF Reads
  <2>2. /\ pc' = [pc EXCEPT ![p] = "done"] \/ pc' = [pc EXCEPT ![p] = "create"]
        /\ \A q \in Proc \ {p} : mem'[q] = mem[q]
    BY <1>3, <2>1 DEF Reads, Loaded
  <2>3. QED BY <1>3, <2>1, <2>2, ConstantsOK
<1>4. ASSUME NEW p \in Proc, CreatesTemp(p) \/ WritesTemp(p)
      PROVE FilesAreWhole' /\ NoCommandFails'
  BY <1>4 DEF CreatesTemp, WritesTemp
<1>5. ASSUME NEW p \in Proc, Replaces(p)
      PROVE FilesAreWhole' /\ NoCommandFails'
  <2>1. file' \in Content
    BY <1>5 DEF Replaces
  <2>2. /\ pc' = [pc EXCEPT ![p] = "done"] \/ pc' = [pc EXCEPT ![p] = "create"]
        /\ \A q \in Proc \ {p} : mem'[q] = mem[q] /\ temp'[q] = temp[q]
    BY <1>5 DEF Replaces, Loaded
  <2>3. QED BY <2>1, <2>2, ConstantsOK
<1>6. ASSUME NEW p \in Proc, Dies(p)
      PROVE FilesAreWhole' /\ NoCommandFails'
  BY <1>6 DEF Dies
<1>7. CASE UNCHANGED vars
  BY <1>7 DEF vars
<1>8. QED BY <1>1, <1>2, <1>3, <1>4, <1>5, <1>6, <1>7 DEF Next
-----------------------------------------------------------------------------
\* A process that is acknowledged by a step has just read or written its
\* value; whoever else runs, or has ended by then, ran at the same time.
LEMMA JustAcknowledged ==
  ASSUME Inv, [Next]_vars, NEW p \in Proc, Acknowledged(p)', ~ Acknowledged(p)
  PROVE  /\ Running(p)
         /\ Reads(p) \/ Replaces(p)
         /\ file' \in Content /\ Holds(file, p)'
<1> USE DEF Inv, TypeOK, Goto, Running, Step
<1>1. Reads(p) \/ Replaces(p)
  BY DEF Next, Starts, FindsFile, FindsNoFile, Reads, Loaded, CreatesTemp, WritesTemp,
    Replaces, Dies, vars, Acknowledged
<1>2. cmd[p] \in Command /\ cmd'[p] = cmd[p] /\ cmd[p].kind = "set" /\ pc'[p] = "done"
  BY <1>1 DEF Reads, Replaces, Acknowledged
<1>3. CASE Reads(p)
  <2>1. file \in Content /\ file' = file
    BY <1>3, <1>2 DEF Reads
  <2>2. WithValue(file, cmd[p]) = file
    BY <1>3, <1>2, <2>1 DEF Reads, Loaded
  <2>3. QED BY <1>2, <1>3, <2>1, <2>2, WithValueIsContent DEF Holds, Reads
<1>4. CASE Replaces(p)
  <2>1. mem[p] \in Content /\ file' = mem[p]
    BY <1>4 DEF Replaces, FilesAreWhole
  <2>2. WithValue(mem[p], cmd[p]) = mem[p]
    BY <1>4, <1>2 DEF Replaces, Loaded
  <2>3. QED BY <1>2, <1>4, <2>1, <2>2, WithValueIsContent DEF Holds, Replaces
<1>5. QED BY <1>1, <1>3, <1>4

\* No step takes an acknowledged value out of the file unexcused.
LEMMA SurviveStep == ASSUME Inv, [Next]_vars PROVE SetsSurvive'
<1> SUFFICES ASSUME NEW p \in Proc, Acknowledged(p)', ~ Overtaken(p)'
             PROVE  file' \in Content /\ Holds(file, p)'
  BY DEF SetsSurvive
<1>1. CASE ~ Acknowledged(p)
  BY <1>1, JustAcknowledged
<1>2. CASE Acknowledged(p)
  <2>1. Started(p) /\ cmd'[p] = cmd[p] /\ ~ Overtaken(p)
    BY <1>2, HistoriesGrow, OvertakenStays DEF Inv, Acknowledged, Started
  <2>2. file \in Content /\ Holds(file, p)
    BY <1>2, <2>1 DEF Inv, SetsSurvive
  <2>3. CASE file' = file
    BY <2>1, <2>2, <2>3 DEF Holds
  <2>4. ASSUME NEW q \in Proc, Replaces(q) PROVE file' \in Content /\ Holds(file, p)'
    <3>1. /\ q # p /\ Running(q) /\ HasLoaded(q) /\ file' = mem[q] /\ mem[q] \in Content
          /\ q \in wrote' /\ after' = after /\ cmd' = cmd
      BY <1>2, <2>4 DEF Replaces, Acknowledged, Running, Step, HasLoaded, Inv, FilesAreWhole,
        TypeOK
    <3>2. q \in after[p]
      BY <3>1, <2>1 DEF Inv, AfterIsComplete
    <3>3. p \notin after[q] /\ ~ Sets(q, cmd[p].key)
      BY <3>1, <3>2 DEF Overtaken, Overlap, Sets
    <3>4. Holds(mem[q], p)
      BY <1>2, <2>1, <3>1, <3>2, <3>3 DEF Inv, LoadedSets
    <3>5. QED BY <3>1, <3>4 DEF Holds
  <2>5. file' = file \/ \E q \in Proc : Replaces(q)
    BY DEF Next, Starts, FindsFile, FindsNoFile, Reads, CreatesTemp, WritesTemp, Dies, vars
  <2>6. QED BY <2>3, <2>4, <2>5
<1>3. QED BY <1>1, <1>2

\* Whoever has loaded the file after an acknowledged set holds its value.
LEMMA LoadedStep == ASSUME Inv, [Next]_vars PROVE LoadedSets'
<1> SUFFICES ASSUME NEW p \in Proc, NEW q \in Proc, Acknowledged(p)', HasLoaded(q)',
                    q \in after'[p], p \notin after'[q],
                    ~ Overtaken(p)', ~ Sets(q, cmd[p].key)'
             PROVE  Holds(mem[q], p)'
  BY DEF LoadedSets
<1>1. p # q
  BY AfterStep DEF Inv, AfterIsComplete
<1>2. Started(q) /\ cmd'[q] = cmd[q] /\ p \notin after[q]
  <2>1. Started(q)
    BY DEF HasLoaded, Started, Next, Starts, FindsFile, FindsNoFile, Reads, Loaded, CreatesTemp,
      WritesTemp, Replaces, Dies, vars, Goto, Inv, TypeOK
  <2>2. QED BY <2>1, HistoriesGrow DEF Inv
<1>3. Acknowledged(p)
  <2>1. SUFFICES ASSUME ~ Acknowledged(p) PROVE FALSE
    OBVIOUS
  <2>2. Running(p)
    BY <2>1, JustAcknowledged
  <2>3. QED BY <1>1, <1>2, <2>2 DEF Inv, AfterIsComplete
<1>4. cmd'[p] = cmd[p] /\ ~ Overtaken(p) /\ ~ Sets(q, cmd[p].key)
  <2>1. Started(p) /\ cmd'[p] = cmd[p]
    BY <1>3, HistoriesGrow DEF Inv, Acknowledged, Started
  <2>2. QED BY <1>2, <2>1, HistoriesGrow, OvertakenStays DEF Inv, Sets
<1>5. file \in Content /\ Holds(file, p)
  BY <1>3, <1>4 DEF Inv, SetsSurvive
<1>6. q \in after[p]
  <2>1. CASE after' = after
    BY <2>1
  <2>2. ASSUME NEW r \in Proc, NEW command \in Command, Starts(r, command)
        PROVE  q \in after[p]
    BY <1>2, <1>3, <2>2 DEF Starts, Started, Acknowledged, Inv, TypeOK
  <2>3. QED BY <2>1, <2>2 DEF Next, FindsFile, FindsNoFile, Reads, CreatesTemp, WritesTemp,
    Replaces, Dies, vars
<1>7. cmd[p] \in Command /\ cmd[p].kind = "set" /\ cmd[p].key \in Key /\ cmd[q] \in Command
  BY <1>3 DEF Acknowledged, Inv, TypeOK, Command
<1>8. CASE mem'[q] = mem[q] /\ HasLoaded(q)
  BY <1>3, <1>4, <1>6, <1>2, <1>8 DEF Inv, LoadedSets, Holds
<1>9. CASE FindsNoFile(q)
  BY <1>9, <1>3 DEF FindsNoFile, Inv, FilesAreWhole, Acknowledged
<1>10. CASE Reads(q)
  <2>1. mem'[q] = WithValue(file, cmd[q])
    BY <1>10, <1>5 DEF Reads, Loaded, Inv, TypeOK
  <2>2. QED BY <2>1, <1>4, <1>5, <1>7, WithValueIsContent DEF Holds, Sets
<1>11. CASE Replaces(q)
  <2>1. /\ mem'[q] = WithValue(mem[q], cmd[q]) /\ mem[q] \in Content
        /\ HasLoaded(q)
    BY <1>11 DEF Replaces, Loaded, Inv, TypeOK, HasLoaded
  <2>2. Holds(mem[q], p)
    BY <2>1, <1>2, <1>3, <1>4, <1>6 DEF Inv, LoadedSets
  <2>3. QED BY <2>1, <2>2, <1>4, <1>7, WithValueIsContent, SMTT(30) DEF Holds, Sets
<1>12. \/ mem'[q] = mem[q] /\ HasLoaded(q)
       \/ FindsNoFile(q) \/ Reads(q) \/ Replaces(q)
  BY DEF Next, Starts, FindsFile, FindsNoFile, Reads, Loaded, CreatesTemp, WritesTemp,
    Replaces, Dies, vars, Goto, HasLoaded, Inv, TypeOK
<1>13. QED BY <1>8, <1>9, <1>10, <1>11, <1>12

\* The invariant is inductive.
LEMMA InvStep == ASSUME Inv, [Next]_vars PROVE Inv'
BY TypeStep, AfterStep, WrittenStep, WholeStep, SurviveStep, LoadedStep DEF Inv

\* The invariant holds of every reachable state.
THEOREM Invariance == Spec => []Inv
BY InitInv, InvStep, PTL DEF Spec

\* Every variable of the configuration keeps its type.
THEOREM ConfigTypeCorrect == Spec => []TypeOK
<1>1. Inv => TypeOK
  BY DEF Inv
<1>2. QED BY <1>1, Invariance, PTL

\* No command ever meets a torn file, for any number of commands, keys and
\* values (config.py, _write_config).
THEOREM NoTornConfig == Spec => []NoCommandFails
<1>1. Inv => NoCommandFails
  BY DEF Inv
<1>2. QED BY <1>1, Invariance, PTL

\* An acknowledged `config set` stays in the file unless a writer ran at the
\* same time or a later command set the same key (config.py, save_config).
THEOREM AcknowledgedSetsSurvive == Spec => []SetsSurvive
<1>1. Inv => SetsSurvive
  BY DEF Inv
<1>2. QED BY <1>1, Invariance, PTL

\* Every command that starts after an acknowledged set sees it or changes it
\* (config.py, load_config).
THEOREM AcknowledgedSetsAreSeen == Spec => []SetsAreSeen
<1>1. Inv => SetsAreSeen
  BY DEF Inv, LoadedSets, SetsAreSeen, HasLoaded
<1>2. QED BY <1>1, Invariance, PTL
=============================================================================
