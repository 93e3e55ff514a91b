------------------------------- MODULE Config -------------------------------
(***************************************************************************)
(* The configuration file (config.py, `mobius config`): every command      *)
(* reads the whole file, a `set` changes one key of what it has read and   *)
(* replaces the whole file, and whoever finds no file writes the default.  *)
(* There is no lock; a file is replaced by renaming a temporary file of    *)
(* its own over it.  Each process runs one command and may die anywhere.   *)
(* (The state directory and the store, which a load opens first, are the   *)
(* business of StoreOpen.)                                                 *)
(***************************************************************************)
EXTENDS Naturals

CONSTANTS
  Proc,     \* commands
  Key,      \* profile, log_level and any other key
  Value,    \* their values
  Default,  \* the configuration of a new home
  Unset,    \* the value of a key that is not in the file
  Absent,   \* no file
  Torn      \* a file that is open for writing: empty, or a part of it

Content == [Key -> Value \cup {Unset}]

Command == [kind : {"read"}] \cup [kind : {"set"}, key : Key, value : Value]

ASSUME ConstantsOK ==
  /\ Default \in Content
  /\ Absent # Torn
  /\ {Absent, Torn} \cap Content = {}

VARIABLES
  file,    \* config.json
  temp,    \* the temporary file of each process
  pc,      \* next step of each process
  cmd,     \* its command
  mem,     \* the configuration it has loaded or is about to write
  after,   \* history: those who had not ended when a process started
  wrote    \* history: those who have replaced the file

vars == <<file, temp, pc, cmd, mem, after, wrote>>

Step == {"load", "read", "create", "write", "replace"}

Running(p) == pc[p] \in Step

Started(p) == pc[p] # "new"

\* Neither had ended when the other started.
Overlap(p, q) == p \in after[q] /\ q \in after[p]

-----------------------------------------------------------------------------
Init ==
  /\ file = Absent
  /\ temp = [p \in Proc |-> Absent]
  /\ pc = [p \in Proc |-> "new"]
  /\ cmd = [p \in Proc |-> [kind |-> "read"]]
  /\ mem = [p \in Proc |-> Default]
  /\ after = [p \in Proc |-> {}]
  /\ wrote = {}

Goto(p, step) == pc' = [pc EXCEPT ![p] = step]

\* `config get`, `config show` and every other load are "read".
Starts(p, command) ==
  /\ pc[p] = "new"
  /\ Goto(p, "load")
  /\ cmd' = [cmd EXCEPT ![p] = command]
  /\ after' = [q \in Proc |->
                 IF q = p THEN {r \in Proc : Running(r)}
                 ELSE IF Started(q) THEN after[q] \cup {p} ELSE after[q]]
  /\ UNCHANGED <<file, temp, mem, wrote>>

\* Mutant of WithValue: the other keys start again from the default.
WithValueOnly(config, command) ==
  IF command.kind = "set" THEN [Default EXCEPT ![command.key] = command.value]
  ELSE config

\* with_value
WithValue(config, command) ==
  IF command.kind = "set" THEN [config EXCEPT ![command.key] = command.value]
  ELSE config

\* load_config returns; what a `set` does not change it does not write.
Loaded(p, config) ==
  LET updated == WithValue(config, cmd[p])
  IN /\ mem' = [mem EXCEPT ![p] = updated]
     /\ Goto(p, IF updated = config THEN "done" ELSE "create")

\* Nobody removes the file: what exists can be read.
FindsFile(p) ==
  /\ pc[p] = "load"
  /\ file # Absent
  /\ Goto(p, "read")
  /\ UNCHANGED <<file, temp, cmd, mem, after, wrote>>

\* Mutant of FindsNoFile: the default is written on every load.
FindsNothing(p) ==
  /\ pc[p] = "load"
  /\ mem' = [mem EXCEPT ![p] = Default]
  /\ Goto(p, "create")
  /\ UNCHANGED <<file, temp, cmd, after, wrote>>

FindsNoFile(p) ==
  /\ pc[p] = "load"
  /\ file = Absent
  /\ mem' = [mem EXCEPT ![p] = Default]
  /\ Goto(p, "create")
  /\ UNCHANGED <<file, temp, cmd, after, wrote>>

\* A torn file is no JSON: the command fails.
Reads(p) ==
  /\ pc[p] = "read"
  /\ IF file \in Content THEN Loaded(p, file)
     ELSE Goto(p, "failed") /\ UNCHANGED mem
  /\ UNCHANGED <<file, temp, cmd, after, wrote>>

\* Mutant of CreatesTemp: the file itself is opened for writing.
OpensFile(p) ==
  /\ pc[p] = "create"
  /\ file' = Torn
  /\ temp' = [temp EXCEPT ![p] = Torn]
  /\ Goto(p, "write")
  /\ UNCHANGED <<cmd, mem, after, wrote>>

\* NamedTemporaryFile: a name nobody else has.
CreatesTemp(p) ==
  /\ pc[p] = "create"
  /\ temp' = [temp EXCEPT ![p] = Torn]
  /\ Goto(p, "write")
  /\ UNCHANGED <<file, cmd, mem, after, wrote>>

WritesTemp(p) ==
  /\ pc[p] = "write"
  /\ temp' = [temp EXCEPT ![p] = mem[p]]
  /\ Goto(p, "replace")
  /\ UNCHANGED <<file, cmd, mem, after, wrote>>

\* A `set` that has just written the default still has to make its change.
Replaces(p) ==
  /\ pc[p] = "replace"
  /\ file' = temp[p]
  /\ temp' = [temp EXCEPT ![p] = Absent]
  /\ wrote' = wrote \cup {p}
  /\ Loaded(p, mem[p])
  /\ UNCHANGED <<cmd, after>>

\* The temporary file stays.
Dies(p) ==
  /\ Running(p)
  /\ Goto(p, "dead")
  /\ UNCHANGED <<file, temp, cmd, mem, after, wrote>>

Next ==
  \E p \in Proc :
    \/ \E command \in Command : Starts(p, command)
    \/ FindsFile(p) \/ FindsNoFile(p) \/ Reads(p)
    \/ CreatesTemp(p) \/ WritesTemp(p) \/ Replaces(p)
    \/ Dies(p)

Spec == Init /\ [][Next]_vars

-----------------------------------------------------------------------------
(* Properties *)

\* Every variable has its type.
TypeOK ==
  /\ file \in Content \cup {Absent, Torn}
  /\ temp \in [Proc -> Content \cup {Absent, Torn}]
  /\ pc \in [Proc -> Step \cup {"new", "done", "failed", "dead"}]
  /\ cmd \in [Proc -> Command]
  /\ mem \in [Proc -> Content]
  /\ after \in [Proc -> SUBSET Proc]
  /\ wrote \in SUBSET Proc

\* No command ever meets a half-written file, whoever writes or dies meanwhile.
NoCommandFails == \A p \in Proc : pc[p] # "failed"

Acknowledged(p) == pc[p] = "done" /\ cmd[p].kind = "set"

Sets(p, key) == cmd[p].kind = "set" /\ cmd[p].key = key

Holds(config, p) == config[cmd[p].key] = cmd[p].value

\* Somebody has written the file who ran at the same time as p, or later and to
\* set the same key.
Overtaken(p) ==
  \E q \in wrote : q \in after[p] /\ q # p /\ (Overlap(p, q) \/ Sets(q, cmd[p].key))

\* An acknowledged `config set` stays in the file, through all later commands
\* and their deaths, unless a writer of the file ran at the same time or a
\* later command set the same key.
SetsSurvive ==
  \A p \in Proc : Acknowledged(p) => Overtaken(p) \/ (file \in Content /\ Holds(file, p))

\* ... and every command that starts after it sees it, or changes it.
SetsAreSeen ==
  \A p, q \in Proc :
    Acknowledged(p) /\ pc[q] = "done" /\ q \in after[p] /\ p \notin after[q]
      => Overtaken(p) \/ Sets(q, cmd[p].key) \/ Holds(mem[q], p)
=============================================================================
