-------------------------------- MODULE Setup --------------------------------
(***************************************************************************)
(* `mobius setup` for one runtime and scope: it copies the files of a      *)
(* release to their targets and then writes the inventory by which         *)
(* `mobius setup --uninstall` takes them back.  There is no lock: commands *)
(* may overlap, die between any two steps, and the user may edit or delete *)
(* the files at any time.                                                  *)
(*                                                                         *)
(* A content is named by its hash.  Directories and the temporary files of *)
(* a command that died are left out: a copy that fails because another     *)
(* command has just removed its empty directory is a failure like others.  *)
(***************************************************************************)
EXTENDS Naturals, Sequences

CONSTANTS
  Proc,      \* commands that may run at the same time
  Path,      \* the targets
  Sha,       \* the hashes of what releases contain
  Release,   \* releases of Mobius: their files, in the order of _build_assets
  User,      \* the hash of what the user writes
  Nothing    \* no file, no inventory

Entry == [path : Path, sha256 : Sha]

ASSUME ReleasesOK ==
  /\ Release \subseteq Seq(Entry) \ {<<>>}
  /\ \A r \in Release : \A i, j \in DOMAIN r : r[i].path = r[j].path => i = j
  /\ User \notin Sha /\ Nothing \notin Sha \cup {User} \cup Release

VARIABLES
  file,        \* the content at each target
  inventory,   \* the entries of the inventory file
  pc,          \* where each command is
  plan,        \* the entries it works on ...
  at,          \* ... and the one it has reached
  alone,       \* history: nobody else has changed anything since it started
  tidy         \* history: no command has left a file for which none answers

vars == <<file, inventory, pc, plan, at, alone, tidy>>

Installing == {"look", "copy", "list"}
Removing == {"read", "check", "unlink", "forget"}

Listed(path, content) ==
  inventory # Nothing /\ \E i \in DOMAIN inventory :
    inventory[i] = [path |-> path, sha256 |-> content]

Current(p) == plan[p][at[p]]

\* What p writes disturbs the others.
Disturbs(p) == alone' = [q \in Proc |-> q = p /\ alone[q]]

\* Mutant of GoOn: one entry too many.
GoesOnPast(p, loop, after) ==
  IF at[p] <= Len(plan[p])
  THEN pc' = [pc EXCEPT ![p] = loop] /\ at' = [at EXCEPT ![p] = @ + 1]
  ELSE pc' = [pc EXCEPT ![p] = after] /\ at' = at

\* p goes on with the next entry of its plan, or to `after` behind the last.
GoOn(p, loop, after) ==
  IF at[p] < Len(plan[p])
  THEN pc' = [pc EXCEPT ![p] = loop] /\ at' = [at EXCEPT ![p] = @ + 1]
  ELSE pc' = [pc EXCEPT ![p] = after] /\ at' = at

Goes(p, label) == pc' = [pc EXCEPT ![p] = label]

Init ==
  /\ file \in [Path -> {User, Nothing}] /\ inventory = Nothing
  /\ pc = [p \in Proc |-> "idle"]
  /\ plan = [p \in Proc |-> <<>>] /\ at = [p \in Proc |-> 1]
  /\ alone = [p \in Proc |-> TRUE]
  /\ tidy = TRUE

Resting(p) == pc[p] \in {"idle", "installed", "removed", "failed"}

PathsOf(entries) == {entries[i].path : i \in DOMAIN entries}

\* No other command is at work, but for the installation of the same files;
\* nothing that is installed has been dropped from the release.
Orderly(p, entries) ==
  /\ \A q \in Proc \ {p} :
       Resting(q) \/ (pc[q] \in Installing /\ plan[q] = entries)
  /\ inventory = Nothing \/ PathsOf(inventory) \subseteq PathsOf(entries)

-----------------------------------------------------------------------------
(* Installation *)

StartsInstall(p, entries) ==
  /\ Resting(p)
  /\ Goes(p, "look")
  /\ plan' = [plan EXCEPT ![p] = entries] /\ at' = [at EXCEPT ![p] = 1]
  /\ alone' = [alone EXCEPT ![p] = TRUE]
  /\ tidy' = (tidy /\ Orderly(p, entries))
  /\ UNCHANGED <<file, inventory>>

\* Mutant of Looks: a file that exists is left alone.
LooksForAny(p) ==
  /\ pc[p] = "look"
  /\ IF file[Current(p).path] # Nothing
     THEN GoOn(p, "look", "list")
     ELSE Goes(p, "copy") /\ at' = at
  /\ UNCHANGED <<file, inventory, plan, alone, tidy>>

\* _install_action: a file that has the content already is skipped.
Looks(p) ==
  /\ pc[p] = "look"
  /\ IF file[Current(p).path] = Current(p).sha256
     THEN GoOn(p, "look", "list")
     ELSE Goes(p, "copy") /\ at' = at
  /\ UNCHANGED <<file, inventory, plan, alone, tidy>>

\* _copy_if_changed: a temporary file takes the place of the target.
Copies(p) ==
  /\ pc[p] = "copy"
  /\ file' = [file EXCEPT ![Current(p).path] = Current(p).sha256]
  /\ GoOn(p, "look", "list")
  /\ Disturbs(p)
  /\ UNCHANGED <<inventory, plan, tidy>>

\* The inventory lists every file of the release, skipped or written.
WritesInventory(p) ==
  /\ pc[p] = "list"
  /\ inventory' = plan[p]
  /\ Goes(p, "installed")
  /\ Disturbs(p)
  /\ UNCHANGED <<file, plan, at, tidy>>

-----------------------------------------------------------------------------
(* Removal *)

StartsRemoval(p) ==
  /\ Resting(p)
  /\ Goes(p, "read")
  /\ plan' = [plan EXCEPT ![p] = <<>>] /\ at' = [at EXCEPT ![p] = 1]
  /\ alone' = [alone EXCEPT ![p] = TRUE]
  /\ tidy' = (tidy /\ \A q \in Proc : pc[q] \notin Installing)
  /\ UNCHANGED <<file, inventory>>

\* Mutant of ReadsInventory: the inventory is removed when it has been read.
TakesInventory(p) ==
  /\ pc[p] = "read"
  /\ IF inventory = Nothing
     THEN Goes(p, "removed") /\ plan' = plan
     ELSE Goes(p, "check") /\ plan' = [plan EXCEPT ![p] = inventory]
  /\ inventory' = Nothing
  /\ UNCHANGED <<file, at, alone, tidy>>

\* _read_inventory; without one nothing is removed.
ReadsInventory(p) ==
  /\ pc[p] = "read"
  /\ IF inventory = Nothing
     THEN Goes(p, "removed") /\ plan' = plan
     ELSE Goes(p, "check") /\ plan' = [plan EXCEPT ![p] = inventory]
  /\ UNCHANGED <<file, inventory, at, alone, tidy>>

\* Mutant of Checks: the hash is not compared.
ChecksPath(p) ==
  /\ pc[p] = "check"
  /\ IF file[Current(p).path] # Nothing
     THEN Goes(p, "unlink") /\ at' = at
     ELSE GoOn(p, "check", "forget")
  /\ UNCHANGED <<file, inventory, plan, alone, tidy>>

\* Missing and modified files are skipped.
Checks(p) ==
  /\ pc[p] = "check"
  /\ IF file[Current(p).path] = Current(p).sha256
     THEN Goes(p, "unlink") /\ at' = at
     ELSE GoOn(p, "check", "forget")
  /\ UNCHANGED <<file, inventory, plan, alone, tidy>>

\* The file goes, whatever it has become since; without one unlink raises.
Unlinks(p) ==
  /\ pc[p] = "unlink"
  /\ IF file[Current(p).path] = Nothing
     THEN Goes(p, "failed") /\ UNCHANGED <<at, file, alone>>
     ELSE /\ file' = [file EXCEPT ![Current(p).path] = Nothing]
          /\ GoOn(p, "check", "forget")
          /\ Disturbs(p)
  /\ UNCHANGED <<inventory, plan, tidy>>

\* inventory_path.unlink(missing_ok=True)
Forgets(p) ==
  /\ pc[p] = "forget"
  /\ inventory' = Nothing
  /\ Goes(p, "removed")
  /\ Disturbs(p)
  /\ UNCHANGED <<file, plan, at, tidy>>

-----------------------------------------------------------------------------
\* A command is killed, or a system call raises.  An installation that dies
\* leaves files nobody has listed, unless the inventory lists them already.
Fails(p) ==
  /\ ~ Resting(p)
  /\ Goes(p, "failed")
  /\ tidy' = (tidy /\ (pc[p] \in Installing => plan[p] = inventory))
  /\ UNCHANGED <<file, inventory, plan, at, alone>>

\* The user edits or deletes a file.
UserEdits(path) ==
  /\ \E content \in {User, Nothing} : file' = [file EXCEPT ![path] = content]
  /\ alone' = [p \in Proc |-> FALSE]
  /\ UNCHANGED <<inventory, pc, plan, at, tidy>>

Next ==
  \/ \E p \in Proc :
       \/ \E entries \in Release : StartsInstall(p, entries)
       \/ Looks(p) \/ Copies(p) \/ WritesInventory(p)
       \/ StartsRemoval(p)
       \/ ReadsInventory(p) \/ Checks(p) \/ Unlinks(p) \/ Forgets(p)
       \/ Fails(p)
  \/ \E path \in Path : UserEdits(path)

Spec == Init /\ [][Next]_vars

-----------------------------------------------------------------------------
(* Properties *)

\* Every variable has its type.
TypeOK ==
  /\ file \in [Path -> Sha \cup {User, Nothing}]
  /\ inventory \in Release \cup {Nothing}
  /\ pc \in [Proc -> Installing \cup Removing \cup {"idle", "installed", "removed", "failed"}]
  /\ plan \in [Proc -> Release \cup {<<>>}]
  /\ at \in [Proc -> Nat]
  /\ \A p \in Proc : at[p] \in DOMAIN plan[p] \cup {1}
  /\ alone \in [Proc -> BOOLEAN] /\ tidy \in BOOLEAN

\* Setup repairs: an installation during which nobody else changed anything
\* ends with every file of its release in place and listed, whatever commands
\* that died or overlapped and whatever the user had made of it before.
\* Likewise a removal ends without an inventory and without any file the
\* inventory listed, also when it completes one that died halfway.
SetupTakesEffect ==
  \A p \in Proc :
    /\ pc[p] = "installed" /\ alone[p] =>
         /\ inventory = plan[p]
         /\ \A i \in DOMAIN plan[p] : file[plan[p][i].path] = plan[p][i].sha256
    /\ pc[p] = "removed" /\ alone[p] =>
         /\ inventory = Nothing
         /\ \A i \in DOMAIN plan[p] : file[plan[p][i].path] # plan[p][i].sha256

\* A removal during which nobody else changed anything takes away only what
\* the inventory lists with the content it has: never what the user wrote.
RemovalIsSelective ==
  [][\A p \in Proc, path \in Path :
       /\ pc[p] \in Removing /\ alone[p] /\ alone'[p]
       /\ file'[path] # file[path]
       => Listed(path, file[path])]_vars

\* Nothing is forgotten: as long as no first installation of a release dies or
\* overlaps with another command, and no release drops a file, every file of
\* Mobius is listed -- while removals die halfway and overlap, the user edits,
\* and installations of the listed release are repeated, overlap and die.
NothingForgotten ==
  tidy /\ (\A p \in Proc : pc[p] \in Installing => plan[p] = inventory)
    => \A path \in Path : file[path] \in Sha => Listed(path, file[path])
=============================================================================
