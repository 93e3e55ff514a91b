----------------------------- MODULE SetupProofs -----------------------------
(***************************************************************************)
(* Proofs about setup, for any number of concurrent commands and any       *)
(* releases.                                                               *)
(***************************************************************************)
EXTENDS Setup, TLAPS

-----------------------------------------------------------------------------
(* Types *)

\* The steps at which a command has a plan.
Planned == Installing \cup {"check", "unlink", "forget"}

TypeInv ==
  /\ TypeOK
  /\ \A p \in Proc :
       /\ pc[p] \in Planned => plan[p] \in Release
       /\ pc[p] = "read" => plan[p] = <<>>

LEMMA ReleaseEntries ==
  ASSUME NEW r \in Release
  PROVE  /\ r \in Seq(Entry) /\ Len(r) \in Nat \ {0} /\ DOMAIN r = 1..Len(r)
         /\ \A i \in DOMAIN r : /\ r[i] \in Entry
                                /\ r[i].path \in Path /\ r[i].sha256 \in Sha
                                /\ r[i] = [path |-> r[i].path, sha256 |-> r[i].sha256]
         /\ \A i, j \in DOMAIN r : r[i].path = r[j].path => i = j
<1>1. r \in Seq(Entry) \ {<<>>}
  BY ReleasesOK
<1>2. Len(r) \in Nat \ {0} /\ DOMAIN r = 1..Len(r) /\ \A i \in DOMAIN r : r[i] \in Entry
  BY <1>1
<1> QED
  BY <1>1, <1>2, ReleasesOK DEF Entry

\* Where a command is in its plan is where it has an entry.
LEMMA CurrentOK ==
  ASSUME TypeInv, NEW p \in Proc, pc[p] \in Planned
  PROVE  /\ plan[p] \in Release /\ at[p] \in DOMAIN plan[p]
         /\ Current(p).path \in Path /\ Current(p).sha256 \in Sha
<1>1. plan[p] \in Release /\ at[p] \in DOMAIN plan[p] \cup {1}
  BY DEF TypeInv, TypeOK
<1>2. at[p] \in DOMAIN plan[p]
  BY <1>1, ReleaseEntries
<1> QED
  BY <1>1, <1>2, ReleaseEntries DEF Current

\* The entries a command is through with.
Through(p) ==
  IF pc[p] \in {"look", "copy", "check", "unlink"} THEN 1..(at[p] - 1)
  ELSE DOMAIN plan[p]

LEMMA GoesOn ==
  ASSUME TypeInv, NEW p \in Proc, pc[p] \in {"look", "copy", "check", "unlink"},
         NEW loop \in {"look", "check"}, NEW after \in {"list", "forget"},
         GoOn(p, loop, after), plan' = plan
  PROVE  /\ pc' \in [Proc -> Installing \cup Removing \cup {"idle", "installed", "removed", "failed"}]
         /\ at' \in [Proc -> Nat] /\ at'[p] \in DOMAIN plan[p]
         /\ \A q \in Proc \ {p} : pc'[q] = pc[q] /\ at'[q] = at[q]
         /\ pc'[p] \in {loop, after}
         /\ Through(p)' = Through(p) \cup {at[p]}
<1>1. plan[p] \in Release /\ at[p] \in DOMAIN plan[p]
  BY CurrentOK DEF Planned, Installing
<1>2. Len(plan[p]) \in Nat /\ DOMAIN plan[p] = 1..Len(plan[p])
  BY <1>1, ReleaseEntries
<1>3. pc \in [Proc -> Installing \cup Removing \cup {"idle", "installed", "removed", "failed"}]
      /\ at \in [Proc -> Nat] /\ at[p] \in 1..Len(plan[p])
  BY <1>1, <1>2 DEF TypeInv, TypeOK
<1>4. CASE at[p] < Len(plan[p])
  <2>1. pc' = [pc EXCEPT ![p] = loop] /\ at' = [at EXCEPT ![p] = @ + 1]
    BY <1>4 DEF GoOn
  <2>2. pc'[p] = loop /\ at'[p] = at[p] + 1
    BY <1>3, <2>1
  <2>3. Through(p)' = 1..at[p] /\ Through(p) = 1..(at[p] - 1)
    BY <1>3, <2>2 DEF Through
  <2> QED
    BY <1>2, <1>3, <1>4, <2>1, <2>2, <2>3 DEF Installing, Removing
<1>5. CASE ~ (at[p] < Len(plan[p]))
  <2>1. pc' = [pc EXCEPT ![p] = after] /\ at' = at
    BY <1>5 DEF GoOn
  <2>2. pc'[p] = after /\ at[p] = Len(plan[p])
    BY <1>3, <1>5, <2>1
  <2>3. Through(p)' = 1..Len(plan[p]) /\ Through(p) = 1..(at[p] - 1)
    BY <1>2, <1>3, <2>2 DEF Through
  <2> QED
    BY <1>2, <1>3, <2>1, <2>2, <2>3 DEF Installing, Removing
<1> QED
  BY <1>4, <1>5

LEMMA TypeStep == TypeInv /\ [Next]_vars => TypeInv'
<1> SUFFICES ASSUME TypeInv, [Next]_vars PROVE TypeInv'
  OBVIOUS
<1> USE DEF Planned, Installing, Removing, Goes, Disturbs
<1>1. CASE UNCHANGED vars
  BY <1>1 DEF TypeInv, TypeOK, vars
<1>2. ASSUME NEW p \in Proc, NEW entries \in Release, StartsInstall(p, entries)
      PROVE  TypeInv'
  BY <1>2 DEF StartsInstall, TypeInv, TypeOK
<1>3. ASSUME NEW p \in Proc, StartsRemoval(p) PROVE TypeInv'
  BY <1>3 DEF StartsRemoval, TypeInv, TypeOK
<1>4. ASSUME NEW p \in Proc, Looks(p) \/ Checks(p) PROVE TypeInv'
  <2>1. UNCHANGED <<file, inventory, plan, alone, tidy>> /\ pc[p] \in {"look", "check"}
    BY <1>4 DEF Looks, Checks
  <2>2. CASE GoOn(p, "look", "list") \/ GoOn(p, "check", "forget")
    BY <2>1, <2>2, GoesOn DEF TypeInv, TypeOK
  <2>3. CASE at' = at /\ (Goes(p, "copy") \/ Goes(p, "unlink"))
    BY <2>1, <2>3 DEF TypeInv, TypeOK
  <2> QED
    BY <1>4, <2>2, <2>3 DEF Looks, Checks
<1>5. ASSUME NEW p \in Proc, Copies(p) PROVE TypeInv'
  <2>1. file' \in [Path -> Sha \cup {User, Nothing}]
    BY <1>5, CurrentOK DEF Copies, TypeInv, TypeOK
  <2>2. /\ pc[p] = "copy" /\ GoOn(p, "look", "list") /\ UNCHANGED <<inventory, plan, tidy>>
        /\ alone' \in [Proc -> BOOLEAN]
    BY <1>5 DEF Copies, TypeInv, TypeOK
  <2> QED
    BY <2>1, <2>2, GoesOn DEF TypeInv, TypeOK
<1>6. ASSUME NEW p \in Proc, Unlinks(p) PROVE TypeInv'
  <2>1. file' \in [Path -> Sha \cup {User, Nothing}]
    BY <1>6 DEF Unlinks, TypeInv, TypeOK
  <2>2. CASE GoOn(p, "check", "forget")
    <3>1. pc[p] = "unlink" /\ UNCHANGED <<inventory, plan, tidy>>
          /\ alone' \in [Proc -> BOOLEAN]
      BY <1>6 DEF Unlinks, TypeInv, TypeOK
    <3> QED
      BY <2>1, <2>2, <3>1, GoesOn DEF TypeInv, TypeOK
  <2>3. CASE Goes(p, "failed") /\ UNCHANGED <<at, alone>>
    BY <1>6, <2>1, <2>3 DEF Unlinks, TypeInv, TypeOK
  <2> QED
    BY <1>6, <2>2, <2>3 DEF Unlinks
<1>7. ASSUME NEW p \in Proc, WritesInventory(p) \/ Forgets(p) PROVE TypeInv'
  BY <1>7 DEF WritesInventory, Forgets, TypeInv, TypeOK
<1>8. ASSUME NEW p \in Proc, ReadsInventory(p) PROVE TypeInv'
  <2>1. pc[p] = "read" /\ plan[p] = <<>> /\ at[p] = 1
    <3>1. pc[p] = "read" /\ plan[p] = <<>> /\ at[p] \in DOMAIN plan[p] \cup {1}
      BY <1>8 DEF ReadsInventory, TypeInv, TypeOK
    <3> QED BY <3>1
  <2>2. CASE inventory = Nothing
    BY <1>8, <2>1, <2>2 DEF ReadsInventory, TypeInv, TypeOK
  <2>3. CASE inventory # Nothing
    <3>1. inventory \in Release
      BY <2>3 DEF TypeInv, TypeOK
    <3>2. /\ pc' = [pc EXCEPT ![p] = "check"] /\ plan' = [plan EXCEPT ![p] = inventory]
          /\ UNCHANGED <<file, inventory, at, alone, tidy>>
      BY <1>8, <2>3 DEF ReadsInventory
    <3> QED
      BY <2>1, <3>1, <3>2 DEF TypeInv, TypeOK
  <2> QED
    BY <2>2, <2>3
<1>9. ASSUME NEW p \in Proc, Fails(p) PROVE TypeInv'
  BY <1>9 DEF Fails, TypeInv, TypeOK
<1>10. ASSUME NEW path \in Path, UserEdits(path) PROVE TypeInv'
  BY <1>10 DEF UserEdits, TypeInv, TypeOK
<1> QED
  BY <1>1, <1>2, <1>3, <1>4, <1>5, <1>6, <1>7, <1>8, <1>9, <1>10 DEF Next

LEMMA TypeInit == Init => TypeInv
  BY DEF Init, TypeInv, TypeOK, Planned, Installing, Removing

\* Every variable has its type, and whoever works on a plan is inside it.
THEOREM SetupTypeCorrect == Spec => []TypeOK
<1>1. TypeInv => TypeOK
  BY DEF TypeInv
<1> QED
  BY <1>1, TypeInit, TypeStep, PTL DEF Spec

-----------------------------------------------------------------------------
(* Setup takes effect *)

InPlace(p, i) == file[plan[p][i].path] = plan[p][i].sha256

\* What a command that is alone has achieved so far, and still finds.
Achieved(p) ==
  /\ pc[p] \in Installing \cup {"installed"} => \A i \in Through(p) : InPlace(p, i)
  /\ pc[p] \in {"check", "unlink", "forget", "removed"} =>
       \A i \in Through(p) : ~ InPlace(p, i)
  /\ pc[p] \in {"installed", "check", "unlink", "forget"} => inventory = plan[p]
  /\ pc[p] = "removed" => inventory = Nothing
  /\ pc[p] = "unlink" => InPlace(p, at[p])

EffectInv == \A p \in Proc : alone[p] => Achieved(p)

\* Commands that do not move, while nobody touches the files, keep it.
LEMMA Undisturbed ==
  ASSUME TypeInv, NEW q \in Proc, Achieved(q),
         UNCHANGED <<file, inventory, pc[q], plan[q], at[q]>>
  PROVE  Achieved(q)'
<1>1. Through(q)' = Through(q)
  BY DEF Through
<1>2. \A i : InPlace(q, i)' <=> InPlace(q, i)
  BY DEF InPlace
<1> QED
  BY <1>1, <1>2 DEF Achieved

\* A command that touches the current entry only leaves its others as they are.
LEMMA OtherEntries ==
  ASSUME TypeInv, NEW p \in Proc, pc[p] \in {"copy", "unlink"}, plan' = plan,
         NEW content, file' = [file EXCEPT ![Current(p).path] = content]
  PROVE  /\ \A i \in Through(p) : InPlace(p, i)' <=> InPlace(p, i)
         /\ file'[Current(p).path] = content
         /\ \A i : i = at[p] => (InPlace(p, i)' <=> content = Current(p).sha256)
<1>1. plan[p] \in Release /\ at[p] \in DOMAIN plan[p] /\ Current(p).path \in Path
  BY CurrentOK DEF Planned, Installing
<1>2. /\ Through(p) = 1..(at[p] - 1) /\ DOMAIN plan[p] = 1..Len(plan[p])
      /\ Len(plan[p]) \in Nat
      /\ \A i, j \in DOMAIN plan[p] : plan[p][i].path = plan[p][j].path => i = j
      /\ \A i \in DOMAIN plan[p] : plan[p][i].path \in Path
  BY <1>1, ReleaseEntries DEF Through
<1>3. /\ file \in [Path -> Sha \cup {User, Nothing}]
      /\ file'[Current(p).path] = content
      /\ \A path \in Path \ {Current(p).path} : file'[path] = file[path]
  BY <1>1 DEF TypeInv, TypeOK
<1>4. \A i \in Through(p) : i \in DOMAIN plan[p] /\ plan[p][i].path # Current(p).path
  BY <1>1, <1>2 DEF Current
<1>5. \A i \in Through(p) : file'[plan[p][i].path] = file[plan[p][i].path]
  BY <1>2, <1>3, <1>4
<1> QED
  BY <1>1, <1>3, <1>5 DEF InPlace, Current

LEMMA EffectStep == TypeInv /\ EffectInv /\ [Next]_vars => EffectInv'
<1> SUFFICES ASSUME TypeInv, EffectInv, [Next]_vars PROVE EffectInv'
  OBVIOUS
<1> USE DEF Goes, Disturbs
<1>0. /\ pc \in [Proc -> Installing \cup Removing \cup {"idle", "installed", "removed", "failed"}]
      /\ plan \in [Proc -> Release \cup {<<>>}] /\ at \in [Proc -> Nat]
      /\ alone \in [Proc -> BOOLEAN]
  BY DEF TypeInv, TypeOK
\* The others: either they are disturbed or nothing has changed for them.
<1>1. ASSUME NEW p \in Proc, NEW q \in Proc \ {p}, alone'[q],
             Disturbs(p) \/ (UNCHANGED <<file, inventory>> /\ alone'[q] = alone[q]),
             UNCHANGED <<pc[q], plan[q], at[q]>>
      PROVE  Achieved(q)'
  <2>1. UNCHANGED <<file, inventory>> /\ alone[q]
    BY <1>0, <1>1
  <2> QED BY <1>1, <2>1, Undisturbed DEF EffectInv
<1>2. CASE UNCHANGED vars
  BY <1>0, <1>2, Undisturbed DEF vars, EffectInv
<1>3. ASSUME NEW p \in Proc, NEW entries \in Release, StartsInstall(p, entries)
      PROVE  EffectInv'
  <2>1. /\ UNCHANGED <<file, inventory>> /\ pc'[p] = "look" /\ at'[p] = 1
        /\ \A q \in Proc \ {p} : UNCHANGED <<pc[q], plan[q], at[q], alone[q]>>
    BY <1>0, <1>3 DEF StartsInstall
  <2>2. Through(p)' = {} /\ Achieved(p)'
    BY <2>1 DEF Through, Achieved, Installing
  <2> QED BY <1>1, <2>1, <2>2 DEF EffectInv
<1>4. ASSUME NEW p \in Proc, StartsRemoval(p) PROVE EffectInv'
  <2>1. /\ UNCHANGED <<file, inventory>> /\ pc'[p] = "read"
        /\ \A q \in Proc \ {p} : UNCHANGED <<pc[q], plan[q], at[q], alone[q]>>
    BY <1>0, <1>4 DEF StartsRemoval
  <2>2. Achieved(p)'
    BY <2>1 DEF Achieved, Installing
  <2> QED BY <1>1, <2>1, <2>2 DEF EffectInv
<1>5. ASSUME NEW p \in Proc, Looks(p) \/ Checks(p) PROVE EffectInv'
  <2>1. /\ UNCHANGED <<file, inventory, plan, alone>> /\ pc[p] \in {"look", "check"}
        /\ pc[p] = "look" <=> Looks(p)
    BY <1>5 DEF Looks, Checks
  <2>2. \A i : InPlace(p, i)' <=> InPlace(p, i)
    BY <2>1 DEF InPlace
  <2>3. CASE Looks(p) /\ GoOn(p, "look", "list") /\ InPlace(p, at[p])
    <3>1. /\ \A q \in Proc \ {p} : UNCHANGED <<pc[q], plan[q], at[q], alone[q]>>
          /\ pc'[p] \in {"look", "list"} /\ Through(p)' = Through(p) \cup {at[p]}
      BY <2>1, <2>3, GoesOn
    <3>2. Achieved(p) => Achieved(p)'
      BY <2>1, <2>2, <2>3, <3>1 DEF Achieved, Installing
    <3> QED BY <1>1, <2>1, <3>1, <3>2 DEF EffectInv
  <2>4. CASE Checks(p) /\ GoOn(p, "check", "forget") /\ ~ InPlace(p, at[p])
    <3>1. /\ \A q \in Proc \ {p} : UNCHANGED <<pc[q], plan[q], at[q], alone[q]>>
          /\ pc'[p] \in {"check", "forget"} /\ Through(p)' = Through(p) \cup {at[p]}
      BY <2>1, <2>4, GoesOn
    <3>2. pc[p] = "check"
      BY <2>4 DEF Checks
    <3>3. Achieved(p) => Achieved(p)'
      BY <2>1, <2>2, <2>4, <3>1, <3>2 DEF Achieved, Installing
    <3> QED BY <1>1, <2>1, <3>1, <3>3 DEF EffectInv
  <2>5. CASE at' = at /\ \/ Goes(p, "copy") /\ pc[p] = "look"
                         \/ Goes(p, "unlink") /\ pc[p] = "check" /\ InPlace(p, at[p])
    <3>1. /\ \A q \in Proc \ {p} : UNCHANGED <<pc[q], plan[q], at[q], alone[q]>>
          /\ Through(p)' = Through(p)
      BY <1>0, <2>1, <2>5 DEF Through
    <3>2. Achieved(p) => Achieved(p)'
      BY <1>0, <2>1, <2>2, <2>5, <3>1 DEF Achieved, Installing
    <3> QED BY <1>1, <2>1, <3>1, <3>2 DEF EffectInv
  <2> QED
    BY <1>5, <2>3, <2>4, <2>5 DEF Looks, Checks, InPlace, Current
<1>6. ASSUME NEW p \in Proc, Copies(p) PROVE EffectInv'
  <2>1. /\ pc[p] = "copy" /\ GoOn(p, "look", "list") /\ Disturbs(p)
        /\ UNCHANGED <<inventory, plan>>
        /\ file' = [file EXCEPT ![Current(p).path] = Current(p).sha256]
    BY <1>6 DEF Copies
  <2>2. /\ \A q \in Proc \ {p} : UNCHANGED <<pc[q], plan[q], at[q]>>
        /\ pc'[p] \in {"look", "list"} /\ Through(p)' = Through(p) \cup {at[p]}
    BY <2>1, GoesOn
  <2>3. /\ \A i \in Through(p) : InPlace(p, i)' <=> InPlace(p, i)
        /\ \A i : i = at[p] => InPlace(p, i)'
    BY <2>1, OtherEntries
  <2>4. Achieved(p) => Achieved(p)'
    BY <2>1, <2>2, <2>3 DEF Achieved, Installing
  <2>5. alone'[p] => alone[p]
    BY <1>0, <2>1
  <2> QED BY <1>1, <2>1, <2>2, <2>4, <2>5 DEF EffectInv
<1>7. ASSUME NEW p \in Proc, Unlinks(p) PROVE EffectInv'
  <2>1. CASE Goes(p, "failed") /\ UNCHANGED <<at, file, alone, inventory, plan>>
    <3>1. pc'[p] = "failed" /\ \A q \in Proc \ {p} : pc'[q] = pc[q]
      BY <1>0, <2>1
    <3>2. Achieved(p)'
      BY <3>1 DEF Achieved, Installing
    <3> QED BY <1>1, <2>1, <3>1, <3>2 DEF EffectInv
  <2>2. CASE /\ file' = [file EXCEPT ![Current(p).path] = Nothing]
             /\ GoOn(p, "check", "forget") /\ Disturbs(p)
    <3>1. pc[p] = "unlink" /\ UNCHANGED <<inventory, plan>>
      BY <1>7 DEF Unlinks
    <3>2. /\ \A q \in Proc \ {p} : UNCHANGED <<pc[q], plan[q], at[q]>>
          /\ pc'[p] \in {"check", "forget"} /\ Through(p)' = Through(p) \cup {at[p]}
      BY <2>2, <3>1, GoesOn
    <3>3. Current(p).sha256 # Nothing
      BY <3>1, CurrentOK, ReleasesOK DEF Planned
    <3>4. /\ \A i \in Through(p) : InPlace(p, i)' <=> InPlace(p, i)
          /\ \A i : i = at[p] => ~ InPlace(p, i)'
      BY <2>2, <3>1, <3>3, OtherEntries
    <3>5. Achieved(p) => Achieved(p)'
      BY <3>1, <3>2, <3>4 DEF Achieved, Installing
    <3>6. alone'[p] => alone[p]
      BY <1>0, <2>2
    <3> QED BY <1>1, <2>2, <3>1, <3>2, <3>5, <3>6 DEF EffectInv
  <2> QED BY <1>7, <2>1, <2>2 DEF Unlinks
<1>8. ASSUME NEW p \in Proc, WritesInventory(p) \/ Forgets(p) PROVE EffectInv'
  <2>1. /\ Disturbs(p) /\ UNCHANGED <<file, plan, at>>
        /\ \A q \in Proc \ {p} : pc'[q] = pc[q]
        /\ alone'[p] => alone[p]
        /\ \/ pc[p] = "list" /\ pc'[p] = "installed" /\ inventory' = plan[p]
           \/ pc[p] = "forget" /\ pc'[p] = "removed" /\ inventory' = Nothing
    BY <1>0, <1>8 DEF WritesInventory, Forgets
  <2>2. Through(p)' = Through(p) /\ \A i : InPlace(p, i)' <=> InPlace(p, i)
    BY <2>1 DEF Through, InPlace
  <2>3. Achieved(p) => Achieved(p)'
    BY <2>1, <2>2 DEF Achieved, Installing
  <2> QED BY <1>1, <2>1, <2>3 DEF EffectInv
<1>9. ASSUME NEW p \in Proc, ReadsInventory(p) PROVE EffectInv'
  <2>1. /\ UNCHANGED <<file, inventory, at, alone>>
        /\ \A q \in Proc \ {p} : UNCHANGED <<pc[q], plan[q]>>
        /\ pc[p] = "read" /\ plan[p] = <<>> /\ at[p] = 1
    <3>1. pc[p] = "read" /\ plan[p] = <<>> /\ at[p] \in DOMAIN plan[p] \cup {1}
      BY <1>9 DEF ReadsInventory, TypeInv, TypeOK
    <3> QED BY <1>0, <1>9, <3>1 DEF ReadsInventory
  <2>2. CASE inventory = Nothing
    <3>1. pc'[p] = "removed" /\ plan'[p] = <<>> /\ DOMAIN <<>> = {}
      BY <1>0, <1>9, <2>1, <2>2 DEF ReadsInventory
    <3>2. Achieved(p)'
      BY <2>1, <2>2, <3>1 DEF Achieved, Installing, Through
    <3> QED BY <1>1, <2>1, <3>2 DEF EffectInv
  <2>3. CASE inventory # Nothing
    <3>1. pc'[p] = "check" /\ plan'[p] = inventory
      BY <1>0, <1>9, <2>3 DEF ReadsInventory
    <3>2. Through(p)' = {}
      BY <2>1, <3>1 DEF Through
    <3>3. Achieved(p)'
      BY <2>1, <3>1, <3>2 DEF Achieved, Installing
    <3> QED BY <1>1, <2>1, <3>3 DEF EffectInv
  <2> QED BY <2>2, <2>3
<1>10. ASSUME NEW p \in Proc, Fails(p) PROVE EffectInv'
  <2>1. /\ UNCHANGED <<file, inventory, plan, at, alone>> /\ pc'[p] = "failed"
        /\ \A q \in Proc \ {p} : pc'[q] = pc[q]
    BY <1>0, <1>10 DEF Fails
  <2>2. Achieved(p)'
    BY <2>1 DEF Achieved, Installing
  <2> QED BY <1>1, <2>1, <2>2 DEF EffectInv
<1>11. ASSUME NEW path \in Path, UserEdits(path) PROVE EffectInv'
  BY <1>11 DEF UserEdits, EffectInv
<1> QED
  BY <1>2, <1>3, <1>4, <1>5, <1>6, <1>7, <1>8, <1>9, <1>10, <1>11 DEF Next

LEMMA EffectInit == Init => EffectInv
  BY DEF Init, EffectInv, Achieved, Installing

\* A setup, and a removal, that nobody disturbs has its effect when it is done,
\* whatever it has found.
THEOREM CommandsTakeEffect == Spec => []SetupTakesEffect
<1>1. EffectInv => SetupTakesEffect
  BY DEF EffectInv, Achieved, InPlace, Through, SetupTakesEffect
<1> QED
  BY <1>1, TypeInit, TypeStep, EffectInit, EffectStep, PTL DEF Spec

\* What an undisturbed removal takes away is listed, with the content it has.
THEOREM RemovalsAreSelective == Spec => RemovalIsSelective
<1>1. TypeInv /\ EffectInv /\ [Next]_vars
        => [\A p \in Proc, path \in Path :
              /\ pc[p] \in Removing /\ alone[p] /\ alone'[p]
              /\ file'[path] # file[path]
              => Listed(path, file[path])]_vars
  <2> SUFFICES ASSUME TypeInv, EffectInv, [Next]_vars
               PROVE  \A p \in Proc, path \in Path :
                        /\ pc[p] \in Removing /\ alone[p] /\ alone'[p]
                        /\ file'[path] # file[path]
                        => Listed(path, file[path])
    OBVIOUS
  <2> SUFFICES ASSUME NEW p \in Proc, NEW path \in Path, pc[p] \in Removing,
                      alone[p], alone'[p], file'[path] # file[path]
               PROVE  Listed(path, file[path])
    OBVIOUS
  <2>1. ASSUME NEW q \in Proc, Disturbs(q) PROVE q = p
    BY <2>1 DEF Disturbs
  <2>2. ~ \E q \in Proc : Copies(q)
    <3>1. ASSUME NEW q \in Proc, Copies(q) PROVE FALSE
      <4>1. pc[q] = "copy" /\ Disturbs(q)
        BY <3>1 DEF Copies
      <4> QED BY <2>1, <4>1 DEF Removing
    <3> QED BY <3>1
  <2>3. ~ \E other \in Path : UserEdits(other)
    BY DEF UserEdits
  <2>4. \E q \in Proc : Unlinks(q)
    BY <2>2, <2>3 DEF Next, vars, StartsInstall, Looks, WritesInventory, StartsRemoval,
       ReadsInventory, Checks, Forgets, Fails
  <2>5. PICK q \in Proc : Unlinks(q)
    BY <2>4
  <2>6. /\ pc[q] = "unlink" /\ Disturbs(q)
        /\ file' = [file EXCEPT ![Current(q).path] = Nothing]
    BY <2>5 DEF Unlinks
  <2>7. /\ plan[q] \in Release /\ at[q] \in DOMAIN plan[q]
        /\ path = Current(q).path /\ alone[q]
    <3>1. file \in [Path -> Sha \cup {User, Nothing}]
      BY DEF TypeInv, TypeOK
    <3> QED BY <2>1, <2>6, <3>1, CurrentOK DEF Planned
  <2>8. inventory = plan[q] /\ file[path] = Current(q).sha256
    BY <2>6, <2>7 DEF EffectInv, Achieved, InPlace, Current
  <2>9. inventory # Nothing /\ inventory[at[q]] = [path |-> path, sha256 |-> file[path]]
    BY <2>7, <2>8, ReleaseEntries, ReleasesOK DEF Current
  <2> QED
    BY <2>7, <2>8, <2>9 DEF Listed
<1> QED
  BY <1>1, TypeInit, TypeStep, EffectInit, EffectStep, PTL DEF Spec, RemovalIsSelective

-----------------------------------------------------------------------------
(* Nothing is forgotten *)

\* Some installation that is under way answers for the content of path.
Answered(path, content) ==
  \E p \in Proc : /\ pc[p] \in Installing
                  /\ \E i \in DOMAIN plan[p] :
                       plan[p][i] = [path |-> path, sha256 |-> content]

\* As long as the history is tidy, installations under way are of one release,
\* with no removal at the same time; the entries one of them is through with
\* have no other content of Mobius, and those a removal is through with not the
\* listed one; and every file of Mobius is listed or answered for.
OneRelease ==
  \A p, q \in Proc :
    pc[p] \in Installing /\ ~ Resting(q) => pc[q] \in Installing /\ plan[q] = plan[p]

InstallOK(p) ==
  pc[p] \in Installing =>
    /\ inventory = Nothing \/ PathsOf(inventory) \subseteq PathsOf(plan[p])
    /\ \A i \in Through(p) : file[plan[p][i].path] \in {plan[p][i].sha256, User, Nothing}

RemovalOK(p) ==
  pc[p] \in {"check", "unlink", "forget"} =>
    /\ inventory \in {plan[p], Nothing}
    /\ \A i \in Through(p) : ~ InPlace(p, i)

AnsweredFor ==
  \A path \in Path :
    file[path] \in Sha => Listed(path, file[path]) \/ Answered(path, file[path])

TidyInv ==
  tidy => /\ OneRelease /\ AnsweredFor
          /\ \A p \in Proc : InstallOK(p) /\ RemovalOK(p)

LEMMA StaysTidy ==
  ASSUME [Next]_vars, tidy'
  PROVE  tidy
<1>1. ASSUME NEW p \in Proc,
             \/ (\E entries \in Release : StartsInstall(p, entries))
             \/ StartsRemoval(p) \/ Fails(p)
      PROVE  tidy
  BY <1>1, Zenon DEF StartsInstall, StartsRemoval, Fails
<1>2. ASSUME NEW p \in Proc,
             \/ Looks(p) \/ Copies(p) \/ WritesInventory(p)
             \/ ReadsInventory(p) \/ Checks(p) \/ Unlinks(p) \/ Forgets(p)
      PROVE  tidy' = tidy
  BY <1>2 DEF Looks, Copies, WritesInventory, ReadsInventory, Checks, Unlinks, Forgets
<1>3. ASSUME (\E path \in Path : UserEdits(path)) \/ UNCHANGED vars PROVE tidy' = tidy
  BY <1>3 DEF UserEdits, vars
<1> QED
  BY <1>1, <1>2, <1>3, Zenon DEF Next

\* Commands that do not move keep what they know while files only change to what
\* the plan of an installation says or to nothing of Mobius.
LEMMA InstallKept ==
  ASSUME TypeInv, NEW q \in Proc, InstallOK(q), UNCHANGED <<pc[q], plan[q], at[q]>>,
         inventory' \in {inventory, plan[q], Nothing},
         \A path \in Path : \/ file'[path] \in {file[path], User, Nothing}
                            \/ \E i \in DOMAIN plan[q] :
                                 plan[q][i] = [path |-> path, sha256 |-> file'[path]]
  PROVE  InstallOK(q)'
<1> SUFFICES ASSUME pc[q] \in Installing PROVE InstallOK(q)'
  BY DEF InstallOK
<1>1. plan[q] \in Release /\ Through(q)' = Through(q) /\ Through(q) \subseteq DOMAIN plan[q]
  <2>1. plan[q] \in Release /\ at[q] \in DOMAIN plan[q]
    BY CurrentOK DEF Planned
  <2>2. DOMAIN plan[q] = 1..Len(plan[q]) /\ Len(plan[q]) \in Nat
    BY <2>1, ReleaseEntries
  <2> QED BY <2>1, <2>2 DEF Through
<1>2. ASSUME NEW i \in Through(q)
      PROVE  file'[plan[q][i].path] \in {plan[q][i].sha256, User, Nothing}
  <2>1. i \in DOMAIN plan[q] /\ plan[q][i].path \in Path
    BY <1>1, <1>2, ReleaseEntries
  <2>2. file[plan[q][i].path] \in {plan[q][i].sha256, User, Nothing}
    BY <1>2 DEF InstallOK
  <2>3. ASSUME NEW k \in DOMAIN plan[q],
               plan[q][k] = [path |-> plan[q][i].path, sha256 |-> file'[plan[q][i].path]]
        PROVE  file'[plan[q][i].path] = plan[q][i].sha256
    <3>1. plan[q][k].path = plan[q][i].path /\ plan[q][k].sha256 = file'[plan[q][i].path]
      BY <2>3
    <3>2. k = i
      BY <1>1, <2>1, <3>1, ReleaseEntries
    <3> QED BY <3>1, <3>2
  <2> QED BY <2>1, <2>2, <2>3
<1>3. inventory' = Nothing \/ PathsOf(inventory') \subseteq PathsOf(plan[q])
  BY DEF InstallOK
<1> QED
  BY <1>1, <1>2, <1>3 DEF InstallOK, PathsOf

LEMMA RemovalKept ==
  ASSUME TypeInv, NEW q \in Proc, RemovalOK(q), UNCHANGED <<pc[q], plan[q], at[q]>>,
         inventory' \in {inventory, Nothing},
         \A path \in Path : file'[path] \in {file[path], User, Nothing}
  PROVE  RemovalOK(q)'
<1> SUFFICES ASSUME pc[q] \in {"check", "unlink", "forget"} PROVE RemovalOK(q)'
  BY DEF RemovalOK
<1>1. plan[q] \in Release /\ Through(q)' = Through(q) /\ Through(q) \subseteq DOMAIN plan[q]
  <2>1. plan[q] \in Release /\ at[q] \in DOMAIN plan[q]
    BY CurrentOK DEF Planned
  <2>2. DOMAIN plan[q] = 1..Len(plan[q]) /\ Len(plan[q]) \in Nat
    BY <2>1, ReleaseEntries
  <2> QED BY <2>1, <2>2 DEF Through
<1>2. ASSUME NEW i \in Through(q) PROVE ~ InPlace(q, i)'
  <2>1. plan[q][i].path \in Path /\ plan[q][i].sha256 \in Sha
    BY <1>1, <1>2, ReleaseEntries
  <2>2. file'[plan[q][i].path] \in {file[plan[q][i].path], User, Nothing}
        /\ file[plan[q][i].path] # plan[q][i].sha256
    BY <1>2, <2>1 DEF RemovalOK, InPlace
  <2> QED BY <2>1, <2>2, ReleasesOK DEF InPlace
<1> QED
  BY <1>1, <1>2 DEF RemovalOK

LEMMA AnsweredKept ==
  ASSUME TypeInv, AnsweredFor, inventory' = inventory,
         \A p \in Proc : pc[p] \in Installing => pc'[p] \in Installing /\ plan'[p] = plan[p],
         \A path \in Path : file'[path] \in {file[path], User, Nothing}
  PROVE  AnsweredFor'
<1> SUFFICES ASSUME NEW path \in Path, file'[path] \in Sha
             PROVE  Listed(path, file[path])' \/ Answered(path, file[path])'
  BY DEF AnsweredFor
<1>1. file'[path] = file[path]
  BY ReleasesOK
<1>2. CASE Listed(path, file[path])
  BY <1>1, <1>2 DEF Listed
<1>3. CASE Answered(path, file[path])
  BY <1>1, <1>3 DEF Answered
<1> QED
  BY <1>1, <1>2, <1>3 DEF AnsweredFor

TidyParts ==
  OneRelease /\ AnsweredFor /\ \A p \in Proc : InstallOK(p) /\ RemovalOK(p)

\* Who rests when a command is installing, and who installs.
LEMMA NoRemoval ==
  ASSUME OneRelease, NEW p \in Proc, NEW q \in Proc, pc[p] \in Installing
  PROVE  pc[q] \notin Removing /\ (pc[q] \in Installing => plan[q] = plan[p])
  BY DEF OneRelease, Resting, Removing, Installing

\* Steps that change no file, no inventory and nobody's plan but that of a
\* command that was resting or reading.
LEMMA TidyStarts ==
  ASSUME TypeInv, TidyParts, NEW p \in Proc, tidy',
         (\E entries \in Release : StartsInstall(p, entries)) \/ StartsRemoval(p)
         \/ ReadsInventory(p)
  PROVE  TidyParts'
<1> USE DEF Goes
<1>0. /\ pc \in [Proc -> Installing \cup Removing \cup {"idle", "installed", "removed", "failed"}]
      /\ plan \in [Proc -> Release \cup {<<>>}] /\ at \in [Proc -> Nat]
  BY DEF TypeInv, TypeOK
<1>1. /\ UNCHANGED <<file, inventory>>
      /\ \A q \in Proc \ {p} : UNCHANGED <<pc[q], plan[q], at[q]>>
      /\ pc[p] \notin Installing
  BY <1>0 DEF StartsInstall, StartsRemoval, ReadsInventory, Resting, Installing
<1>2. AnsweredFor'
  BY <1>1, AnsweredKept DEF TidyParts
<1>3. \A q \in Proc \ {p} : InstallOK(q)' /\ RemovalOK(q)'
  BY <1>1, InstallKept, RemovalKept DEF TidyParts
<1>4. ASSUME NEW entries \in Release, StartsInstall(p, entries) PROVE TidyParts'
  <2>1. pc'[p] = "look" /\ plan'[p] = entries /\ at'[p] = 1 /\ Orderly(p, entries)
    BY <1>0, <1>4 DEF StartsInstall
  <2>2. Through(p)' = {}
    BY <2>1 DEF Through
  <2>3. InstallOK(p)' /\ RemovalOK(p)'
    BY <1>1, <2>1, <2>2 DEF InstallOK, RemovalOK, Orderly, PathsOf
  <2>4. \A q \in Proc \ {p} : Resting(q) \/ (pc[q] \in Installing /\ plan[q] = entries)
    BY <2>1 DEF Orderly
  <2>5. OneRelease'
    BY <1>1, <2>1, <2>4 DEF OneRelease, Resting, Installing
  <2> QED BY <1>2, <1>3, <2>3, <2>5 DEF TidyParts
<1>5. CASE StartsRemoval(p)
  <2>1. pc'[p] = "read" /\ \A q \in Proc : pc[q] \notin Installing
    BY <1>0, <1>5 DEF StartsRemoval
  <2>2. \A q \in Proc : pc'[q] \notin Installing
    BY <1>1, <2>1 DEF Installing
  <2>3. OneRelease' /\ InstallOK(p)' /\ RemovalOK(p)'
    BY <2>1, <2>2 DEF OneRelease, InstallOK, RemovalOK
  <2> QED BY <1>2, <1>3, <2>3 DEF TidyParts
<1>6. CASE ReadsInventory(p)
  <2>1. /\ pc[p] = "read" /\ at'[p] = at[p]
        /\ \/ pc'[p] = "removed"
           \/ pc'[p] = "check" /\ plan'[p] = inventory
    BY <1>0, <1>6 DEF ReadsInventory
  <2>2. plan[p] = <<>> /\ at[p] \in DOMAIN plan[p] \cup {1}
    BY <2>1 DEF TypeInv, TypeOK
  <2>3. at[p] = 1
    BY <2>2
  <2>4. pc'[p] = "check" => Through(p)' = {}
    BY <2>1, <2>3 DEF Through
  <2>5. InstallOK(p)' /\ RemovalOK(p)'
    BY <1>1, <2>1, <2>4 DEF InstallOK, RemovalOK, Installing
  <2>6. \A q \in Proc : pc[q] \notin Installing
    BY <2>1 DEF TidyParts, OneRelease, Resting, Installing
  <2>7. \A q \in Proc : pc'[q] \notin Installing
    BY <1>1, <2>1, <2>6 DEF Installing
  <2> QED BY <1>2, <1>3, <2>5, <2>7 DEF TidyParts, OneRelease
<1> QED
  BY <1>4, <1>5, <1>6

\* A command moves on: it stays in the same half of setup, or is done.
LEMMA OneReleaseKept ==
  ASSUME OneRelease, NEW p \in Proc, plan' = plan,
         \A q \in Proc \ {p} : pc'[q] = pc[q],
         \/ pc'[p] \in Installing /\ pc[p] \in Installing
         \/ pc'[p] \in Removing /\ pc[p] \in Removing
         \/ pc'[p] \in {"idle", "installed", "removed", "failed"}
  PROVE  OneRelease'
  BY DEF OneRelease, Resting, Installing, Removing

LEMMA TidyLooks ==
  ASSUME TypeInv, TidyParts, NEW p \in Proc, Looks(p) \/ Checks(p)
  PROVE  TidyParts'
<1> USE DEF Goes
<1>0. /\ pc \in [Proc -> Installing \cup Removing \cup {"idle", "installed", "removed", "failed"}]
      /\ at \in [Proc -> Nat]
  BY DEF TypeInv, TypeOK
<1>1. /\ UNCHANGED <<file, inventory, plan>>
      /\ \/ /\ pc[p] = "look" /\ GoOn(p, "look", "list") /\ InPlace(p, at[p])
         \/ /\ pc[p] = "check" /\ GoOn(p, "check", "forget") /\ ~ InPlace(p, at[p])
         \/ /\ pc[p] = "look" /\ Goes(p, "copy") /\ at' = at
         \/ /\ pc[p] = "check" /\ Goes(p, "unlink") /\ at' = at
  BY DEF Looks, Checks, InPlace, Current
<1>2. /\ \A q \in Proc \ {p} : UNCHANGED <<pc[q], at[q]>>
      /\ \/ /\ pc[p] = "look" /\ pc'[p] \in {"look", "list"}
            /\ Through(p)' = Through(p) \cup {at[p]} /\ InPlace(p, at[p])
         \/ /\ pc[p] = "check" /\ pc'[p] \in {"check", "forget"}
            /\ Through(p)' = Through(p) \cup {at[p]} /\ ~ InPlace(p, at[p])
         \/ /\ pc[p] = "look" /\ pc'[p] = "copy" /\ Through(p)' = Through(p)
         \/ /\ pc[p] = "check" /\ pc'[p] = "unlink" /\ Through(p)' = Through(p)
  <2>1. CASE pc[p] = "look" /\ GoOn(p, "look", "list") /\ InPlace(p, at[p])
    BY <1>1, <2>1, GoesOn
  <2>2. CASE pc[p] = "check" /\ GoOn(p, "check", "forget") /\ ~ InPlace(p, at[p])
    BY <1>1, <2>2, GoesOn
  <2>3. CASE pc[p] = "look" /\ Goes(p, "copy") /\ at' = at
    BY <1>0, <2>3 DEF Through
  <2>4. CASE pc[p] = "check" /\ Goes(p, "unlink") /\ at' = at
    BY <1>0, <2>4 DEF Through
  <2> QED BY <1>1, <2>1, <2>2, <2>3, <2>4
<1>3. OneRelease'
  BY <1>1, <1>2, OneReleaseKept DEF TidyParts, Installing, Removing
<1>4. AnsweredFor'
  <2>1. \A q \in Proc : pc[q] \in Installing => pc'[q] \in Installing /\ plan'[q] = plan[q]
    BY <1>1, <1>2 DEF Installing
  <2> QED BY <1>1, <2>1, AnsweredKept DEF TidyParts
<1>5. \A q \in Proc \ {p} : InstallOK(q)' /\ RemovalOK(q)'
  BY <1>1, <1>2, InstallKept, RemovalKept DEF TidyParts
<1>6. InstallOK(p)'
  <2>1. CASE pc[p] = "look"
    BY <1>1, <1>2, <2>1 DEF TidyParts, InstallOK, InPlace, Installing
  <2>2. CASE pc[p] = "check"
    BY <1>2, <2>2 DEF InstallOK, Installing
  <2> QED BY <1>2, <2>1, <2>2
<1>7. RemovalOK(p)'
  <2>1. CASE pc[p] = "look"
    BY <1>2, <2>1 DEF RemovalOK
  <2>2. CASE pc[p] = "check"
    BY <1>1, <1>2, <2>2 DEF TidyParts, RemovalOK, InPlace
  <2> QED BY <1>2, <2>1, <2>2
<1> QED
  BY <1>3, <1>4, <1>5, <1>6, <1>7 DEF TidyParts

\* A copy puts in place what the plan of every installation under way says.
LEMMA TidyCopies ==
  ASSUME TypeInv, TidyParts, NEW p \in Proc, Copies(p)
  PROVE  TidyParts'
<1>1. /\ pc[p] = "copy" /\ UNCHANGED <<inventory, plan>> /\ GoOn(p, "look", "list")
      /\ file' = [file EXCEPT ![Current(p).path] = Current(p).sha256]
  BY DEF Copies
<1>2. /\ \A q \in Proc \ {p} : UNCHANGED <<pc[q], at[q]>>
      /\ pc'[p] \in {"look", "list"} /\ Through(p)' = Through(p) \cup {at[p]}
  BY <1>1, GoesOn
<1>3. plan[p] \in Release /\ at[p] \in DOMAIN plan[p] /\ Current(p).path \in Path
  BY <1>1, CurrentOK DEF Planned, Installing
<1>4. /\ file'[Current(p).path] = Current(p).sha256
      /\ \A path \in Path \ {Current(p).path} : file'[path] = file[path]
  BY <1>1, <1>3 DEF TypeInv, TypeOK
<1>5. plan[p][at[p]] = [path |-> Current(p).path, sha256 |-> Current(p).sha256]
  BY <1>3, ReleaseEntries DEF Current
<1>6. OneRelease'
  BY <1>1, <1>2, OneReleaseKept DEF TidyParts, Installing
<1>7. \A q \in Proc : pc[q] \notin Removing
                      /\ (pc[q] \in Installing => plan[q] = plan[p])
  BY <1>1, NoRemoval DEF TidyParts, Installing
<1>8. ASSUME NEW q \in Proc PROVE RemovalOK(q)'
  BY <1>2, <1>7 DEF RemovalOK, Removing
<1>9. ASSUME NEW q \in Proc \ {p} PROVE InstallOK(q)'
  <2>1. CASE pc[q] \in Installing
    BY <1>1, <1>2, <1>3, <1>4, <1>5, <1>7, <2>1, InstallKept DEF TidyParts
  <2>2. CASE pc[q] \notin Installing
    BY <1>2, <2>2 DEF InstallOK
  <2> QED BY <2>1, <2>2
<1>10. InstallOK(p)'
  <2>1. /\ inventory = Nothing \/ PathsOf(inventory) \subseteq PathsOf(plan[p])
        /\ \A i \in Through(p) :
             file[plan[p][i].path] \in {plan[p][i].sha256, User, Nothing}
    BY <1>1 DEF TidyParts, InstallOK, Installing
  <2>2. DOMAIN plan[p] = 1..Len(plan[p]) /\ Len(plan[p]) \in Nat
        /\ Through(p) = 1..(at[p] - 1)
    BY <1>1, <1>3, ReleaseEntries DEF Through
  <2>3. ASSUME NEW i \in Through(p) \cup {at[p]}
        PROVE  file'[plan[p][i].path] \in {plan[p][i].sha256, User, Nothing}
    <3>1. CASE i = at[p]
      BY <1>4, <3>1 DEF Current
    <3>2. CASE i # at[p]
      <4>1. i \in DOMAIN plan[p] /\ plan[p][i].path \in Path
        BY <1>3, <2>2, <2>3, <3>2, ReleaseEntries
      <4>2. plan[p][i].path # Current(p).path
        BY <1>3, <3>2, <4>1, ReleaseEntries DEF Current
      <4> QED BY <1>4, <2>1, <2>3, <3>2, <4>1, <4>2
    <3> QED BY <3>1, <3>2
  <2> QED BY <1>1, <1>2, <2>1, <2>3 DEF InstallOK
<1>11. AnsweredFor'
  <2> SUFFICES ASSUME NEW path \in Path, file'[path] \in Sha
               PROVE  Listed(path, file[path])' \/ Answered(path, file[path])'
    BY DEF AnsweredFor
  <2>1. CASE path = Current(p).path
    <3>1. pc'[p] \in Installing /\ plan'[p] = plan[p]
      BY <1>1, <1>2 DEF Installing
    <3> QED BY <1>3, <1>4, <1>5, <2>1, <3>1 DEF Answered
  <2>2. CASE path # Current(p).path
    <3>1. file'[path] = file[path]
      BY <1>4, <2>2
    <3>2. Listed(path, file[path]) \/ Answered(path, file[path])
      BY <3>1 DEF TidyParts, AnsweredFor
    <3>3. \A q \in Proc : pc[q] \in Installing => pc'[q] \in Installing
      BY <1>2 DEF Installing
    <3>4. Listed(path, file[path]) => Listed(path, file[path])'
      BY <1>1, <3>1 DEF Listed
    <3>5. Answered(path, file[path]) => Answered(path, file[path])'
      BY <1>1, <3>1, <3>3 DEF Answered
    <3> QED BY <3>2, <3>4, <3>5
  <2> QED BY <2>1, <2>2
<1> QED
  BY <1>6, <1>8, <1>9, <1>10, <1>11 DEF TidyParts

\* The inventory that replaces the old one lists everything the old one did.
LEMMA TidyLists ==
  ASSUME TypeInv, TidyParts, NEW p \in Proc, WritesInventory(p)
  PROVE  TidyParts'
<1> USE DEF Goes
<1>0. pc \in [Proc -> Installing \cup Removing \cup {"idle", "installed", "removed", "failed"}]
  BY DEF TypeInv, TypeOK
<1>1. /\ pc[p] = "list" /\ pc'[p] = "installed" /\ inventory' = plan[p]
      /\ UNCHANGED <<file, plan, at>> /\ \A q \in Proc \ {p} : pc'[q] = pc[q]
  BY <1>0 DEF WritesInventory
<1>2. plan[p] \in Release /\ Through(p) = DOMAIN plan[p]
  BY <1>1, CurrentOK DEF Planned, Installing, Through
<1>3. OneRelease'
  BY <1>1, OneReleaseKept DEF TidyParts
<1>4. \A q \in Proc : pc[q] \notin Removing
                      /\ (pc[q] \in Installing => plan[q] = plan[p])
  BY <1>1, NoRemoval DEF TidyParts, Installing
<1>5. ASSUME NEW q \in Proc PROVE RemovalOK(q)'
  BY <1>1, <1>4 DEF RemovalOK, Removing
<1>6. ASSUME NEW q \in Proc PROVE InstallOK(q)'
  <2>1. CASE q # p /\ pc[q] \in Installing
    BY <1>1, <1>4, <2>1, InstallKept DEF TidyParts
  <2>2. CASE q = p \/ pc[q] \notin Installing
    BY <1>1, <2>2 DEF InstallOK, Installing
  <2> QED BY <2>1, <2>2
<1>7. ASSUME NEW path \in Path, file[path] \in Sha
      PROVE  \E i \in DOMAIN plan[p] : plan[p][i] = [path |-> path, sha256 |-> file[path]]
  <2>1. CASE Listed(path, file[path])
    <3>1. PICK k \in DOMAIN inventory :
            inventory # Nothing /\ inventory[k] = [path |-> path, sha256 |-> file[path]]
      BY <2>1 DEF Listed
    <3>2. path \in PathsOf(inventory)
      BY <3>1 DEF PathsOf
    <3>3. path \in PathsOf(plan[p])
      BY <1>1, <3>1, <3>2 DEF TidyParts, InstallOK, Installing
    <3>4. PICK i \in DOMAIN plan[p] : plan[p][i].path = path
      BY <3>3 DEF PathsOf
    <3>5. file[path] \in {plan[p][i].sha256, User, Nothing}
      BY <1>1, <1>2, <3>4 DEF TidyParts, InstallOK, Installing
    <3>6. file[path] = plan[p][i].sha256
      BY <1>7, <3>5, ReleasesOK
    <3> QED BY <1>2, <3>4, <3>6, ReleaseEntries
  <2>2. CASE Answered(path, file[path])
    BY <1>4, <2>2 DEF Answered
  <2> QED BY <1>7, <2>1, <2>2 DEF TidyParts, AnsweredFor
<1>8. AnsweredFor'
  <2>1. plan[p] # Nothing
    BY <1>2, ReleasesOK
  <2> QED BY <1>1, <1>7, <2>1 DEF AnsweredFor, Listed
<1> QED
  BY <1>3, <1>5, <1>6, <1>8 DEF TidyParts

LEMMA TidyUnlinks ==
  ASSUME TypeInv, TidyParts, NEW p \in Proc, Unlinks(p)
  PROVE  TidyParts'
<1> USE DEF Goes
<1>0. pc \in [Proc -> Installing \cup Removing \cup {"idle", "installed", "removed", "failed"}]
  BY DEF TypeInv, TypeOK
<1>1. pc[p] = "unlink" /\ UNCHANGED <<inventory, plan>>
  BY DEF Unlinks
<1>2. /\ \A path \in Path : file'[path] \in {file[path], Nothing}
      /\ \A q \in Proc \ {p} : UNCHANGED <<pc[q], at[q]>>
      /\ pc'[p] \in {"check", "forget", "failed"}
  <2>1. CASE Goes(p, "failed") /\ UNCHANGED <<at, file, alone>>
    BY <1>0, <2>1
  <2>2. CASE file' = [file EXCEPT ![Current(p).path] = Nothing] /\ GoOn(p, "check", "forget")
    <3>1. \A path \in Path : file'[path] \in {file[path], Nothing}
      BY <2>2 DEF TypeInv, TypeOK
    <3> QED BY <1>1, <2>2, <3>1, GoesOn
  <2> QED BY <2>1, <2>2 DEF Unlinks
<1>3. OneRelease'
  BY <1>1, <1>2, OneReleaseKept DEF TidyParts, Removing
<1>4. AnsweredFor'
  <2>1. \A q \in Proc : pc[q] \in Installing => pc'[q] \in Installing /\ plan'[q] = plan[q]
    BY <1>1, <1>2 DEF Installing
  <2> QED BY <1>1, <1>2, <2>1, AnsweredKept DEF TidyParts
<1>5. \A q \in Proc \ {p} : InstallOK(q)' /\ RemovalOK(q)'
  BY <1>1, <1>2, InstallKept, RemovalKept DEF TidyParts
<1>6. InstallOK(p)'
  BY <1>2 DEF InstallOK, Installing
<1>7. RemovalOK(p)'
  <2>1. CASE Goes(p, "failed") /\ UNCHANGED <<at, file, alone>>
    BY <1>0, <2>1 DEF RemovalOK
  <2>2. CASE file' = [file EXCEPT ![Current(p).path] = Nothing] /\ GoOn(p, "check", "forget")
    <3>1. Through(p)' = Through(p) \cup {at[p]}
      BY <1>1, <2>2, GoesOn
    <3>2. Current(p).sha256 # Nothing
      BY <1>1, CurrentOK, ReleasesOK DEF Planned
    <3>3. /\ \A i \in Through(p) : InPlace(p, i)' <=> InPlace(p, i)
          /\ \A i : i = at[p] => ~ InPlace(p, i)'
      BY <1>1, <2>2, <3>2, OtherEntries
    <3> QED BY <1>1, <3>1, <3>3 DEF TidyParts, RemovalOK
  <2> QED BY <2>1, <2>2 DEF Unlinks
<1> QED
  BY <1>3, <1>4, <1>5, <1>6, <1>7 DEF TidyParts

\* A removal forgets the inventory when none of its files is left.
LEMMA TidyForgets ==
  ASSUME TypeInv, TidyParts, NEW p \in Proc, Forgets(p)
  PROVE  TidyParts'
<1> USE DEF Goes
<1>0. pc \in [Proc -> Installing \cup Removing \cup {"idle", "installed", "removed", "failed"}]
  BY DEF TypeInv, TypeOK
<1>1. /\ pc[p] = "forget" /\ pc'[p] = "removed" /\ inventory' = Nothing
      /\ UNCHANGED <<file, plan, at>> /\ \A q \in Proc \ {p} : pc'[q] = pc[q]
  BY <1>0 DEF Forgets
<1>2. plan[p] \in Release /\ Through(p) = DOMAIN plan[p]
  BY <1>1, CurrentOK DEF Planned, Through
<1>3. OneRelease'
  BY <1>1, OneReleaseKept DEF TidyParts
<1>4. \A q \in Proc : pc[q] \notin Installing
  BY <1>1 DEF TidyParts, OneRelease, Resting, Installing
<1>5. \A q \in Proc \ {p} : InstallOK(q)' /\ RemovalOK(q)'
  BY <1>1, InstallKept, RemovalKept DEF TidyParts
<1>6. InstallOK(p)' /\ RemovalOK(p)'
  BY <1>1 DEF InstallOK, RemovalOK, Installing
<1>7. ASSUME NEW path \in Path, file[path] \in Sha PROVE FALSE
  <2>1. Listed(path, file[path])
    BY <1>4, <1>7 DEF TidyParts, AnsweredFor, Answered
  <2>2. inventory = plan[p] /\ \A i \in DOMAIN plan[p] : ~ InPlace(p, i)
    BY <1>1, <1>2, <2>1 DEF TidyParts, RemovalOK, Listed
  <2>3. PICK i \in DOMAIN plan[p] : plan[p][i] = [path |-> path, sha256 |-> file[path]]
    BY <2>1, <2>2 DEF Listed
  <2>4. plan[p][i].path = path /\ plan[p][i].sha256 = file[path]
    BY <2>3
  <2> QED BY <2>2, <2>4 DEF InPlace
<1>8. AnsweredFor'
  BY <1>1, <1>7 DEF AnsweredFor
<1> QED
  BY <1>3, <1>5, <1>6, <1>8 DEF TidyParts

\* An installation that dies leaves nothing behind that is not listed.
LEMMA TidyFails ==
  ASSUME TypeInv, TidyParts, NEW p \in Proc, Fails(p), tidy'
  PROVE  TidyParts'
<1> USE DEF Goes
<1>0. pc \in [Proc -> Installing \cup Removing \cup {"idle", "installed", "removed", "failed"}]
  BY DEF TypeInv, TypeOK
<1>1. /\ UNCHANGED <<file, inventory, plan, at>> /\ pc'[p] = "failed"
      /\ \A q \in Proc \ {p} : pc'[q] = pc[q]
  BY <1>0 DEF Fails
<1>2. pc[p] \in Installing => plan[p] = inventory
  BY Zenon DEF Fails
<1>3. OneRelease'
  BY <1>1, OneReleaseKept DEF TidyParts
<1>4. \A q \in Proc \ {p} : InstallOK(q)' /\ RemovalOK(q)'
  BY <1>1, InstallKept, RemovalKept DEF TidyParts
<1>5. InstallOK(p)' /\ RemovalOK(p)'
  BY <1>1 DEF InstallOK, RemovalOK, Installing
<1>6. ASSUME NEW path \in Path, file[path] \in Sha
      PROVE  Listed(path, file[path])' \/ Answered(path, file[path])'
  <2>1. CASE Listed(path, file[path])
    BY <1>1, <2>1 DEF Listed
  <2>2. CASE Answered(path, file[path])
    <3>1. PICK q \in Proc : /\ pc[q] \in Installing
                            /\ \E i \in DOMAIN plan[q] :
                                 plan[q][i] = [path |-> path, sha256 |-> file[path]]
      BY <2>2 DEF Answered
    <3>2. CASE q = p
      <4>1. plan[p] \in Release /\ plan[p] = inventory
        BY <1>2, <3>1, <3>2, CurrentOK DEF Planned
      <4> QED BY <1>1, <3>1, <3>2, <4>1, ReleasesOK DEF Listed
    <3>3. CASE q # p
      BY <1>1, <3>1, <3>3 DEF Answered
    <3> QED BY <3>2, <3>3
  <2> QED BY <1>6, <2>1, <2>2 DEF TidyParts, AnsweredFor
<1>7. AnsweredFor'
  BY <1>1, <1>6 DEF AnsweredFor
<1> QED
  BY <1>3, <1>4, <1>5, <1>7 DEF TidyParts

\* Nothing moves, and the user removes or replaces a file.
LEMMA TidyElse ==
  ASSUME TypeInv, TidyParts, (\E path \in Path : UserEdits(path)) \/ UNCHANGED vars
  PROVE  TidyParts'
<1>1. /\ UNCHANGED <<inventory, pc, plan, at>>
      /\ \A path \in Path : file'[path] \in {file[path], User, Nothing}
  BY DEF UserEdits, vars, TypeInv, TypeOK
<1>2. OneRelease'
  BY <1>1 DEF TidyParts, OneRelease, Resting
<1>3. AnsweredFor'
  BY <1>1, AnsweredKept DEF TidyParts
<1>4. \A q \in Proc : InstallOK(q)' /\ RemovalOK(q)'
  BY <1>1, InstallKept, RemovalKept DEF TidyParts
<1> QED
  BY <1>2, <1>3, <1>4 DEF TidyParts

LEMMA TidyStep == TypeInv /\ TidyInv /\ [Next]_vars => TidyInv'
<1> SUFFICES ASSUME TypeInv, TidyInv, [Next]_vars, tidy' PROVE TidyParts'
  BY DEF TidyInv, TidyParts
<1>1. TidyParts
  BY StaysTidy DEF TidyInv, TidyParts
<1> QED
  BY <1>1, TidyStarts, TidyLooks, TidyCopies, TidyLists, TidyUnlinks, TidyForgets,
     TidyFails, TidyElse DEF Next

LEMMA TidyInit == Init => TidyInv
  BY ReleasesOK DEF Init, TidyInv, OneRelease, AnsweredFor, InstallOK, RemovalOK,
     Installing

\* Every file of Mobius is listed, as long as no first installation dies or
\* overlaps with another command and no release drops a file.
THEOREM EverythingIsListed == Spec => []NothingForgotten
<1>1. ASSUME TypeInv, TidyInv PROVE NothingForgotten
  <2> SUFFICES ASSUME tidy, \A p \in Proc : pc[p] \in Installing => plan[p] = inventory,
                      NEW path \in Path, file[path] \in Sha
               PROVE  Listed(path, file[path])
    BY DEF NothingForgotten
  <2>1. CASE Answered(path, file[path])
    <3>1. PICK p \in Proc : /\ pc[p] \in Installing
                            /\ \E i \in DOMAIN plan[p] :
                                 plan[p][i] = [path |-> path, sha256 |-> file[path]]
      BY <2>1 DEF Answered
    <3>2. plan[p] = inventory /\ plan[p] \in Release
      BY <1>1, <3>1, CurrentOK DEF Planned
    <3> QED BY <3>1, <3>2, ReleasesOK DEF Listed
  <2> QED BY <1>1, <2>1 DEF TidyInv, AnsweredFor
<1> QED
  BY <1>1, TypeInit, TypeStep, TidyInit, TidyStep, PTL DEF Spec
=============================================================================
