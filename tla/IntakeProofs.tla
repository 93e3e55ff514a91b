---------------------------- MODULE IntakeProofs ----------------------------
(***************************************************************************)
(* What holds of interviews and seeds for any number of commands, paths    *)
(* and answers: the types, what a seed is made from, and what the gate     *)
(* decides.                                                                *)
(***************************************************************************)
EXTENDS MCIntake, Sequences, WellFoundedInduction, TLAPS

\* The completion of the interview is recorded: it can be found by its session.
Finished(i) == session[i].events = Total(i)

\* How many events there are of a command where it stands.
CountsFit(c, last) ==
  /\ session[c].events \in 0..Total(c)
  /\ pc[c] \in {"idle", "create", "load", "rejected", "refused", "unresolved", "invalid"}
       => session[c].events = 0
  /\ pc[c] = "record" => session[c].events < last
  /\ pc[c] \in {"open", "write", "complete"} => session[c].events = last

Counted ==
  /\ \A i \in Interview : CountsFit(i, Total(i) - 1)
  /\ \A s \in Seed : CountsFit(s, Total(s))

\* Who has begun has its answers and its path.
Begun ==
  /\ \A i \in Interview : pc[i] # "idle" => answers[i] \in Answers
  /\ \A w \in Writer : pc[w] # "idle" => path[w] \in Path

\* A file that is still its interview's own is empty while it is open and has
\* the answers from then on.
WrittenBy(i) ==
  /\ mine[i] /\ pc[i] = "write" => file[path[i]] = Truncated
  /\ mine[i] /\ (pc[i] = "complete" \/ Finished(i)) => file[path[i]] = Rendered(i)

Written == \A i \in Interview : WrittenBy(i)

\* A seed goes to the file of an interview that is finished, and remains so.
SoughtBy(s) ==
  /\ pc[s] \in {"idle", "load"} => spec[s] = Absent
  /\ pc[s] = "load" => found[s] \in Path
  /\ source[s] \in Interview /\ (pc[s] \in {"load", "invalid"} \/ spec[s] # Absent) =>
       Finished(source[s])
  /\ source[s] \in Interview /\ pc[s] = "load" => found[s] = path[source[s]]

Sought == \A s \in Seed : SoughtBy(s)

\* The inductive invariant.
IInv == TypeOK /\ Counted /\ Begun /\ Written /\ Sought /\ SeedsWhatWasAsked

USE ConstantsOK

-----------------------------------------------------------------------------
(* Steps of a command, and the numbers of its events *)

LEMMA Going ==
  ASSUME TypeOK, NEW c \in Command, NEW label \in Labels, Goes(c, label)
  PROVE  /\ pc' \in [Command -> Labels] /\ pc'[c] = label
         /\ \A d \in Command \ {c} : pc'[d] = pc[d]
BY DEF TypeOK, Goes

LEMMA Totals ==
  /\ \A c : Total(c) \in 3..8 /\ Total(c)' \in 3..8
  /\ \A i \in Interview : Total(i) \in 7..8 /\ Total(i)' \in 7..8
  /\ \A s \in Seed : Total(s) = 3 /\ Total(s)' = 3
BY DEF Total, Questions

LEMMA IInvInit == Init => IInv
<1> SUFFICES ASSUME Init PROVE IInv
  OBVIOUS
<1>1. /\ pc = [c \in Command |-> "idle"]
      /\ session = [c \in Interview \cup Seed |-> [status |-> "none", events |-> 0]]
      /\ spec = [s \in Seed |-> Absent]
      /\ mine = [i \in Interview |-> FALSE]
  BY DEF Init
<1>2. /\ pc \in [Command -> Labels]
      /\ session \in [Interview \cup Seed ->
                        [status : {"none", "running", "completed"}, events : 0..8]]
      /\ mine \in [Interview -> BOOLEAN]
      /\ spec \in [Seed -> Rendering \cup {Absent, Garbled}]
  BY <1>1 DEF Labels
<1>3. \A c \in Interview \cup Seed : session[c].events = 0
  BY <1>1
<1>4. TypeOK
  BY <1>2, <1>3 DEF Init, TypeOK
<1>5. Counted
  BY <1>1, <1>3, Totals DEF Counted, CountsFit, Command
<1>6. Begun
  BY <1>1 DEF Begun, Command, Writer
<1>7. Written
  BY <1>1 DEF Written, WrittenBy
<1>8. ASSUME NEW s \in Seed PROVE pc[s] = "idle" /\ spec[s] = Absent
  BY <1>1 DEF Command
<1>9. Sought
  BY <1>8 DEF Sought, SoughtBy
<1>10. SeedsWhatWasAsked
  BY <1>8 DEF SeedsWhatWasAsked
<1> QED
  BY <1>4, <1>5, <1>6, <1>7, <1>9, <1>10 DEF IInv

-----------------------------------------------------------------------------
(* Types and counts *)

\* Types, counts and who has begun.
Basics == TypeOK /\ Counted /\ Begun

LEMMA GatesBasics ==
  ASSUME Basics, NEW i \in Interview, NEW a \in Answers, NEW p \in Path, Gates(i, a, p)
  PROVE  Basics'
<1>1. i \in Command /\ i \in Writer /\ i \notin Seed /\ TypeOK
  BY DEF Command, Writer, Basics
<1>2. PICK label \in {"create", "rejected"} : Goes(i, label)
  BY DEF Gates
<1>3. /\ pc[i] = "idle"
      /\ answers' = [answers EXCEPT ![i] = a] /\ path' = [path EXCEPT ![i] = p]
      /\ UNCHANGED <<file, session, source, found, spec, mine>>
  BY DEF Gates
<1>4. label \in Labels
  BY DEF Labels
<1>5. /\ pc' \in [Command -> Labels] /\ pc'[i] = label
      /\ \A d \in Command \ {i} : pc'[d] = pc[d]
  BY <1>1, <1>2, <1>4, Going
<1>6. session[i].events = 0
  BY <1>3 DEF Basics, Counted, CountsFit
<1>7. \A c \in (Interview \cup Seed) \ {i} : Total(c)' = Total(c)
  BY <1>1, <1>3 DEF Total, Questions, TypeOK
<1>8. TypeOK'
  <2>1. \A c \in Interview \cup Seed : session'[c].events > 0 => session'[c].events <= Total(c)'
    <3> TAKE c \in Interview \cup Seed
    <3>1. CASE c = i
      BY <1>3, <1>6, <3>1
    <3>2. CASE c # i
      BY <1>3, <1>7, <3>2 DEF Basics, TypeOK
    <3> QED BY <3>1, <3>2
  <2> QED BY <1>1, <1>3, <1>5, <2>1 DEF TypeOK
<1>9. Counted'
  <2>1. \A d \in (Interview \cup Seed) \ {i} : pc'[d] = pc[d]
    BY <1>5 DEF Command
  <2>2. CountsFit(i, Total(i) - 1)'
    BY <1>3, <1>5, <1>6, Totals DEF CountsFit
  <2> QED
    BY <1>1, <1>3, <1>7, <2>1, <2>2 DEF Basics, Counted, CountsFit
<1>10. Begun'
  BY <1>1, <1>3, <1>5 DEF Basics, Begun, TypeOK, Command, Writer
<1> QED
  BY <1>8, <1>9, <1>10 DEF Basics

LEMMA TotalsKept ==
  ASSUME UNCHANGED answers
  PROVE  \A c : Total(c)' = Total(c)
BY DEF Total, Questions

\* A step of c that records no event.
LEMMA StepKeepsCounts ==
  ASSUME Basics, NEW c \in Command, NEW label \in Labels, Goes(c, label),
         UNCHANGED answers,
         \A d \in Interview \cup Seed : session'[d].events = session[d].events,
         c \in Interview \cup Seed =>
           \/ label \in {"end", "done", "dead"}
           \/ label \in {"load", "unresolved", "invalid", "create", "record"}
              /\ session[c].events = 0
           \/ label \in {"write", "complete"} /\ c \in Interview
              /\ session[c].events = Total(c) - 1
  PROVE  Counted'
<1>1. /\ pc'[c] = label /\ \A d \in Command \ {c} : pc'[d] = pc[d]
  BY Going DEF Basics
<1>2. \A d : Total(d)' = Total(d)
  BY TotalsKept
<1>3. ASSUME NEW d \in Interview \cup Seed, NEW last \in 3..8, CountsFit(d, last),
             d \in Interview => last = Total(d) - 1
      PROVE  CountsFit(d, last)'
  <2>1. CASE d = c
    BY <1>1, <1>2, <1>3, <2>1, Totals DEF CountsFit
  <2>2. CASE d # c
    BY <1>1, <1>2, <1>3, <2>2 DEF CountsFit, Command
  <2> QED BY <2>1, <2>2
<1>4. \A i \in Interview : Total(i) - 1 \in 3..8
  BY Totals
<1>5. \A s \in Seed : s \notin Interview
  OBVIOUS
<1> QED BY <1>2, <1>3, <1>4, <1>5, Totals DEF Basics, Counted

LEMMA StepKeepsBegun ==
  ASSUME Basics, NEW c \in Command, NEW label \in Labels, Goes(c, label),
         UNCHANGED <<answers, path>>, pc[c] # "idle" \/ c \in Seed
  PROVE  Begun'
<1>1. \A d \in Command \ {c} : pc'[d] = pc[d]
  BY Going DEF Basics
<1> QED
  BY <1>1 DEF Basics, Begun, Command, Writer

LEMMA RecordsBasics ==
  ASSUME Basics, NEW c \in Interview \cup Seed, NEW last, NEW after,
         \/ c \in Interview /\ last = Total(c) - 1 /\ after = "open"
         \/ c \in Seed /\ last = Total(c) /\ after = "end",
         Records(c, last, after)
  PROVE  Basics'
<1>1. c \in Command /\ TypeOK /\ (c \in Interview => c \notin Seed)
  BY DEF Command, Basics
<1>2. /\ pc[c] = "record" /\ session' = [session EXCEPT ![c].events = @ + 1]
      /\ UNCHANGED <<answers, path, file, source, found, spec, mine>>
  BY DEF Records
<1>3. session[c].events \in 0..8 /\ last \in 3..8 /\ session[c].events < last /\ last <= Total(c)
      /\ Total(c) \in 3..8
  BY <1>1, <1>2, Totals DEF Basics, TypeOK, Counted, CountsFit
<1> DEFINE more == session[c].events + 1 < last
<1> DEFINE label == IF more THEN "record" ELSE after
<1>4. label \in {"record", after} /\ label \in Labels /\ Goes(c, label)
  BY <1>2 DEF Records, Labels
<1> HIDE DEF label
<1>5. /\ pc' \in [Command -> Labels] /\ pc'[c] = label
      /\ \A d \in Command \ {c} : pc'[d] = pc[d]
  BY <1>1, <1>4, Going
<1>6. /\ session'[c].events = session[c].events + 1
      /\ \A d \in (Interview \cup Seed) \ {c} : session'[d] = session[d]
  BY <1>1, <1>2 DEF TypeOK
<1>7. \A d : Total(d)' = Total(d)
  BY <1>2, TotalsKept
<1>8. TypeOK'
  <2>1. session' \in [Interview \cup Seed ->
                       [status : {"none", "running", "completed"}, events : 0..8]]
    BY <1>1, <1>2, <1>3 DEF TypeOK
  <2>2. \A d \in Interview \cup Seed : session'[d].events > 0 => session'[d].events <= Total(d)'
    <3> TAKE d \in Interview \cup Seed
    <3>1. CASE d = c
      BY <1>3, <1>6, <1>7, <3>1
    <3>2. CASE d # c
      BY <1>1, <1>6, <1>7, <3>2 DEF TypeOK
    <3> QED BY <3>1, <3>2
  <2> QED BY <1>1, <1>2, <1>5, <2>1, <2>2 DEF TypeOK
<1>9. CountsFit(c, last)'
  BY <1>3, <1>4, <1>5, <1>6, <1>7 DEF CountsFit, label
<1>10. ASSUME NEW d \in (Interview \cup Seed) \ {c}, NEW l, CountsFit(d, l)
       PROVE  CountsFit(d, l)'
  BY <1>5, <1>6, <1>7, <1>10 DEF CountsFit, Command
<1>11. Counted'
  BY <1>1, <1>7, <1>9, <1>10 DEF Basics, Counted
<1>12. Begun'
  BY <1>2, <1>5 DEF Basics, Begun, Command, Writer
<1> QED
  BY <1>8, <1>11, <1>12 DEF Basics

LEMMA CompletesBasics ==
  ASSUME Basics, NEW c \in Interview, Completes(c)
  PROVE  Basics'
<1>1. c \in Command /\ c \notin Seed /\ TypeOK
  BY DEF Command, Basics
<1>2. /\ pc[c] = "complete" /\ session' = [session EXCEPT ![c].events = Total(c)]
      /\ Goes(c, "end") /\ "end" \in Labels
      /\ UNCHANGED <<answers, path, file, source, found, spec, mine>>
  BY DEF Completes, Labels
<1>3. Total(c) \in 7..8
  BY Totals
<1>4. /\ pc' \in [Command -> Labels] /\ pc'[c] = "end"
      /\ \A d \in Command \ {c} : pc'[d] = pc[d]
  BY <1>1, <1>2, Going
<1>5. /\ session'[c].events = Total(c)
      /\ \A d \in (Interview \cup Seed) \ {c} : session'[d] = session[d]
  BY <1>1, <1>2 DEF TypeOK
<1>6. \A d : Total(d)' = Total(d)
  BY <1>2, TotalsKept
<1>7. TypeOK'
  <2>1. session' \in [Interview \cup Seed ->
                       [status : {"none", "running", "completed"}, events : 0..8]]
    <3>1. PICK n \in 0..8 : n = Total(c)
      BY <1>3
    <3>2. session \in [Interview \cup Seed ->
                         [status : {"none", "running", "completed"}, events : 0..8]]
      BY <1>1 DEF TypeOK
    <3>3. session' = [session EXCEPT ![c].events = n]
      BY <1>2, <3>1
    <3> QED
      BY <3>2, <3>3
  <2>2. \A d \in Interview \cup Seed : session'[d].events > 0 => session'[d].events <= Total(d)'
    <3> TAKE d \in Interview \cup Seed
    <3>1. CASE d = c
      BY <1>3, <1>5, <1>6, <3>1
    <3>2. CASE d # c
      BY <1>1, <1>5, <1>6, <3>2 DEF TypeOK
    <3> QED BY <3>1, <3>2
  <2> QED BY <1>1, <1>2, <1>4, <2>1, <2>2 DEF TypeOK
<1>8. CountsFit(c, Total(c) - 1)'
  BY <1>3, <1>4, <1>5, <1>6 DEF CountsFit
<1>9. ASSUME NEW d \in (Interview \cup Seed) \ {c}, NEW l, CountsFit(d, l)
      PROVE  CountsFit(d, l)'
  BY <1>4, <1>5, <1>6, <1>9 DEF CountsFit, Command
<1>10. Counted'
  BY <1>1, <1>6, <1>8, <1>9 DEF Basics, Counted
<1>11. Begun'
  BY <1>2, <1>4 DEF Basics, Begun, Command, Writer
<1> QED
  BY <1>7, <1>10, <1>11 DEF Basics

LEMMA CreatesBasics ==
  ASSUME Basics, NEW c \in Interview \cup Seed, Creates(c)
  PROVE  Basics'
<1>1. c \in Command /\ TypeOK
  BY DEF Command, Basics
<1>2. /\ pc[c] = "create" /\ session' = [session EXCEPT ![c].status = "running"]
      /\ Goes(c, "record") /\ "record" \in Labels
      /\ UNCHANGED <<answers, path, file, source, found, spec, mine>>
  BY DEF Creates, Labels
<1>3. /\ session' \in [Interview \cup Seed ->
                        [status : {"none", "running", "completed"}, events : 0..8]]
      /\ \A d \in Interview \cup Seed : session'[d].events = session[d].events
  BY <1>1, <1>2 DEF TypeOK
<1>4. session[c].events = 0
  BY <1>2 DEF Basics, Counted, CountsFit
<1>5. Counted' /\ Begun'
  BY <1>1, <1>2, <1>3, <1>4, StepKeepsCounts, StepKeepsBegun
<1>6. TypeOK'
  BY <1>1, <1>2, <1>3, Going, TotalsKept DEF TypeOK
<1> QED
  BY <1>5, <1>6 DEF Basics

LEMMA EndsBasics ==
  ASSUME Basics, NEW c \in Interview \cup Seed, Ends(c)
  PROVE  Basics'
<1>1. c \in Command /\ TypeOK
  BY DEF Command, Basics
<1>2. /\ pc[c] = "end" /\ session' = [session EXCEPT ![c].status = "completed"]
      /\ Goes(c, "done") /\ "done" \in Labels
      /\ UNCHANGED <<answers, path, file, source, found, spec, mine>>
  BY DEF Ends, Labels
<1>3. /\ session' \in [Interview \cup Seed ->
                        [status : {"none", "running", "completed"}, events : 0..8]]
      /\ \A d \in Interview \cup Seed : session'[d].events = session[d].events
  BY <1>1, <1>2 DEF TypeOK
<1>4. Counted' /\ Begun'
  BY <1>1, <1>2, <1>3, StepKeepsCounts, StepKeepsBegun
<1>5. TypeOK'
  BY <1>1, <1>2, <1>3, Going, TotalsKept DEF TypeOK
<1> QED
  BY <1>4, <1>5 DEF Basics

LEMMA DiesBasics ==
  ASSUME Basics, NEW c \in Command, Dies(c)
  PROVE  Basics'
<1>1. /\ pc[c] # "idle" /\ Goes(c, "dead") /\ "dead" \in Labels /\ TypeOK
      /\ UNCHANGED <<answers, path, file, session, source, found, spec, mine>>
  BY DEF Dies, Labels, Basics
<1>2. Counted' /\ Begun'
  BY <1>1, StepKeepsCounts, StepKeepsBegun
<1>3. TypeOK'
  BY <1>1, Going, TotalsKept DEF TypeOK
<1> QED
  BY <1>2, <1>3 DEF Basics

LEMMA OpensBasics ==
  ASSUME Basics, NEW w \in Writer, Opens(w)
  PROVE  Basics'
<1>1. w \in Command /\ TypeOK /\ w \notin Seed
  BY DEF Command, Writer, Basics
<1>2. /\ pc[w] = "open" /\ file' = [file EXCEPT ![path[w]] = Truncated]
      /\ Goes(w, "write") /\ "write" \in Labels
      /\ UNCHANGED <<answers, path, session, source, found, spec>>
  BY DEF Opens, Labels
<1>3. mine' \in [Interview -> BOOLEAN]
  BY Zenon DEF Opens, StaysMine
<1>4. w \in Interview => session[w].events = Total(w) - 1
  BY <1>2 DEF Basics, Counted, CountsFit
<1>5. Counted' /\ Begun'
  BY <1>1, <1>2, <1>4, StepKeepsCounts, StepKeepsBegun
<1>6. file' \in [Path -> Rendering \cup {Absent, Truncated, Garbled}]
  BY <1>1, <1>2 DEF TypeOK
<1>7. TypeOK'
  BY <1>1, <1>2, <1>3, <1>6, Going, TotalsKept DEF TypeOK
<1> QED
  BY <1>5, <1>7 DEF Basics

LEMMA WritesBasics ==
  ASSUME Basics, NEW w \in Writer, Writes(w)
  PROVE  Basics'
<1>1. w \in Command /\ TypeOK /\ w \notin Seed
  BY DEF Command, Writer, Basics
<1>2. /\ pc[w] = "write"
      /\ UNCHANGED <<answers, path, session, source, found, spec>>
  BY DEF Writes
<1>3. mine' \in [Interview -> BOOLEAN]
  BY Zenon DEF Writes, StaysMine
<1>4. PICK label \in {"complete", "done"} :
        Goes(w, label) /\ (label = "complete" => w \in Interview)
  BY DEF Writes
<1>5. label \in Labels
  BY DEF Labels
<1>6. w \in Interview => session[w].events = Total(w) - 1
  BY <1>2 DEF Basics, Counted, CountsFit
<1>7. Counted' /\ Begun'
  BY <1>1, <1>2, <1>4, <1>5, <1>6, StepKeepsCounts, StepKeepsBegun
<1>8. PICK content \in {Rendered(w), Garbled} : file' = [file EXCEPT ![path[w]] = content]
  BY DEF Writes
<1>9. Rendered(w) \in Rendering
  BY <1>2 DEF Rendered, Rendering, Basics, Begun
<1>10. file' \in [Path -> Rendering \cup {Absent, Truncated, Garbled}]
  BY <1>1, <1>8, <1>9 DEF TypeOK
<1>11. TypeOK'
  BY <1>1, <1>2, <1>3, <1>4, <1>5, <1>10, Going, TotalsKept DEF TypeOK
<1> QED
  BY <1>7, <1>11 DEF Basics

LEMMA ScaffoldsBasics ==
  ASSUME Basics, NEW n \in Scaffold, NEW p \in Path, NEW force, Scaffolds(n, p, force)
  PROVE  Basics'
<1>1. n \in Command /\ n \in Writer /\ n \notin Interview \cup Seed /\ TypeOK
  BY DEF Command, Writer, Basics
<1>2. /\ pc[n] = "idle" /\ path' = [path EXCEPT ![n] = p]
      /\ UNCHANGED <<answers, file, session, source, found, spec, mine>>
  BY DEF Scaffolds
<1>3. PICK label \in {"open", "refused"} : Goes(n, label)
  BY DEF Scaffolds
<1>4. label \in Labels
  BY DEF Labels
<1>5. /\ pc' \in [Command -> Labels] /\ pc'[n] = label
      /\ \A d \in Command \ {n} : pc'[d] = pc[d]
  BY <1>1, <1>3, <1>4, Going
<1>6. Counted'
  BY <1>1, <1>2, <1>3, <1>4, StepKeepsCounts
<1>7. Begun'
  BY <1>1, <1>2, <1>5 DEF Basics, Begun, TypeOK, Command, Writer
<1>8. TypeOK'
  BY <1>1, <1>2, <1>5, TotalsKept DEF TypeOK
<1> QED
  BY <1>6, <1>7, <1>8 DEF Basics

LEMMA ResolvesBasics ==
  ASSUME Basics, NEW s \in Seed, NEW asked \in Path \cup Interview, Resolves(s, asked)
  PROVE  Basics' /\ (pc'[s] = "load" => found'[s] \in Path)
<1> DEFINE p == IF asked \in Path THEN asked ELSE Output(asked)
<1> DEFINE exists == p # "none" /\ file[p] # Absent
<1>1. s \in Command /\ s \notin Interview /\ TypeOK
  BY DEF Command, Basics
<1>2. /\ pc[s] = "idle" /\ source' = [source EXCEPT ![s] = asked]
      /\ found' = [found EXCEPT ![s] = IF exists THEN p ELSE "none"]
      /\ Goes(s, IF exists THEN "load" ELSE "unresolved")
      /\ UNCHANGED <<answers, path, file, session, spec, mine>>
  BY DEF Resolves
<1>3. p = "none" \/ p \in Path
  BY <1>1 DEF Output, TypeOK, Writer
<1> HIDE DEF p
<1>4. PICK label \in {"load", "unresolved"} : Goes(s, label) /\ (label = "load" <=> exists)
  BY <1>2
<1>5. label \in Labels
  BY DEF Labels
<1>6. /\ pc' \in [Command -> Labels] /\ pc'[s] = label
  BY <1>1, <1>4, <1>5, Going
<1>7. session[s].events = 0
  BY <1>2 DEF Basics, Counted, CountsFit
<1>8. Counted' /\ Begun'
  BY <1>1, <1>2, <1>4, <1>5, <1>7, StepKeepsCounts, StepKeepsBegun
<1>9. found' \in [Seed -> Path \cup {"none"}] /\ (label = "load" => found'[s] \in Path)
  BY <1>1, <1>2, <1>3, <1>4 DEF TypeOK
<1>10. TypeOK'
  BY <1>1, <1>2, <1>6, <1>9, TotalsKept DEF TypeOK
<1> QED
  BY <1>6, <1>8, <1>9, <1>10 DEF Basics

LEMMA EmptyRefused ==
  ASSUME NEW content \in {Absent, Truncated}
  PROVE  Accepts(content) = {FALSE}
<1>1. content # Garbled /\ content # [by |-> "template"]
  BY DEF Absent, Truncated, Garbled
<1> QED
  BY <1>1 DEF Accepts

LEMMA LoadsBasics ==
  ASSUME Basics, NEW s \in Seed, found[s] \in Path, Loads(s)
  PROVE  Basics'
<1>1. s \in Command /\ s \notin Interview /\ TypeOK
  BY DEF Command, Basics
<1>2. pc[s] = "load" /\ UNCHANGED <<answers, path, file, session, source, found, mine>>
  BY DEF Loads
<1>3. PICK ok \in Accepts(file[found[s]]) :
        /\ spec' = [spec EXCEPT ![s] = IF ok THEN file[found[s]] ELSE Absent]
        /\ Goes(s, IF ok THEN "create" ELSE "invalid")
  BY DEF Loads
<1>4. PICK label \in {"create", "invalid"} : Goes(s, label)
  BY <1>3
<1>5. label \in Labels
  BY DEF Labels
<1>6. session[s].events = 0
  BY <1>2 DEF Basics, Counted, CountsFit
<1>7. Counted' /\ Begun'
  BY <1>1, <1>2, <1>4, <1>5, <1>6, StepKeepsCounts, StepKeepsBegun
<1>8. file[found[s]] \in Rendering \cup {Absent, Truncated, Garbled}
  BY <1>1 DEF TypeOK
<1>9. ok => file[found[s]] \notin {Absent, Truncated}
  <2> SUFFICES ASSUME file[found[s]] \in {Absent, Truncated} PROVE ~ ok
    BY Zenon
  <2>1. Accepts(file[found[s]]) = {FALSE}
    BY EmptyRefused
  <2>2. ok = FALSE
    BY <1>3, <2>1
  <2> QED BY <2>2
<1>10. spec' \in [Seed -> Rendering \cup {Absent, Garbled}]
  BY <1>1, <1>3, <1>8, <1>9 DEF TypeOK
<1>11. TypeOK'
  BY <1>1, <1>2, <1>4, <1>5, <1>10, Going, TotalsKept DEF TypeOK
<1> QED
  BY <1>7, <1>11 DEF Basics

LEMMA BasicsStep ==
  ASSUME IInv, [Next]_vars
  PROVE  Basics'
<1>1. Basics
  BY DEF IInv, Basics
<1>2. ASSUME NEW i \in Interview, NEW a \in Answers, NEW p \in Path, Gates(i, a, p) PROVE Basics'
  BY <1>1, <1>2, GatesBasics
<1>3. ASSUME NEW i \in Interview, Answered(i) PROVE Basics'
  BY <1>1, <1>3, RecordsBasics DEF Answered
<1>4. ASSUME NEW i \in Interview, Completes(i) PROVE Basics'
  BY <1>1, <1>4, CompletesBasics
<1>5. ASSUME NEW w \in Writer, Opens(w) \/ Writes(w) PROVE Basics'
  BY <1>1, <1>5, OpensBasics, WritesBasics
<1>6. ASSUME NEW n \in Scaffold, NEW p \in Path, NEW force \in BOOLEAN, Scaffolds(n, p, force)
      PROVE  Basics'
  BY <1>1, <1>6, ScaffoldsBasics
<1>7. ASSUME NEW s \in Seed, NEW asked \in Path \cup Interview, Resolves(s, asked) PROVE Basics'
  BY <1>1, <1>7, ResolvesBasics
<1>8. ASSUME NEW s \in Seed, Loads(s) PROVE Basics'
  <2>1. found[s] \in Path
    BY <1>8 DEF Loads, IInv, Sought, SoughtBy
  <2> QED BY <1>1, <1>8, <2>1, LoadsBasics
<1>9. ASSUME NEW s \in Seed, Seeded(s) PROVE Basics'
  BY <1>1, <1>9, RecordsBasics DEF Seeded
<1>10. ASSUME NEW c \in Interview \cup Seed, Creates(c) \/ Ends(c) PROVE Basics'
  BY <1>1, <1>10, CreatesBasics, EndsBasics
<1>11. ASSUME NEW c \in Command, Dies(c) PROVE Basics'
  BY <1>1, <1>11, DiesBasics
<1>12. CASE UNCHANGED vars
  BY <1>1, <1>12, Totals, TotalsKept
     DEF vars, Basics, TypeOK, Counted, CountsFit, Begun
<1> QED
  BY <1>2, <1>3, <1>4, <1>5, <1>6, <1>7, <1>8, <1>9, <1>10, <1>11, <1>12 DEF Next

-----------------------------------------------------------------------------
(* The files *)

\* An interview that is finished writes no more.
LEMMA FinishedIsDone ==
  ASSUME IInv, NEW i \in Interview, Finished(i)
  PROVE  pc[i] \in {"end", "done", "dead"}
<1>1. CountsFit(i, Total(i) - 1) /\ Total(i) \in 7..8 /\ session[i].events = Total(i)
  BY Totals DEF IInv, Counted, Finished
<1>2. pc[i] \in Labels
  BY DEF IInv, TypeOK, Command
<1> QED
  BY <1>1, <1>2 DEF CountsFit, Labels

\* Who writes to the file of an interview that is still its own is the interview.
LEMMA OwnFile ==
  ASSUME IInv, NEW i \in Interview, NEW w \in Writer, StaysMine(i, w), path[i] = path[w]
  PROVE  i = w
BY DEF StaysMine, Sharing, Writer

LEMMA TellsApart ==
  ASSUME NEW i \in Interview
  PROVE  /\ Rendered(i) \notin {Absent, Truncated, Garbled}
         /\ Rendered(i) # [by |-> "template"]
         /\ Rendered(i).answers = answers[i]
<1>1. Rendered(i) = [by |-> i, answers |-> answers[i]]
  BY DEF Rendered
<1>2. "answers" \in DOMAIN Rendered(i)
  BY <1>1
<1>3. /\ "answers" \notin DOMAIN Absent /\ "answers" \notin DOMAIN Truncated
      /\ "answers" \notin DOMAIN Garbled /\ "answers" \notin DOMAIN [by |-> "template"]
  BY DEF Absent, Truncated, Garbled
<1> QED
  BY <1>1, <1>2, <1>3

\* A step that leaves an interview, its answers, its file and its events alone.
LEMMA WrittenStays ==
  ASSUME IInv, NEW i \in Interview, pc'[i] = pc[i], mine'[i] => mine[i],
         answers'[i] = answers[i], path'[i] = path[i], session'[i].events = session[i].events,
         mine'[i] /\ (pc[i] \in {"write", "complete"} \/ Finished(i)) => file'[path[i]] = file[path[i]]
  PROVE  WrittenBy(i)'
<1>1. Finished(i)' <=> Finished(i)
  BY DEF Finished, Total, Questions
<1>2. Rendered(i)' = Rendered(i)
  BY DEF Rendered
<1> QED
  BY <1>1, <1>2 DEF IInv, Written, WrittenBy

\* ... or that is not so far yet.
LEMMA NotYetWritten ==
  ASSUME NEW i \in Interview, pc'[i] \notin {"write", "complete"},
         session'[i].events < Total(i)', session'[i].events \in Nat
  PROVE  WrittenBy(i)'
BY Totals DEF Finished, WrittenBy

LEMMA WrittenStep ==
  ASSUME IInv, [Next]_vars, NEW i \in Interview
  PROVE  WrittenBy(i)'
<1>1. /\ TypeOK /\ CountsFit(i, Total(i) - 1) /\ WrittenBy(i)
      /\ i \in Command /\ i \in Writer /\ i \notin Seed /\ i \notin Scaffold
      /\ Total(i) \in 7..8
  BY Totals DEF IInv, Counted, Written, Command, Writer
<1>2. ASSUME NEW c \in Command, NEW label, Goes(c, label), c # i PROVE pc'[i] = pc[i]
  BY <1>1, <1>2 DEF Goes, TypeOK
<1>3. ASSUME NEW label, Goes(i, label) PROVE pc'[i] = label
  BY <1>1, <1>3 DEF Goes, TypeOK
<1>4. ASSUME NEW j \in Interview, NEW a \in Answers, NEW p \in Path, Gates(j, a, p)
      PROVE  WrittenBy(i)'
  <2>1. /\ pc[j] = "idle" /\ answers' = [answers EXCEPT ![j] = a]
        /\ path' = [path EXCEPT ![j] = p] /\ UNCHANGED <<file, session, mine>>
        /\ Goes(j, IF Passed(a) THEN "create" ELSE "rejected")
    BY <1>4 DEF Gates
  <2>2. CASE j = i
    <3>1. session'[i].events = 0 /\ pc'[i] \in {"create", "rejected"}
      BY <1>1, <1>3, <2>1, <2>2 DEF CountsFit
    <3> QED BY <3>1, NotYetWritten, Totals
  <2>3. CASE j # i
    <3>1. pc'[i] = pc[i] /\ answers'[i] = answers[i] /\ path'[i] = path[i]
      BY <1>1, <1>2, <2>1, <2>3 DEF Command, TypeOK
    <3> QED BY <2>1, <3>1, WrittenStays
  <2> QED BY <2>2, <2>3
<1>5. ASSUME NEW c \in Interview \cup Seed, NEW last, NEW after, Records(c, last, after),
             c = i => last = Total(i) - 1 /\ after = "open"
      PROVE  WrittenBy(i)'
  <2>1. /\ pc[c] = "record" /\ session' = [session EXCEPT ![c].events = @ + 1]
        /\ UNCHANGED <<answers, path, file, mine>>
        /\ Goes(c, IF session[c].events + 1 < last THEN "record" ELSE after)
    BY <1>5 DEF Records
  <2>2. CASE c = i
    <3>1. session'[i].events = session[i].events + 1 /\ pc'[i] \in {"record", "open"}
      BY <1>1, <1>3, <1>5, <2>1, <2>2 DEF TypeOK
    <3>2. session[i].events < Total(i) - 1 /\ session[i].events \in Nat /\ Total(i)' = Total(i)
      BY <1>1, <1>5, <2>1, <2>2, TotalsKept DEF CountsFit
    <3>3. session'[i].events < Total(i)' /\ session'[i].events \in Nat
      BY <1>1, <3>1, <3>2
    <3> QED BY <3>1, <3>3, NotYetWritten
  <2>3. CASE c # i
    <3>1. pc'[i] = pc[i] /\ session'[i] = session[i]
      BY <1>1, <1>2, <2>1, <2>3 DEF Command, TypeOK
    <3> QED BY <2>1, <3>1, WrittenStays
  <2> QED BY <2>2, <2>3
<1>6. ASSUME NEW j \in Interview, Completes(j) PROVE WrittenBy(i)'
  <2>1. /\ pc[j] = "complete" /\ session' = [session EXCEPT ![j].events = Total(j)]
        /\ UNCHANGED <<answers, path, file, mine>> /\ Goes(j, "end")
    BY <1>6 DEF Completes
  <2>2. CASE j = i
    <3>1. pc'[i] = "end" /\ Rendered(i)' = Rendered(i)
      BY <1>3, <2>1, <2>2 DEF Rendered
    <3>2. mine'[i] => file'[path'[i]] = Rendered(i)'
      BY <1>1, <2>1, <2>2, <3>1 DEF WrittenBy
    <3> QED BY <3>1, <3>2 DEF WrittenBy
  <2>3. CASE j # i
    <3>1. pc'[i] = pc[i] /\ session'[i] = session[i]
      BY <1>1, <1>2, <2>1, <2>3 DEF Command, TypeOK
    <3> QED BY <2>1, <3>1, WrittenStays
  <2> QED BY <2>2, <2>3
<1>7. ASSUME NEW w \in Writer, Opens(w) PROVE WrittenBy(i)'
  <2>1. /\ pc[w] = "open" /\ file' = [file EXCEPT ![path[w]] = Truncated]
        /\ Goes(w, "write") /\ UNCHANGED <<answers, path, session>>
    BY <1>7 DEF Opens
  <2>2. CASE w = i
    <3>1. path[i] \in Path /\ file'[path[i]] = Truncated
      BY <1>1, <2>1, <2>2 DEF IInv, Begun, TypeOK
    <3>2. pc'[i] = "write" /\ ~ Finished(i)'
      <4>1. session'[i].events = Total(i) - 1 /\ Total(i)' = Total(i)
        BY <1>1, <2>1, <2>2, TotalsKept DEF CountsFit
      <4> QED BY <1>1, <1>3, <2>1, <2>2, <4>1 DEF Finished
    <3> QED BY <2>1, <3>1, <3>2 DEF WrittenBy
  <2>3. CASE w # i
    <3>1. pc'[i] = pc[i] /\ w \in Command
      BY <1>2, <2>1, <2>3 DEF Command, Writer
    <3>2. mine'[i] => StaysMine(i, w)
      BY <1>7, <2>3 DEF Opens
    <3>3. mine'[i] => mine[i] /\ path[i] # path[w]
      BY <2>3, <3>2, OwnFile DEF StaysMine
    <3>4. path[i] # path[w] => file'[path[i]] = file[path[i]]
      BY <1>1, <2>1 DEF TypeOK
    <3> QED BY <2>1, <3>1, <3>3, <3>4, WrittenStays
  <2> QED BY <2>2, <2>3
<1>8. ASSUME NEW w \in Writer, Writes(w) PROVE WrittenBy(i)'
  <2>1. /\ pc[w] = "write" /\ UNCHANGED <<answers, path, session>>
        /\ Goes(w, IF w \in Interview THEN "complete" ELSE "done")
        /\ mine' = [j \in Interview |-> StaysMine(j, w)]
    BY <1>8 DEF Writes
  <2>2. PICK content \in {Rendered(w)} \cup (IF file[path[w]] = Truncated THEN {} ELSE {Garbled}) :
          file' = [file EXCEPT ![path[w]] = content]
    BY <1>8 DEF Writes
  <2>3. mine'[i] => StaysMine(i, w)
    BY <2>1
  <2>4. CASE w = i
    <3>1. path[i] \in Path /\ file'[path[i]] = content
      BY <1>1, <2>1, <2>2, <2>4 DEF IInv, Begun, TypeOK
    <3>2. mine'[i] => content = Rendered(i)
      BY <1>1, <2>1, <2>2, <2>3, <2>4 DEF StaysMine, WrittenBy
    <3>3. pc'[i] = "complete" /\ Rendered(i)' = Rendered(i)
      BY <1>3, <2>1, <2>4 DEF Rendered
    <3> QED BY <2>1, <3>1, <3>2, <3>3 DEF WrittenBy
  <2>5. CASE w # i
    <3>1. pc'[i] = pc[i] /\ w \in Command
      BY <1>2, <2>1, <2>5 DEF Command, Writer
    <3>2. mine'[i] => mine[i] /\ path[i] # path[w]
      BY <2>3, <2>5, OwnFile DEF StaysMine
    <3>3. path[i] # path[w] => file'[path[i]] = file[path[i]]
      BY <1>1, <2>2 DEF TypeOK
    <3> QED BY <2>1, <3>1, <3>2, <3>3, WrittenStays
  <2> QED BY <2>4, <2>5
<1>9. ASSUME NEW n \in Scaffold, NEW p \in Path, NEW force \in BOOLEAN, Scaffolds(n, p, force)
      PROVE  WrittenBy(i)'
  <2>1. /\ path' = [path EXCEPT ![n] = p] /\ UNCHANGED <<answers, file, session, mine>>
        /\ n # i /\ n \in Command
    BY <1>1, <1>9 DEF Scaffolds, Command
  <2>2. pc'[i] = pc[i]
    BY <1>2, <1>9, <2>1 DEF Scaffolds
  <2>3. path'[i] = path[i]
    BY <1>1, <2>1 DEF TypeOK
  <2> QED BY <2>1, <2>2, <2>3, WrittenStays
<1>10. ASSUME NEW s \in Seed, NEW asked \in Path \cup Interview, Resolves(s, asked)
       PROVE  WrittenBy(i)'
  <2>1. pc'[i] = pc[i] /\ UNCHANGED <<answers, path, file, session, mine>>
    BY <1>1, <1>10 DEF Resolves, Goes, TypeOK
  <2> QED BY <2>1, WrittenStays
<1>11. ASSUME NEW s \in Seed, Loads(s) PROVE WrittenBy(i)'
  <2>1. pc'[i] = pc[i] /\ UNCHANGED <<answers, path, file, session, mine>>
    BY <1>1, <1>11 DEF Loads, Goes, TypeOK
  <2> QED BY <2>1, WrittenStays
<1>12. ASSUME NEW c \in Interview \cup Seed, Creates(c) PROVE WrittenBy(i)'
  <2>1. /\ pc[c] = "create" /\ session' = [session EXCEPT ![c].status = "running"]
        /\ UNCHANGED <<answers, path, file, mine>> /\ Goes(c, "record") /\ c \in Command
    BY <1>12 DEF Creates, Command
  <2>2. session'[i].events = session[i].events
    BY <1>1, <2>1 DEF TypeOK
  <2>3. CASE c = i
    <3>1. session'[i].events = 0 /\ pc'[i] = "record"
      BY <1>1, <1>3, <2>1, <2>2, <2>3 DEF CountsFit
    <3> QED BY <3>1, NotYetWritten, Totals
  <2>4. CASE c # i
    BY <1>2, <2>1, <2>2, <2>4, WrittenStays
  <2> QED BY <2>3, <2>4
<1>13. ASSUME NEW c \in Interview \cup Seed, Ends(c) PROVE WrittenBy(i)'
  <2>1. /\ pc[c] = "end" /\ session' = [session EXCEPT ![c].status = "completed"]
        /\ UNCHANGED <<answers, path, file, mine>> /\ Goes(c, "done") /\ c \in Command
    BY <1>13 DEF Ends, Command
  <2>2. session'[i].events = session[i].events
    BY <1>1, <2>1 DEF TypeOK
  <2>3. CASE c = i
    <3>1. pc'[i] = "done"
      BY <1>3, <2>1, <2>3
    <3>2. (Finished(i)' <=> Finished(i)) /\ Rendered(i)' = Rendered(i)
      BY <2>1, <2>2, TotalsKept DEF Finished, Rendered
    <3> QED BY <1>1, <2>1, <3>1, <3>2 DEF WrittenBy
  <2>4. CASE c # i
    BY <1>2, <2>1, <2>2, <2>4, WrittenStays
  <2> QED BY <2>3, <2>4
<1>14. ASSUME NEW c \in Command, Dies(c) PROVE WrittenBy(i)'
  <2>1. UNCHANGED <<answers, path, file, session, mine>> /\ Goes(c, "dead")
    BY <1>14 DEF Dies
  <2>2. CASE c = i
    <3>1. pc'[i] = "dead"
      BY <1>3, <2>1, <2>2
    <3>2. (Finished(i)' <=> Finished(i)) /\ Rendered(i)' = Rendered(i)
      BY <2>1, TotalsKept DEF Finished, Rendered
    <3> QED BY <1>1, <2>1, <3>1, <3>2 DEF WrittenBy
  <2>3. CASE c # i
    BY <1>2, <2>1, <2>3, WrittenStays
  <2> QED BY <2>2, <2>3
<1>15. CASE UNCHANGED vars
  BY <1>15, WrittenStays DEF vars
<1> QED
  BY <1>1, <1>4, <1>5, <1>6, <1>7, <1>8, <1>9, <1>10, <1>11, <1>12, <1>13, <1>14, <1>15
     DEF Next, Answered, Seeded

-----------------------------------------------------------------------------
(* The seeds *)

\* What an interview has said when it is finished.
Said(i) ==
  /\ Finished(i)' /\ path'[i] = path[i] /\ answers'[i] = answers[i]
  /\ mine'[i] => mine[i]

LEMMA FinishedStays ==
  ASSUME IInv, [Next]_vars, NEW i \in Interview, Finished(i)
  PROVE  Said(i)
<1>1. /\ pc[i] \in {"end", "done", "dead"} /\ TypeOK
      /\ i \in Command /\ i \in Writer /\ i \notin Seed /\ i \notin Scaffold
  BY FinishedIsDone DEF IInv, Command, Writer
<1>2. ASSUME session'[i].events = session[i].events, answers'[i] = answers[i]
      PROVE  Finished(i)'
  BY <1>2 DEF Finished, Total, Questions
<1>3. ASSUME NEW j \in Interview, NEW a \in Answers, NEW p \in Path, Gates(j, a, p) PROVE Said(i)
  <2>1. j # i
    BY <1>1, <1>3 DEF Gates
  <2>2. answers'[i] = answers[i] /\ path'[i] = path[i] /\ UNCHANGED <<session, mine>>
    BY <1>1, <1>3, <2>1 DEF Gates, TypeOK
  <2> QED BY <1>2, <2>2 DEF Said
<1>4. ASSUME NEW c \in Interview \cup Seed, NEW last, NEW after, Records(c, last, after)
      PROVE  Said(i)
  <2>1. c # i
    BY <1>1, <1>4 DEF Records
  <2>2. session'[i] = session[i] /\ UNCHANGED <<answers, path, mine>>
    BY <1>1, <1>4, <2>1 DEF Records, TypeOK
  <2> QED BY <1>2, <2>2 DEF Said
<1>5. ASSUME NEW j \in Interview, Completes(j) PROVE Said(i)
  <2>1. j # i
    BY <1>1, <1>5 DEF Completes
  <2>2. session'[i] = session[i] /\ UNCHANGED <<answers, path, mine>>
    BY <1>1, <1>5, <2>1 DEF Completes, TypeOK
  <2> QED BY <1>2, <2>2 DEF Said
<1>6. ASSUME NEW w \in Writer, Opens(w) PROVE Said(i)
  <2>1. w # i
    BY <1>1, <1>6 DEF Opens
  <2>2. UNCHANGED <<answers, path, session>> /\ (mine'[i] => mine[i])
    BY <1>6, <2>1 DEF Opens, StaysMine
  <2> QED BY <1>2, <2>2 DEF Said
<1>7. ASSUME NEW w \in Writer, Writes(w) PROVE Said(i)
  <2>1. UNCHANGED <<answers, path, session>> /\ (mine'[i] => mine[i])
    BY <1>7 DEF Writes, StaysMine
  <2> QED BY <1>2, <2>1 DEF Said
<1>8. ASSUME NEW n \in Scaffold, NEW p \in Path, NEW force \in BOOLEAN, Scaffolds(n, p, force)
      PROVE  Said(i)
  <2>1. path'[i] = path[i] /\ UNCHANGED <<answers, session, mine>>
    BY <1>1, <1>8 DEF Scaffolds, TypeOK
  <2> QED BY <1>2, <2>1 DEF Said
<1>9. ASSUME NEW s \in Seed, (\E asked \in Path \cup Interview : Resolves(s, asked)) \/ Loads(s)
      PROVE  Said(i)
  <2>1. UNCHANGED <<answers, path, session, mine>>
    BY <1>9 DEF Resolves, Loads
  <2> QED BY <1>2, <2>1 DEF Said
<1>10. ASSUME NEW c \in Interview \cup Seed, Creates(c) \/ Ends(c) PROVE Said(i)
  <2>1. /\ \/ session' = [session EXCEPT ![c].status = "running"]
           \/ session' = [session EXCEPT ![c].status = "completed"]
        /\ UNCHANGED <<answers, path, mine>>
    BY <1>10 DEF Creates, Ends
  <2>2. session'[i].events = session[i].events
    BY <1>1, <2>1, SMTT(30) DEF TypeOK
  <2> QED BY <1>2, <2>1, <2>2 DEF Said
<1>11. ASSUME NEW c \in Command, Dies(c) PROVE Said(i)
  <2>1. UNCHANGED <<answers, path, session, mine>>
    BY <1>11 DEF Dies
  <2> QED BY <1>2, <2>1 DEF Said
<1>12. CASE UNCHANGED vars
  <2>1. UNCHANGED <<answers, path, session, mine>>
    BY <1>12 DEF vars
  <2> QED BY <1>2, <2>1 DEF Said
<1> QED
  BY <1>3, <1>4, <1>5, <1>6, <1>7, <1>8, <1>9, <1>10, <1>11, <1>12 DEF Next, Answered, Seeded

\* What is asked of one seed.
AsAsked(s) ==
  LET i == source[s]
  IN i \in Interview /\ mine[i] =>
       /\ spec[s] # Absent => spec[s] = Rendered(i)
       /\ pc[s] = "invalid" => ~ Valid(answers[i])

\* A step that neither resolves nor loads for the seed.
LEMMA SeedStays ==
  ASSUME IInv, [Next]_vars, NEW s \in Seed,
         source'[s] = source[s], found'[s] = found[s], spec'[s] = spec[s],
         pc'[s] \in {"idle", "load", "invalid"} => pc'[s] = pc[s]
  PROVE  SoughtBy(s)' /\ AsAsked(s)'
<1>1. SoughtBy(s) /\ AsAsked(s)
  BY DEF IInv, Sought, SeedsWhatWasAsked, AsAsked
<1>2. Absent' = Absent
  BY DEF Absent
<1>3. CASE source[s] \in Interview /\ (pc'[s] \in {"load", "invalid"} \/ spec[s] # Absent)
  <2> PICK i \in Interview : i = source[s] /\ i = source'[s]
    BY <1>3
  <2>1. Finished(i)
    BY <1>1, <1>3 DEF SoughtBy
  <2>2. Said(i)
    BY <2>1, FinishedStays
  <2>3. Rendered(i)' = Rendered(i)
    BY <2>2 DEF Rendered, Said
  <2>4. SoughtBy(s)'
    BY <1>1, <2>2 DEF SoughtBy, Said
  <2>5. AsAsked(s)'
    BY <1>1, <1>2, <2>2, <2>3 DEF AsAsked, Said
  <2> QED BY <2>4, <2>5
<1>4. CASE ~ (source[s] \in Interview /\ (pc'[s] \in {"load", "invalid"} \/ spec[s] # Absent))
  BY <1>1, <1>4 DEF SoughtBy, AsAsked
<1> QED
  BY <1>3, <1>4

LEMMA SeedResolves ==
  ASSUME IInv, NEW s \in Seed, NEW asked \in Path \cup Interview, Resolves(s, asked)
  PROVE  SoughtBy(s)' /\ AsAsked(s)'
<1> DEFINE p == IF asked \in Path THEN asked ELSE Output(asked)
<1> DEFINE exists == p # "none" /\ file[p] # Absent
<1>1. /\ pc[s] = "idle" /\ s \in Command /\ TypeOK
      /\ source' = [source EXCEPT ![s] = asked]
      /\ found' = [found EXCEPT ![s] = IF exists THEN p ELSE "none"]
      /\ Goes(s, IF exists THEN "load" ELSE "unresolved")
      /\ UNCHANGED <<answers, path, session, spec>>
  BY DEF Resolves, Command, IInv
<1>2. spec'[s] = Absent /\ Absent' = Absent /\ source'[s] = asked
  BY <1>1 DEF IInv, Sought, SoughtBy, TypeOK, Absent
<1>3. /\ pc'[s] \in {"load", "unresolved"}
      /\ pc'[s] = "load" => exists /\ found'[s] = p
  BY <1>1 DEF Goes, TypeOK
<1>4. pc'[s] = "load" => found'[s] \in Path
  BY <1>1, ResolvesBasics DEF IInv, Basics
<1>5. ASSUME asked \in Interview, pc'[s] = "load"
      PROVE  Finished(asked)' /\ found'[s] = path'[asked]
  <2>1. Output(asked) # "none" /\ found'[s] = Output(asked)
    BY <1>3, <1>5
  <2>2. session[asked].events = Total(asked) /\ Output(asked) = path[asked]
    BY <2>1 DEF Output
  <2> QED BY <1>1, <2>1, <2>2, TotalsKept DEF Finished
<1>6. SoughtBy(s)'
  BY <1>2, <1>3, <1>4, <1>5 DEF SoughtBy
<1>7. AsAsked(s)'
  BY <1>2, <1>3 DEF AsAsked
<1> QED
  BY <1>6, <1>7

LEMMA SeedLoads ==
  ASSUME IInv, [Next]_vars, NEW s \in Seed, Loads(s)
  PROVE  SoughtBy(s)' /\ AsAsked(s)'
<1>1. /\ pc[s] = "load" /\ s \in Command /\ TypeOK /\ SoughtBy(s)
      /\ UNCHANGED <<answers, path, file, session, source, found, mine>>
  BY DEF Loads, Command, IInv, Sought
<1>2. PICK ok \in Accepts(file[found[s]]) :
        /\ spec' = [spec EXCEPT ![s] = IF ok THEN file[found[s]] ELSE Absent]
        /\ Goes(s, IF ok THEN "create" ELSE "invalid")
  BY DEF Loads
<1>3. /\ spec'[s] = IF ok THEN file[found[s]] ELSE Absent
      /\ pc'[s] = IF ok THEN "create" ELSE "invalid"
  BY <1>1, <1>2 DEF TypeOK, Goes
<1>4. ASSUME source[s] \in Interview PROVE Finished(source[s]) /\ Finished(source[s])'
  <2> PICK i \in Interview : i = source[s] /\ i = source'[s]
    BY <1>1, <1>4
  <2>1. Finished(i)
    BY <1>1, <1>4 DEF SoughtBy
  <2>2. Said(i)
    BY <2>1, FinishedStays
  <2> QED BY <2>1, <2>2 DEF Said
<1>5. SoughtBy(s)'
  BY <1>1, <1>3, <1>4 DEF SoughtBy
<1>6. ASSUME source[s] \in Interview, mine[source[s]]
      PROVE  /\ spec'[s] # Absent => spec'[s] = Rendered(source[s])
             /\ pc'[s] = "invalid" => ~ Valid(answers[source[s]])
  <2> DEFINE i == source[s]
  <2>1. file[found[s]] = Rendered(i)
    <3>1. found[s] = path[i]
      BY <1>1, <1>6 DEF SoughtBy
    <3>2. file[path[i]] = Rendered(i)
      BY <1>4, <1>6 DEF IInv, Written, WrittenBy
    <3> QED BY <3>1, <3>2
  <2>2. Accepts(Rendered(i)) = {Valid(answers[i])}
    BY <1>6, TellsApart DEF Accepts
  <2>3. ok = Valid(answers[i])
    BY <2>1, <2>2
  <2> QED BY <1>3, <2>1, <2>3
<1>7. AsAsked(s)'
  BY <1>1, <1>6 DEF AsAsked, Rendered, Absent
<1> QED
  BY <1>5, <1>7

LEMMA SeedsStep ==
  ASSUME IInv, [Next]_vars, NEW s \in Seed
  PROVE  SoughtBy(s)' /\ AsAsked(s)'
<1>1. TypeOK /\ s \in Command /\ s \notin Interview /\ s \notin Scaffold /\ s \notin Writer
  BY DEF IInv, Command, Writer
<1>2. ASSUME NEW c \in Command, NEW label, Goes(c, label),
             c # s \/ label \notin {"idle", "load", "invalid"}
      PROVE  pc'[s] \in {"idle", "load", "invalid"} => pc'[s] = pc[s]
  BY <1>1, <1>2 DEF Goes, TypeOK
<1>3. ASSUME NEW i \in Interview, NEW a \in Answers, NEW p \in Path, Gates(i, a, p)
      PROVE  SoughtBy(s)' /\ AsAsked(s)'
  <2>1. /\ UNCHANGED <<source, found, spec>> /\ i \in Command /\ i # s
        /\ \E label : Goes(i, label)
    BY <1>1, <1>3 DEF Gates, Command
  <2> QED BY <1>2, <2>1, SeedStays
<1>4. ASSUME NEW c \in Interview \cup Seed, NEW last, NEW after, Records(c, last, after),
             after \in {"open", "end"}
      PROVE  SoughtBy(s)' /\ AsAsked(s)'
  <2>1. /\ UNCHANGED <<source, found, spec>> /\ c \in Command
        /\ \E label \in {"record", "open", "end"} : Goes(c, label)
    BY <1>4 DEF Records, Command
  <2> QED BY <1>2, <2>1, SeedStays
<1>5. ASSUME NEW i \in Interview, Completes(i) PROVE SoughtBy(s)' /\ AsAsked(s)'
  <2>1. UNCHANGED <<source, found, spec>> /\ i \in Command /\ i # s /\ Goes(i, "end")
    BY <1>1, <1>5 DEF Completes, Command
  <2> QED BY <1>2, <2>1, SeedStays
<1>6. ASSUME NEW w \in Writer, Opens(w) \/ Writes(w) PROVE SoughtBy(s)' /\ AsAsked(s)'
  <2>1. /\ UNCHANGED <<source, found, spec>> /\ w \in Command /\ w # s
        /\ \E label : Goes(w, label)
    BY <1>1, <1>6 DEF Opens, Writes, Command, Writer
  <2> QED BY <1>2, <2>1, SeedStays
<1>7. ASSUME NEW n \in Scaffold, NEW p \in Path, NEW force \in BOOLEAN, Scaffolds(n, p, force)
      PROVE  SoughtBy(s)' /\ AsAsked(s)'
  <2>1. /\ UNCHANGED <<source, found, spec>> /\ n \in Command /\ n # s
        /\ \E label : Goes(n, label)
    BY <1>1, <1>7 DEF Scaffolds, Command
  <2> QED BY <1>2, <2>1, SeedStays
<1>8. ASSUME NEW t \in Seed, NEW asked \in Path \cup Interview, Resolves(t, asked)
      PROVE  SoughtBy(s)' /\ AsAsked(s)'
  <2>1. CASE t = s
    BY <1>8, <2>1, SeedResolves
  <2>2. CASE t # s
    <3>1. /\ t \in Command /\ spec' = spec /\ \E label : Goes(t, label)
          /\ source'[s] = source[s] /\ found'[s] = found[s]
      BY <1>1, <1>8, <2>2 DEF Resolves, Command, TypeOK
    <3> QED BY <1>2, <2>2, <3>1, SeedStays
  <2> QED BY <2>1, <2>2
<1>9. ASSUME NEW t \in Seed, Loads(t) PROVE SoughtBy(s)' /\ AsAsked(s)'
  <2>1. CASE t = s
    BY <1>9, <2>1, SeedLoads
  <2>2. CASE t # s
    <3>1. /\ t \in Command /\ UNCHANGED <<source, found>> /\ \E label : Goes(t, label)
          /\ spec'[s] = spec[s]
      BY <1>1, <1>9, <2>2 DEF Loads, Command, TypeOK
    <3> QED BY <1>2, <2>2, <3>1, SeedStays
  <2> QED BY <2>1, <2>2
<1>10. ASSUME NEW c \in Interview \cup Seed, Creates(c) \/ Ends(c)
       PROVE  SoughtBy(s)' /\ AsAsked(s)'
  <2>1. /\ UNCHANGED <<source, found, spec>> /\ c \in Command
        /\ \E label \in {"record", "done"} : Goes(c, label)
    BY <1>10 DEF Creates, Ends, Command
  <2> QED BY <1>2, <2>1, SeedStays
<1>11. ASSUME NEW c \in Command, Dies(c) PROVE SoughtBy(s)' /\ AsAsked(s)'
  <2>1. UNCHANGED <<source, found, spec>> /\ Goes(c, "dead")
    BY <1>11 DEF Dies
  <2> QED BY <1>2, <2>1, SeedStays
<1>12. CASE UNCHANGED vars
  BY <1>12, SeedStays DEF vars
<1> QED
  BY <1>3, <1>4, <1>5, <1>6, <1>7, <1>8, <1>9, <1>10, <1>11, <1>12 DEF Next, Answered, Seeded

-----------------------------------------------------------------------------
LEMMA IInvStep == IInv /\ [Next]_vars => IInv'
<1> SUFFICES ASSUME IInv, [Next]_vars PROVE IInv'
  OBVIOUS
<1>1. TypeOK' /\ Counted' /\ Begun'
  BY BasicsStep DEF Basics
<1>2. Written'
  BY WrittenStep DEF Written
<1>3. Sought' /\ SeedsWhatWasAsked'
  BY SeedsStep DEF Sought, SeedsWhatWasAsked, AsAsked
<1> QED
  BY <1>1, <1>2, <1>3 DEF IInv

\* Every variable of interviews, scaffolds and seeds keeps its type; no command
\* records more events than it has.
THEOREM IntakeTypeCorrect == Spec => []TypeOK
<1>1. IInv => TypeOK
  BY DEF IInv
<1> QED
  BY <1>1, IInvInit, IInvStep, PTL DEF Spec

\* A seed made from an interview's session is made from what that interview has
\* written, and refused only for what was answered, as long as nobody else has
\* written to the file since the interview opened it.
THEOREM SeedsAreAsAsked == Spec => []SeedsWhatWasAsked
<1>1. IInv => SeedsWhatWasAsked
  BY DEF IInv
<1> QED
  BY <1>1, IInvInit, IInvStep, PTL DEF Spec

-----------------------------------------------------------------------------
(* The arithmetic of the gate *)

LEMMA TimesMonotone ==
  ASSUME NEW k \in Nat, NEW a \in Int, NEW b \in Int, a <= b
  PROVE  k * a <= k * b
BY SMT

LEMMA Dividing ==
  ASSUME NEW n \in Nat, NEW d \in Nat, d > 0
  PROVE  /\ n \div d \in Nat
         /\ d * (n \div d) <= n
         /\ n < d * (n \div d) + d
BY SMT

\* A fraction in thousandths is off by no more than a half.
LEMMA ThousandthsNear ==
  ASSUME NEW n \in Nat, NEW d \in Nat, d > 0
  PROVE  /\ Thousandths(n, d) \in Nat /\ d * Thousandths(n, d) \in Nat
         /\ 2 * (d * Thousandths(n, d)) <= 2000 * n + d
         /\ 2000 * n < 2 * (d * Thousandths(n, d)) + d
<1> DEFINE t == Thousandths(n, d)
<1>1. 2000 * n + d \in Nat /\ 2 * d \in Nat /\ 2 * d > 0
  OBVIOUS
<1>2. /\ t \in Nat /\ (2 * d) * t <= 2000 * n + d /\ 2000 * n + d < (2 * d) * t + 2 * d
  BY <1>1, Dividing DEF Thousandths
<1>3. (2 * d) * t = 2 * (d * t) /\ d * t \in Nat
  BY <1>2
<1> QED
  BY <1>2, <1>3 DEF t

LEMMA ThousandthsNat ==
  ASSUME NEW n \in Nat, NEW d \in Nat, d > 0
  PROVE  Thousandths(n, d) \in Nat
BY ThousandthsNear

\* The sum of two fractions n/d and m/e, in thousandths: off by at most one.
LEMMA SumNear ==
  ASSUME NEW n \in Nat, NEW d \in Nat, d > 0, NEW m \in Nat, NEW e \in Nat, e > 0,
         NEW s \in Nat, s = Thousandths(n, d) + Thousandths(m, e)
  PROVE  /\ n * e + m * d \in Nat /\ d * e \in Nat /\ d * e > 0
         /\ (d * e) * s <= 1000 * (n * e + m * d) + d * e
         /\ 1000 * (n * e + m * d) < (d * e) * s + d * e
<1> DEFINE t == Thousandths(n, d)
           u == Thousandths(m, e)
<1>1. /\ t \in Nat /\ d * t \in Nat
      /\ 2 * (d * t) <= 2000 * n + d /\ 2000 * n < 2 * (d * t) + d
  BY ThousandthsNear DEF t
<1>2. /\ u \in Nat /\ e * u \in Nat
      /\ 2 * (e * u) <= 2000 * m + e /\ 2000 * m < 2 * (e * u) + e
  BY ThousandthsNear DEF u
<1> HIDE DEF t, u
<1>3. /\ e * (2 * (d * t)) <= e * (2000 * n + d)
      /\ e * (2000 * n + 1) <= e * (2 * (d * t) + d)
  BY <1>1, TimesMonotone
<1>4. /\ d * (2 * (e * u)) <= d * (2000 * m + e)
      /\ d * (2000 * m + 1) <= d * (2 * (e * u) + e)
  BY <1>2, TimesMonotone
<1>5. /\ e * (2 * (d * t)) = 2 * ((d * e) * t) /\ d * (2 * (e * u)) = 2 * ((d * e) * u)
      /\ e * (2000 * n + d) = 2000 * (n * e) + d * e
      /\ d * (2000 * m + e) = 2000 * (m * d) + d * e
      /\ e * (2000 * n + 1) = 2000 * (n * e) + e /\ d * (2000 * m + 1) = 2000 * (m * d) + d
      /\ e * (2 * (d * t) + d) = 2 * ((d * e) * t) + d * e
      /\ d * (2 * (e * u) + e) = 2 * ((d * e) * u) + d * e
      /\ (d * e) * s = (d * e) * t + (d * e) * u
  BY <1>1, <1>2 DEF t, u
<1>6. /\ n * e \in Nat /\ m * d \in Nat /\ d * e \in Nat /\ d * e > 0
      /\ (d * e) * t \in Nat /\ (d * e) * u \in Nat
  BY <1>1, <1>2
<1> QED
  BY <1>3, <1>4, <1>5, <1>6

\* What the thresholds of the gate are for such a sum s of a fraction x/q.
LEMMA FractionOnThreshold ==
  ASSUME NEW x \in Nat, NEW q \in Nat, q > 0, NEW s \in Nat, q * s <= 1000 * x + q
  PROVE  /\ 3 * x <= 2 * q => s <= 668
         /\ 5 * x <= 4 * q => s <= 801
         /\ x = 0 => s <= 1
<1>1. s > 668 => q * 669 <= q * s
  BY TimesMonotone
<1>2. s > 801 => q * 802 <= q * s
  BY TimesMonotone
<1>3. s > 1 => q * 2 <= q * s
  BY TimesMonotone
<1>4. q * s \in Nat
  OBVIOUS
<1> QED
  BY <1>1, <1>2, <1>3, <1>4

LEMMA SumOnThreshold ==
  ASSUME NEW x \in Nat, NEW q \in Nat, q > 0, NEW s \in Nat, 1000 * x < q * s + q
  PROVE  /\ s <= 668 => 1000 * x < 669 * q
         /\ s <= 801 => 1000 * x < 802 * q
         /\ s <= 1 => 1000 * x < 2 * q
<1>1. s <= 668 => q * s <= q * 668
  BY TimesMonotone
<1>2. s <= 801 => q * s <= q * 801
  BY TimesMonotone
<1>3. s <= 1 => q * s <= q * 1
  BY TimesMonotone
<1>4. q * s \in Nat
  OBVIOUS
<1> QED
  BY <1>1, <1>2, <1>3, <1>4

\* The products of two denominators up to twelve that are large.
LEMMA LargeProducts ==
  ASSUME NEW d \in 1..12, NEW e \in 1..12, d * e > 100
  PROVE  \/ d * e \in {108, 110, 120, 132}
         \/ d = 11 /\ e = 11
         \/ d = 12 /\ e = 12
<1>1. d * e <= d * 12 /\ e * d <= e * 12 /\ d * e = e * d
  BY TimesMonotone
<1>2. d \in {9, 10, 11, 12} /\ e \in {9, 10, 11, 12}
  BY <1>1
<1>3. CASE d = 9
  BY <1>2, <1>3
<1>4. CASE d = 10
  BY <1>2, <1>4
<1>5. CASE d = 11
  BY <1>2, <1>5
<1>6. CASE d = 12
  BY <1>2, <1>6
<1> QED
  BY <1>2, <1>3, <1>4, <1>5, <1>6

\* No sum of two fractions with denominators up to twelve lies between the
\* threshold and what rounding may take for it.
LEMMA NothingBetween ==
  ASSUME NEW d \in 1..12, NEW e \in 1..12, NEW n \in Nat, NEW m \in Nat,
         NEW x \in Nat, x = n * e + m * d
  PROVE  /\ 1000 * x < 669 * (d * e) => 3 * x <= 2 * (d * e)
         /\ 1000 * x < 802 * (d * e) => 5 * x <= 4 * (d * e)
         /\ 1000 * x < 2 * (d * e) => x = 0
<1>1. d * e \in Nat /\ d * e > 0
  OBVIOUS
<1>2. CASE d * e <= 100
  BY <1>1, <1>2
<1>3. CASE d * e \in {108, 110, 120, 132}
  BY <1>1, <1>3
<1>4. CASE d = 11 /\ e = 11
  <2>1. x = 11 * (n + m) /\ d * e = 121 /\ n + m \in Nat
    BY <1>4
  <2> QED
    BY <2>1
<1>5. CASE d = 12 /\ e = 12
  <2>1. x = 12 * (n + m) /\ d * e = 144 /\ n + m \in Nat
    BY <1>5
  <2> QED
    BY <2>1
<1> QED
  BY <1>1, <1>2, <1>3, <1>4, <1>5, LargeProducts

-----------------------------------------------------------------------------
(* The gate *)

\* A list of no items counts as one that is vague throughout.
LEMMA ListIsRatio ==
  ASSUME NEW k \in Nat, NEW list \in List(k)
  PROVE  /\ Ratio(list).n \in Nat /\ Ratio(list).d \in Nat /\ Ratio(list).d > 0
         /\ k <= 12 => Ratio(list).d \in 1..12
         /\ ListAmbiguity(list) = Thousandths(Ratio(list).n, Ratio(list).d)
         /\ ListAmbiguity(list) \in Nat
<1>1. list.items \in 0..k /\ list.vague \in 0..k
  BY DEF List
<1>2. CASE list.items = 0
  <2>1. Ratio(list).n = 1 /\ Ratio(list).d = 1 /\ ListAmbiguity(list) = 1000
    BY <1>2 DEF Ratio, ListAmbiguity
  <2> QED
    BY <2>1 DEF Thousandths
<1>3. CASE list.items # 0
  <2>1. /\ Ratio(list).n = list.vague /\ Ratio(list).d = list.items
        /\ ListAmbiguity(list) = Thousandths(list.vague, list.items)
    BY <1>3 DEF Ratio, ListAmbiguity
  <2>2. list.vague \in Nat /\ list.items \in Nat /\ list.items > 0 /\ list.items \in 1..k
    BY <1>1, <1>3
  <2>3. PICK v \in Nat, i \in Nat : v = list.vague /\ i = list.items /\ i > 0
    BY <2>2
  <2>4. Thousandths(v, i) \in Nat
    BY <2>3, ThousandthsNat
  <2> QED
    BY <2>1, <2>2, <2>3, <2>4
<1> QED
  BY <1>2, <1>3

\* The score of some answers is rounded to 0.2 or less.
LEMMA PassedMeans ==
  ASSUME NEW a, Weighted(a) \in Nat
  PROVE  Passed(a) <=> Weighted(a) < 20050
<1> DEFINE w == Weighted(a)
<1>1. Passed(a) <=> (2000 * w + 100000) \div 200000 <= 200
  BY DEF Passed, Thousandths
<1> HIDE DEF w
<1>2. w \in Nat => ((2000 * w + 100000) \div 200000 <= 200 <=> w < 20050)
  OBVIOUS
<1> QED
  BY <1>1, <1>2 DEF w

\* The exact ambiguity of some answers is at most 0.201.
WithinAThousandth(a) ==
  LET c == Ratio(a.constraints)
      u == Ratio(a.success)
      g == ScalarAmbiguity(a.goal) \div 1000
      x == ScalarAmbiguity(a.context) \div 1000
  IN IF a.type = "brownfield"
     THEN 2500 * (c.n * u.d + u.n * c.d) <= (2010 - 3000 * g - 2000 * x) * c.d * u.d
     ELSE 3000 * (c.n * u.d + u.n * c.d) <= (2010 - 4000 * g) * c.d * u.d

\* Answers by what the gate sees of them: whether goal and context are vague,
\* the sum s of the two lists in thousandths and their exact sum x/q.
GateDecides(a, g, c, s, x, q) ==
  /\ a.type = "brownfield" =>
       /\ Passed(a) <=> 30000 * g + 20000 * c + 25 * s < 20050
       /\ Exactly(a) <=> 25 * x <= (20 - 30 * g - 20 * c) * q
       /\ WithinAThousandth(a) <=> 2500 * x <= (2010 - 3000 * g - 2000 * c) * q
  /\ a.type # "brownfield" =>
       /\ Passed(a) <=> 40000 * g + 30 * s < 20050
       /\ Exactly(a) <=> 30 * x <= (20 - 40 * g) * q
       /\ WithinAThousandth(a) <=> 3000 * x <= (2010 - 4000 * g) * q

\* Where rounding takes no sum that lies above a threshold for one on it.
RoundsWell(x, q) ==
  /\ 1000 * x < 669 * q => 3 * x <= 2 * q
  /\ 1000 * x < 802 * q => 5 * x <= 4 * q
  /\ 1000 * x < 2 * q => x = 0

LEMMA WhatTheGateSees ==
  ASSUME NEW k \in Nat, NEW a \in AnswersOver(k)
  PROVE  \E g \in {0, 1}, c \in {0, 1}, s \in Nat, x \in Nat, q \in Nat :
           /\ GateDecides(a, g, c, s, x, q)
           /\ q > 0 /\ q * s <= 1000 * x + q /\ 1000 * x < q * s + q
           /\ k <= 12 => RoundsWell(x, q)
<1> DEFINE g == IF a.goal \in {"none", "vague"} THEN 1 ELSE 0
           c == IF a.context \in {"none", "vague"} THEN 1 ELSE 0
           t == ListAmbiguity(a.constraints)
           u == ListAmbiguity(a.success)
           n == Ratio(a.constraints).n
           m == Ratio(a.success).n
           d == Ratio(a.constraints).d
           e == Ratio(a.success).d
<1>1. a.constraints \in List(k) /\ a.success \in List(k)
  BY DEF AnswersOver
<1>2. /\ n \in Nat /\ d \in Nat /\ d > 0 /\ (k <= 12 => d \in 1..12)
      /\ t = Thousandths(n, d) /\ t \in Nat
  BY <1>1, ListIsRatio
<1>3. /\ m \in Nat /\ e \in Nat /\ e > 0 /\ (k <= 12 => e \in 1..12)
      /\ u = Thousandths(m, e) /\ u \in Nat
  BY <1>1, ListIsRatio
<1>4. /\ ScalarAmbiguity(a.goal) = 1000 * g /\ ScalarAmbiguity(a.context) = 1000 * c
      /\ ScalarAmbiguity(a.goal) \div 1000 = g /\ ScalarAmbiguity(a.context) \div 1000 = c
      /\ g \in {0, 1} /\ c \in {0, 1}
  BY DEF ScalarAmbiguity
<1>5. n * e + m * d \in Nat /\ d * e \in Nat
  BY <1>2, <1>3
<1>6. GateDecides(a, g, c, t + u, n * e + m * d, d * e)
  <2> HIDE DEF g, c, t, u
  <2>1. CASE a.type = "brownfield"
    <3>1. Weighted(a) = 30000 * g + 20000 * c + 25 * (t + u)
      BY <1>2, <1>3, <1>4, <2>1 DEF Weighted, t, u
    <3>2. Passed(a) <=> 30000 * g + 20000 * c + 25 * (t + u) < 20050
      BY <1>2, <1>3, <1>4, <3>1, PassedMeans
    <3>3. Exactly(a) <=> 25 * (n * e + m * d) <= (20 - 30 * g - 20 * c) * d * e
      BY <1>4, <2>1 DEF Exactly
    <3>4. (20 - 30 * g - 20 * c) * d * e = (20 - 30 * g - 20 * c) * (d * e)
      BY <1>2, <1>3, <1>4
    <3>5. WithinAThousandth(a)
            <=> 2500 * (n * e + m * d) <= (2010 - 3000 * g - 2000 * c) * d * e
      BY <1>4, <2>1 DEF WithinAThousandth
    <3>6. (2010 - 3000 * g - 2000 * c) * d * e = (2010 - 3000 * g - 2000 * c) * (d * e)
      BY <1>2, <1>3, <1>4
    <3> QED
      BY <2>1, <3>2, <3>3, <3>4, <3>5, <3>6 DEF GateDecides
  <2>2. CASE a.type # "brownfield"
    <3>1. Weighted(a) = 40000 * g + 30 * (t + u)
      BY <1>2, <1>3, <1>4, <2>2 DEF Weighted, t, u
    <3>2. Passed(a) <=> 40000 * g + 30 * (t + u) < 20050
      BY <1>2, <1>3, <1>4, <3>1, PassedMeans
    <3>3. Exactly(a) <=> 30 * (n * e + m * d) <= (20 - 40 * g) * d * e
      BY <1>4, <2>2 DEF Exactly
    <3>4. (20 - 40 * g) * d * e = (20 - 40 * g) * (d * e)
      BY <1>2, <1>3, <1>4
    <3>5. WithinAThousandth(a) <=> 3000 * (n * e + m * d) <= (2010 - 4000 * g) * d * e
      BY <1>4, <2>2 DEF WithinAThousandth
    <3>6. (2010 - 4000 * g) * d * e = (2010 - 4000 * g) * (d * e)
      BY <1>2, <1>3, <1>4
    <3> QED
      BY <2>2, <3>2, <3>3, <3>4, <3>5, <3>6 DEF GateDecides
  <2> QED
    BY <2>1, <2>2
<1> HIDE DEF g, c, t, u, n, m, d, e
<1>7. t + u \in Nat
  BY <1>2, <1>3
<1>8. /\ d * e > 0
      /\ (d * e) * (t + u) <= 1000 * (n * e + m * d) + d * e
      /\ 1000 * (n * e + m * d) < (d * e) * (t + u) + d * e
  <2>1. PICK v \in Nat, w \in Nat, i \in Nat, j \in Nat, s \in Nat :
          v = n /\ i = d /\ w = m /\ j = e /\ s = t + u
    BY <1>2, <1>3, <1>7
  <2>2. i > 0 /\ j > 0 /\ s = Thousandths(v, i) + Thousandths(w, j)
    BY <1>2, <1>3, <2>1
  <2>3. /\ i * j > 0 /\ (i * j) * s <= 1000 * (v * j + w * i) + i * j
        /\ 1000 * (v * j + w * i) < (i * j) * s + i * j
    BY <2>2, SumNear
  <2> QED
    BY <2>1, <2>3
<1>9. k <= 12 => RoundsWell(n * e + m * d, d * e)
  BY <1>2, <1>3, <1>5, NothingBetween DEF RoundsWell
<1> USE <1>4, <1>5, <1>7
<1> WITNESS g \in {0, 1}, c \in {0, 1}, t + u \in Nat, n * e + m * d \in Nat, d * e \in Nat
<1> QED
  BY <1>6, <1>8, <1>9

\* What the gate decides, by arithmetic on the two sums.
LEMMA GateOnThreshold ==
  ASSUME NEW a, NEW g \in {0, 1}, NEW c \in {0, 1}, NEW s \in Nat, NEW x \in Nat,
         NEW q \in Nat, q > 0, GateDecides(a, g, c, s, x, q),
         q * s <= 1000 * x + q, 1000 * x < q * s + q
  PROVE  /\ Exactly(a) => Passed(a)
         /\ Passed(a) => WithinAThousandth(a)
         /\ RoundsWell(x, q) => (Passed(a) => Exactly(a))
<1>1. /\ 3 * x <= 2 * q => s <= 668
      /\ 5 * x <= 4 * q => s <= 801
      /\ x = 0 => s <= 1
  BY FractionOnThreshold
<1>2. /\ s <= 668 => 1000 * x < 669 * q
      /\ s <= 801 => 1000 * x < 802 * q
      /\ s <= 1 => 1000 * x < 2 * q
  BY SumOnThreshold
<1>3. CASE a.type = "brownfield"
  <2>1. CASE g = 1
    <3>1. ~ Passed(a) /\ (c = 1 => ~ Exactly(a)) /\ (c = 0 => ~ Exactly(a))
      BY <1>3, <2>1 DEF GateDecides
    <3> QED
      BY <3>1
  <2>2. CASE g = 0 /\ c = 0
    BY <1>1, <1>2, <1>3, <2>2 DEF GateDecides, RoundsWell
  <2>3. CASE g = 0 /\ c = 1
    BY <1>1, <1>2, <1>3, <2>3 DEF GateDecides, RoundsWell
  <2> QED
    BY <2>1, <2>2, <2>3
<1>4. CASE a.type # "brownfield"
  <2>1. CASE g = 1
    BY <1>4, <2>1 DEF GateDecides
  <2>2. CASE g = 0
    BY <1>1, <1>2, <1>4, <2>2 DEF GateDecides, RoundsWell
  <2> QED
    BY <2>1, <2>2
<1> QED
  BY <1>3, <1>4

\* For lists of any length, rounding refuses nothing that lies on the threshold
\* or below, and lets nothing through that lies above it by more than 0.001.
\* (Ties, which occur from sixteen items on, are rounded up.)
THEOREM GateIsNearlyExact ==
  ASSUME NEW k \in Nat, NEW a \in AnswersOver(k)
  PROVE  /\ Exactly(a) => Passed(a)
         /\ Passed(a) => WithinAThousandth(a)
<1>1. PICK g \in {0, 1}, c \in {0, 1}, s \in Nat, x \in Nat, q \in Nat :
        /\ GateDecides(a, g, c, s, x, q)
        /\ q > 0 /\ q * s <= 1000 * x + q /\ 1000 * x < q * s + q
  BY WhatTheGateSees
<1> QED
  BY <1>1, GateOnThreshold

\* With lists of up to twelve items, the gate decides as if it computed exactly.
THEOREM GateDecidesExactly ==
  ASSUME MaxItems <= 12
  PROVE  Spec => []GateIsExact
<1>1. ASSUME NEW a \in AnswersOver(MaxItems) PROVE Passed(a) <=> Exactly(a)
  <2>1. MaxItems \in Nat
    BY ConstantsOK
  <2>2. PICK g \in {0, 1}, c \in {0, 1}, s \in Nat, x \in Nat, q \in Nat :
          /\ GateDecides(a, g, c, s, x, q)
          /\ q > 0 /\ q * s <= 1000 * x + q /\ 1000 * x < q * s + q
          /\ RoundsWell(x, q)
    BY <2>1, WhatTheGateSees
  <2> QED
    BY <2>2, GateOnThreshold
<1>2. GateIsExact
  BY <1>1 DEF GateIsExact
<1> QED
  BY <1>2, PTL

-----------------------------------------------------------------------------
(* The parser *)

WordsOver(W) == [word : W, escaped : BOOLEAN, prefix : W]

LineOver(W) ==
  [indent : Nat, item : BOOLEAN, key : W, text : WordsOver(W), quoted : BOOLEAN]

TextOver(W) == [kind : {"text"}, text : WordsOver(W)]

Maps(W, S) == UNION {[D -> S] : D \in SUBSET W}

FieldOver(W) == TextOver(W) \cup [kind : {"list"}, items : Seq(TextOver(W))]
ItemOver(W) == TextOver(W) \cup [kind : {"map"}, map : Maps(W, FieldOver(W))]
ListOver(W) == [kind : {"list"}, items : Seq(ItemOver(W))]
MapOver(W) == [kind : {"map"}, map : Maps(W, FieldOver(W))]
ValueOver(W) == {F!Null} \cup TextOver(W) \cup ListOver(W) \cup MapOver(W)

StateOver(W) ==
  [result : Maps(W, ValueOver(W)), key : W, kind : {"none", "list", "mapping"}, sub : W,
   item : {F!Null} \cup MapOver(W), indent : Nat, listKey : W, ok : BOOLEAN]

\* How the parts of a state fit: the container below the current key is there
\* and has the form its kind says, and an item is only pending in a list.
Shape(W, s) ==
  /\ s.key # F!NoKey => s.key \in DOMAIN s.result
  /\ s.kind = "list" => s.key # F!NoKey /\ s.result[s.key] \in ListOver(W)
  /\ s.kind = "mapping" => s.key # F!NoKey /\ s.result[s.key] \in MapOver(W)
  /\ s.kind = "mapping" /\ s.sub # F!NoKey =>
       /\ s.sub \in DOMAIN s.result[s.key].map
       /\ s.result[s.key].map[s.sub] \in [kind : {"list"}, items : Seq(TextOver(W))]
  /\ s.item # F!Null => s.kind = "list"
  /\ s.listKey # F!NoKey =>
       /\ s.item # F!Null /\ s.listKey \in DOMAIN s.item.map
       /\ s.item.map[s.listKey] \in [kind : {"list"}, items : Seq(TextOver(W))]

\* A word is the text of a field, a map, an item, a value, the result, or of
\* what the state has gathered, below one of the keys K.
FieldHas(v, w) ==
  \/ v.kind = "text" /\ v.text.word = w
  \/ v.kind = "list" /\ \E n \in 1..Len(v.items) : v.items[n].text.word = w

MapHas(m, w, K) == \E k \in DOMAIN m \cap K : FieldHas(m[k], w)

ItemHas(v, w) ==
  \/ v.kind = "text" /\ v.text.word = w
  \/ v.kind = "map" /\ MapHas(v.map, w, DOMAIN v.map)

ValueHas(v, w, K) ==
  \/ v.kind = "text" /\ v.text.word = w
  \/ v.kind = "list" /\ \E n \in 1..Len(v.items) : ItemHas(v.items[n], w)
  \/ v.kind = "map" /\ MapHas(v.map, w, K)

ResultHas(r, w, K) == \E k \in DOMAIN r \cap K : ValueHas(r[k], w, K)

Has(s, w, K) ==
  \/ ResultHas(s.result, w, K)
  \/ s.item # F!Null /\ s.key \in K /\ MapHas(s.item.map, w, K)

\* A state from its parts, which the provers tell apart more easily than the
\* fields of a record that is written out.
Stands(result, key, kind, sub, item, indent, listKey, ok) ==
  [result |-> result, key |-> key, kind |-> kind, sub |-> sub,
   item |-> item, indent |-> indent, listKey |-> listKey, ok |-> ok]

IsState(W, s) ==
  /\ s.result \in Maps(W, ValueOver(W)) /\ s.key \in W /\ s.kind \in {"none", "list", "mapping"}
  /\ s.sub \in W /\ s.item \in {F!Null} \cup MapOver(W) /\ s.indent \in Nat
  /\ s.listKey \in W /\ s.ok \in BOOLEAN

LEMMA StateIs ==
  ASSUME NEW W, F!NoKey \in W, NEW s \in StateOver(W)
  PROVE  IsState(W, s)
BY DEF StateOver, IsState

LEMMA StandsOK ==
  ASSUME NEW W, NEW a, NEW b, NEW c, NEW d, NEW e, NEW f, NEW g, NEW h,
         NEW u, u = Stands(a, b, c, d, e, f, g, h), IsState(W, u)
  PROVE  u \in StateOver(W)
BY DEF StateOver, IsState, Stands

LEMMA Kinds ==
  ASSUME NEW W
  PROVE  /\ F!Null.kind = "null"
         /\ \A v \in TextOver(W) : v.kind = "text" /\ v.text \in WordsOver(W)
         /\ \A v \in ListOver(W) : v.kind = "list" /\ v.items \in Seq(ItemOver(W))
         /\ \A v \in MapOver(W) : v.kind = "map" /\ v.map \in Maps(W, FieldOver(W))
BY DEF F!Null, TextOver, ListOver, MapOver

\* m2 is m with v at k.
IsPut(W, S, m, k, v, m2) ==
  /\ m2 \in Maps(W, S) /\ DOMAIN m2 = DOMAIN m \cup {k} /\ m2[k] = v
  /\ \A j \in DOMAIN m : j # k => m2[j] = m[j]

LEMMA PutIs ==
  ASSUME NEW W, F!NoKey \in W, NEW S, NEW m \in Maps(W, S), NEW k \in W, NEW v \in S
  PROVE  IsPut(W, S, m, k, v, F!Put(m, k, v))
<1>1. PICK D \in SUBSET W : m \in [D -> S]
  BY DEF Maps
<1>2. D \cup {k} \in SUBSET W /\ F!Put(m, k, v) \in [D \cup {k} -> S]
  BY <1>1 DEF F!Put
<1> QED
  BY <1>1, <1>2 DEF Maps, F!Put, IsPut

LEMMA MapsAre ==
  ASSUME NEW W, F!NoKey \in W, NEW S, NEW m \in Maps(W, S)
  PROVE  /\ DOMAIN m \subseteq W /\ \A k \in DOMAIN m : m[k] \in S
         /\ m = [k \in DOMAIN m |-> m[k]]
BY DEF Maps

LEMMA Lengthened ==
  ASSUME NEW W, F!NoKey \in W, NEW S, NEW v \in [kind : {"list"}, items : Seq(S)], NEW item
  PROVE  [v EXCEPT !.items = Append(v.items, item)] = F!ListOf(Append(v.items, item))
<1>1. PICK a : a = Append(v.items, item)
  OBVIOUS
<1>2. v = [kind |-> "list", items |-> v.items]
  OBVIOUS
<1>3. [v EXCEPT !.items = a] = [kind |-> "list", items |-> a]
  BY <1>2
<1> QED
  BY <1>1, <1>3 DEF F!ListOf

\* Appending to a list in a map is putting the longer list there.
LEMMA AddsIs ==
  ASSUME NEW W, F!NoKey \in W, NEW s \in StateOver(W), s.key \in DOMAIN s.result,
         s.result[s.key] \in ListOver(W), NEW item
  PROVE  F!Adds(s, item) =
           [s EXCEPT !.result =
             F!Put(s.result, s.key, F!ListOf(Append(s.result[s.key].items, item)))]
<1>1. PICK r \in Maps(W, ValueOver(W)), k \in W : r = s.result /\ k = s.key
  BY DEF StateOver
<1>2. k \in DOMAIN r /\ r[k] \in ListOver(W) /\ r = [j \in DOMAIN r |-> r[j]]
  BY <1>1, MapsAre
<1>3. [r[k] EXCEPT !.items = Append(r[k].items, item)] = F!ListOf(Append(r[k].items, item))
  BY <1>2, Lengthened DEF ListOver
<1>4. [r EXCEPT ![k] = F!ListOf(Append(r[k].items, item))] =
        F!Put(r, k, F!ListOf(Append(r[k].items, item)))
  BY <1>2 DEF F!Put
<1> QED
  BY <1>1, <1>2, <1>3, <1>4 DEF F!Adds, StateOver

LEMMA AppendHas ==
  ASSUME NEW W, F!NoKey \in W, NEW r \in Maps(W, ValueOver(W)), NEW k \in DOMAIN r,
         r[k] \in ListOver(W), NEW item \in ItemOver(W)
  PROVE  LET r2 == F!Put(r, k, F!ListOf(Append(r[k].items, item)))
         IN /\ r2 \in Maps(W, ValueOver(W)) /\ DOMAIN r2 = DOMAIN r /\ r2[k] \in ListOver(W)
            /\ \A j \in DOMAIN r : j # k => r2[j] = r[j]
            /\ \A w, K : ResultHas(r, w, K) => ResultHas(r2, w, K)
            /\ \A w, K : k \in K /\ ItemHas(item, w) => ResultHas(r2, w, K)
<1>1. PICK l \in Seq(ItemOver(W)) : l = r[k].items
  BY DEF ListOver
<1>2. PICK v : v = F!ListOf(Append(l, item))
  OBVIOUS
<1>3. /\ v \in ListOver(W) /\ Len(v.items) = Len(l) + 1 /\ v.items[Len(l) + 1] = item
      /\ \A n \in 1..Len(l) : v.items[n] = l[n]
  BY <1>2 DEF F!ListOf, ListOver
<1>4. PICK r2 : r2 = F!Put(r, k, v)
  OBVIOUS
<1>5. v \in ValueOver(W) /\ k \in W
  BY <1>3, MapsAre DEF ValueOver
<1>6. r2 \in Maps(W, ValueOver(W)) /\ DOMAIN r2 = DOMAIN r /\ r2[k] = v
        /\ \A j \in DOMAIN r : j # k => r2[j] = r[j]
  <2>1. DOMAIN r \cup {k} = DOMAIN r
    OBVIOUS
  <2>2. /\ r2 \in Maps(W, ValueOver(W)) /\ DOMAIN r2 = DOMAIN r \cup {k} /\ r2[k] = v
        /\ \A j \in DOMAIN r : j # k => r2[j] = r[j]
    <3>1. IsPut(W, ValueOver(W), r, k, v, r2)
      BY <1>4, <1>5, PutIs
    <3> QED
      BY <3>1 DEF IsPut
  <2> QED
    BY <2>1, <2>2
<1>7. ASSUME NEW w, NEW K, ResultHas(r, w, K) PROVE ResultHas(r2, w, K)
  <2>1. PICK j \in DOMAIN r \cap K : ValueHas(r[j], w, K)
    BY <1>7 DEF ResultHas
  <2>2. CASE j # k
    BY <1>6, <2>1, <2>2 DEF ResultHas
  <2>3. CASE j = k
    <3>1. PICK n \in 1..Len(l) : ItemHas(l[n], w)
      BY <1>1, <2>1, <2>3, Kinds DEF ValueHas
    <3>2. n \in 1..Len(v.items) /\ v.items[n] = l[n]
      BY <1>3
    <3>3. ValueHas(r2[j], w, K)
      BY <1>3, <1>6, <2>3, <3>1, <3>2, Kinds DEF ValueHas
    <3> QED
      BY <1>6, <2>1, <3>3 DEF ResultHas
  <2> QED
    BY <2>2, <2>3
<1>8. ASSUME NEW w, NEW K, k \in K, ItemHas(item, w) PROVE ResultHas(r2, w, K)
  <2>1. Len(l) + 1 \in 1..Len(v.items)
    BY <1>3
  <2>2. ValueHas(r2[k], w, K)
    BY <1>3, <1>6, <1>8, <2>1, Kinds DEF ValueHas
  <2> QED
    BY <1>6, <1>8, <2>2 DEF ResultHas
<1> QED
  BY <1>1, <1>2, <1>3, <1>4, <1>6, <1>7, <1>8

\* u is s without a pending item, and with every text s has.
IsFlushed(W, s, u) ==
  /\ u \in StateOver(W) /\ Shape(W, u) /\ u.item = F!Null /\ u.listKey = F!NoKey
  /\ u.key = s.key /\ u.kind = s.kind /\ u.sub = s.sub /\ u.ok = s.ok
  /\ \A w, K : Has(s, w, K) => ResultHas(u.result, w, K)

\* Flushing loses nothing.
LEMMA Flushed ==
  ASSUME NEW W, F!NoKey \in W, NEW s \in StateOver(W), Shape(W, s)
  PROVE  IsFlushed(W, s, F!Flush(s))
<1>1. CASE s.item = F!Null
  <2>1. F!Flush(s) = s
    BY <1>1 DEF F!Flush
  <2>2. s.listKey = F!NoKey
    BY <1>1 DEF Shape
  <2> QED
    BY <1>1, <2>1, <2>2 DEF IsFlushed, Has
<1>2. CASE s.item # F!Null
  <2>1. s.kind = "list" /\ s.key # F!NoKey /\ s.key \in DOMAIN s.result
          /\ s.result[s.key] \in ListOver(W)
    BY <1>2 DEF Shape
  <2>2. s.item \in MapOver(W)
    BY <1>2 DEF StateOver
  <2>3. PICK r \in Maps(W, ValueOver(W)) : r = s.result
    BY DEF StateOver
  <2>4. PICK r2 : r2 = F!Put(r, s.key, F!ListOf(Append(r[s.key].items, s.item)))
    OBVIOUS
  <2>5. /\ r2 \in Maps(W, ValueOver(W)) /\ DOMAIN r2 = DOMAIN r /\ r2[s.key] \in ListOver(W)
        /\ \A w, K : ResultHas(r, w, K) => ResultHas(r2, w, K)
        /\ \A w, K : s.key \in K /\ ItemHas(s.item, w) => ResultHas(r2, w, K)
    <3>1. s.item \in ItemOver(W)
      BY <2>2 DEF ItemOver, MapOver
    <3> QED
      BY <2>1, <2>3, <2>4, <3>1, AppendHas
  <2>6. PICK u : u = F!Flush(s)
    OBVIOUS
  <2>7. u = [s EXCEPT !.result = r2, !.item = F!Null, !.indent = 0, !.listKey = F!NoKey]
    <3>1. F!Adds(s, s.item) = [s EXCEPT !.result = r2]
      BY <2>1, <2>3, <2>4, AddsIs
    <3>2. F!Flush(s) =
            [[s EXCEPT !.result = r2] EXCEPT !.item = F!Null, !.indent = 0, !.listKey = F!NoKey]
      BY <1>2, <3>1 DEF F!Flush
    <3> QED
      BY <2>6, <3>2 DEF StateOver
  <2>8. /\ u \in StateOver(W) /\ u.result = r2 /\ u.item = F!Null /\ u.listKey = F!NoKey
        /\ u.key = s.key /\ u.kind = s.kind /\ u.sub = s.sub /\ u.ok = s.ok
    <3>1. u = Stands(r2, s.key, s.kind, s.sub, F!Null, 0, F!NoKey, s.ok)
      BY <2>7 DEF StateOver, Stands
    <3>2. IsState(W, s)
      BY StateIs
    <3>3. F!NoKey \in W
      OBVIOUS
    <3>4. /\ u.result = r2 /\ u.item = F!Null /\ u.indent = 0 /\ u.listKey = F!NoKey
          /\ u.key = s.key /\ u.kind = s.kind /\ u.sub = s.sub /\ u.ok = s.ok
      BY <3>1 DEF Stands
    <3>5. IsState(W, u)
      BY <2>5, <3>2, <3>3, <3>4 DEF IsState
    <3>6. u \in StateOver(W)
      BY <3>1, <3>5, StandsOK, Zenon
    <3> QED
      BY <3>4, <3>6
  <2>9. Shape(W, u)
    BY <2>1, <2>3, <2>5, <2>8 DEF Shape
  <2>10. ASSUME NEW w, NEW K, Has(s, w, K) PROVE ResultHas(u.result, w, K)
    <3>1. CASE ResultHas(s.result, w, K)
      BY <2>3, <2>5, <2>8, <3>1
    <3>2. CASE s.key \in K /\ MapHas(s.item.map, w, K)
      <4>1. DOMAIN s.item.map \subseteq W
        BY <2>2, MapsAre DEF MapOver
      <4>2. ItemHas(s.item, w)
        BY <2>2, <3>2, <4>1, Kinds DEF ItemHas, MapHas
      <4> QED
        BY <2>5, <2>8, <3>2, <4>2
    <3> QED
      BY <2>10, <3>1, <3>2 DEF Has
  <2> QED
    BY <2>6, <2>8, <2>9, <2>10 DEF IsFlushed
<1> QED
  BY <1>1, <1>2

-----------------------------------------------------------------------------
(* One line *)

\* What a line leaves of what was there, and what it adds.
Advances(W, s, line, t) ==
  /\ t \in StateOver(W) /\ Shape(W, t)
  /\ t.key \in {s.key, line.key} /\ t.sub \in {s.sub, line.key, F!NoKey}
  /\ t.listKey \in {s.listKey, line.key, F!NoKey}
  /\ t.kind = "none" => line.indent = 0 /\ t.key = line.key /\ ~ line.item
  /\ \A w, K : Has(s, w, K) =>
       \/ Has(t, w, K)
       \/ line.key \in K /\ ~ line.item
       \/ s.kind = "none" /\ s.key \in K /\ line.indent # 0
  /\ \A K : {s.key, s.sub, s.listKey, line.key} \ {F!NoKey} \subseteq K =>
       line.text.word = "" \/ Has(t, line.text.word, K)

LEMMA PutHas ==
  ASSUME NEW r, NEW k, NEW v
  PROVE  /\ \A w, K : ResultHas(r, w, K) => ResultHas(F!Put(r, k, v), w, K) \/ k \in K
         /\ \A w, K : k \in K /\ ValueHas(v, w, K) => ResultHas(F!Put(r, k, v), w, K)
         /\ \A w, K : MapHas(r, w, K) => MapHas(F!Put(r, k, v), w, K) \/ k \in K
         /\ \A w, K : k \in K /\ FieldHas(v, w) => MapHas(F!Put(r, k, v), w, K)
<1>1. PICK r2 : r2 = F!Put(r, k, v)
  OBVIOUS
<1>2. DOMAIN r2 = DOMAIN r \cup {k} /\ r2[k] = v /\ \A j \in DOMAIN r : j # k => r2[j] = r[j]
  BY <1>1 DEF F!Put
<1>3. \A w, K : ResultHas(r, w, K) => ResultHas(r2, w, K) \/ k \in K
  BY <1>2 DEF ResultHas
<1>4. \A w, K : k \in K /\ ValueHas(v, w, K) => ResultHas(r2, w, K)
  BY <1>2 DEF ResultHas
<1>5. \A w, K : MapHas(r, w, K) => MapHas(r2, w, K) \/ k \in K
  BY <1>2 DEF MapHas
<1>6. \A w, K : k \in K /\ FieldHas(v, w) => MapHas(r2, w, K)
  BY <1>2 DEF MapHas
<1> QED
  BY <1>1, <1>3, <1>4, <1>5, <1>6

\* A line that is no item has no dash if it has a key.
LEMMA NoDash ==
  ASSUME NEW W, NEW line \in LineOver(W), ~ F!IsItem(line), line.key # F!NoKey
  PROVE  ~ line.item
BY DEF F!IsItem, LineOver

LEMMA BlankIsEmpty ==
  ASSUME NEW W, NEW line \in LineOver(W), F!Blank(line)
  PROVE  line.text.word = ""
<1>1. line.text = F!NoText
  BY DEF F!Blank
<1>2. F!NoText.word = ""
  BY Zenon DEF F!NoText, F!Text
<1> QED
  BY <1>1, <1>2

LEMMA ScalarIs ==
  ASSUME NEW W, NEW line \in LineOver(W)
  PROVE  /\ F!Scalar(line.text) \in TextOver(W) /\ FieldHas(F!Scalar(line.text), line.text.word)
         /\ \A K : ValueHas(F!Scalar(line.text), line.text.word, K)
         /\ F!ItemText(line) \in TextOver(W) /\ F!ItemText(line).text.word = line.text.word
         /\ ItemHas(F!ItemText(line), line.text.word)
<1>1. line.text \in WordsOver(W) /\ line.key \in W
  BY DEF LineOver
<1>2. F!Scalar(line.text) \in TextOver(W) /\ F!Scalar(line.text).kind = "text"
        /\ F!Scalar(line.text).text = line.text
  BY <1>1 DEF F!Scalar, TextOver
<1>3. PICK x : x = [line.text EXCEPT !.prefix = line.key]
  OBVIOUS
<1>4. x \in WordsOver(W) /\ x.word = line.text.word
  BY <1>1, <1>3 DEF WordsOver
<1>5. F!ItemText(line) \in TextOver(W) /\ F!ItemText(line).kind = "text"
        /\ F!ItemText(line).text = x
  BY <1>3, <1>4 DEF F!ItemText, F!Scalar, TextOver
<1> QED
  BY <1>2, <1>4, <1>5 DEF FieldHas, ValueHas, ItemHas

LEMMA TopLevelAdvances ==
  ASSUME NEW W, F!NoKey \in W, NEW s \in StateOver(W), Shape(W, s), NEW line \in LineOver(W),
         line.indent = 0, ~ F!IsItem(line), line.key # F!NoKey
  PROVE  Advances(W, s, line, F!HandleTopLevel(s, line))
<1>1. PICK u : u = F!Flush(s)
  OBVIOUS
<1>2. IsFlushed(W, s, u)
  BY <1>1, Flushed
<1>3. PICK v : v = IF F!Blank(line) THEN F!Null ELSE F!Scalar(line.text)
  OBVIOUS
<1>4. v \in ValueOver(W) /\ line.key \in W /\ ~ line.item
  BY <1>3, ScalarIs, NoDash DEF ValueOver, LineOver
<1>5. PICK r, r2 : r \in Maps(W, ValueOver(W)) /\ r = u.result /\ r2 = F!Put(r, line.key, v)
  BY <1>2, StateIs DEF IsFlushed, IsState
<1>6. r2 \in Maps(W, ValueOver(W)) /\ DOMAIN r2 = DOMAIN r \cup {line.key}
  <2>1. IsPut(W, ValueOver(W), r, line.key, v, r2)
    BY <1>4, <1>5, PutIs
  <2> QED
    BY <2>1 DEF IsPut
<1>7. PICK t : t = F!HandleTopLevel(s, line)
  OBVIOUS
<1>8. t = [u EXCEPT !.sub = F!NoKey, !.key = line.key, !.kind = "none", !.result = r2]
  BY <1>1, <1>3, <1>5, <1>7 DEF F!HandleTopLevel
<1>9. t = Stands(r2, line.key, "none", F!NoKey, F!Null, u.indent, F!NoKey, u.ok)
  BY <1>2, <1>8 DEF IsFlushed, StateOver, Stands
<1>10. /\ t.result = r2 /\ t.key = line.key /\ t.kind = "none" /\ t.sub = F!NoKey
       /\ t.item = F!Null /\ t.indent = u.indent /\ t.listKey = F!NoKey /\ t.ok = u.ok
  BY <1>9 DEF Stands
<1>11. t \in StateOver(W)
  <2>1. u.indent \in Nat /\ u.ok \in BOOLEAN
    BY <1>2, StateIs DEF IsFlushed, IsState
  <2>2. IsState(W, t)
    BY <1>4, <1>6, <1>10, <2>1 DEF IsState
  <2> QED
    BY <1>9, <2>2, StandsOK, Zenon
<1>12. Shape(W, t)
  BY <1>6, <1>10 DEF Shape
<1>13. ASSUME NEW w, NEW K, Has(s, w, K) PROVE Has(t, w, K) \/ line.key \in K
  <2>1. ResultHas(r, w, K)
    BY <1>2, <1>5, <1>13 DEF IsFlushed
  <2>2. ResultHas(r2, w, K) \/ line.key \in K
    BY <1>5, <2>1, PutHas, Zenon
  <2> QED
    BY <1>10, <2>2 DEF Has
<1>14. ASSUME NEW K, line.key \in K, ~ F!Blank(line) PROVE Has(t, line.text.word, K)
  <2>1. ValueHas(v, line.text.word, K)
    BY <1>3, <1>14, ScalarIs
  <2>2. ResultHas(r2, line.text.word, K)
    BY <1>5, <1>14, <2>1, PutHas, Zenon
  <2> QED
    BY <1>10, <2>2 DEF Has
<1>15. ASSUME NEW K, {s.key, s.sub, s.listKey, line.key} \ {F!NoKey} \subseteq K
       PROVE  line.text.word = "" \/ Has(t, line.text.word, K)
  BY <1>14, <1>15, BlankIsEmpty
<1> QED
  BY <1>4, <1>7, <1>10, <1>11, <1>12, <1>13, <1>15 DEF Advances

LEMMA SetIs ==
  ASSUME NEW W, F!NoKey \in W, NEW s \in StateOver(W), s.key \in DOMAIN s.result, NEW v
  PROVE  [s.result EXCEPT ![s.key] = v] = F!Put(s.result, s.key, v)
<1>1. PICK r \in Maps(W, ValueOver(W)), k \in W : r = s.result /\ k = s.key
  BY StateIs DEF IsState
<1>2. k \in DOMAIN r /\ r = [j \in DOMAIN r |-> r[j]]
  BY <1>1, MapsAre
<1>3. [r EXCEPT ![k] = v] = F!Put(r, k, v)
  BY <1>2 DEF F!Put
<1> QED
  BY <1>1, <1>3

\* Below a key, whose scalar they replace, or in its mapping.
LEMMA MappingAdvances ==
  ASSUME NEW W, F!NoKey \in W, NEW s \in StateOver(W), Shape(W, s), NEW line \in LineOver(W),
         line.indent # 0, ~ F!IsItem(line), line.key # F!NoKey, s.key # F!NoKey, s.kind # "list"
  PROVE  Advances(W, s, line, F!HandleMappingEntry(s, line))
<1>1. PICK map : map = IF s.kind = "mapping" THEN s.result[s.key].map ELSE F!EmptyMap
  OBVIOUS
<1>2. map \in Maps(W, FieldOver(W))
  <2>1. CASE s.kind = "mapping"
    BY <1>1, <2>1, Kinds DEF Shape
  <2>2. CASE s.kind # "mapping"
    <3>1. F!EmptyMap \in [{} -> FieldOver(W)] /\ {} \in SUBSET W
      BY DEF F!EmptyMap
    <3> QED
      BY <1>1, <2>2, <3>1 DEF Maps
  <2> QED
    BY <2>1, <2>2
<1>3. PICK value : value = IF F!Blank(line) THEN F!ListOf(<<>>) ELSE F!Scalar(line.text)
  OBVIOUS
<1>4. /\ value \in FieldOver(W) /\ line.key \in W /\ ~ line.item
      /\ F!Blank(line) => value \in [kind : {"list"}, items : Seq(TextOver(W))]
  <2>1. F!ListOf(<<>>) \in [kind : {"list"}, items : Seq(TextOver(W))]
    BY DEF F!ListOf
  <2> QED
    BY <1>3, <2>1, ScalarIs, NoDash DEF FieldOver, LineOver
<1>5. PICK map2 : map2 = F!Put(map, line.key, value)
  OBVIOUS
<1>6. /\ map2 \in Maps(W, FieldOver(W)) /\ DOMAIN map2 = DOMAIN map \cup {line.key}
      /\ map2[line.key] = value
  <2>1. IsPut(W, FieldOver(W), map, line.key, value, map2)
    BY <1>2, <1>4, <1>5, PutIs
  <2> QED
    BY <2>1 DEF IsPut
<1>7. PICK v : v = F!MapOf(map2)
  OBVIOUS
<1>8. v \in MapOver(W) /\ v \in ValueOver(W) /\ v.kind = "map" /\ v.map = map2
  BY <1>6, <1>7 DEF F!MapOf, MapOver, ValueOver
<1>9. PICK r, r2 : r \in Maps(W, ValueOver(W)) /\ r = s.result /\ r2 = F!Put(r, s.key, v)
  BY StateIs DEF IsState
<1>10. s.key \in DOMAIN r /\ s.key \in W
  BY <1>9, StateIs DEF Shape, IsState
<1>11. /\ r2 \in Maps(W, ValueOver(W)) /\ DOMAIN r2 = DOMAIN r \cup {s.key} /\ r2[s.key] = v
       /\ \A j \in DOMAIN r : j # s.key => r2[j] = r[j]
  <2>1. IsPut(W, ValueOver(W), r, s.key, v, r2)
    BY <1>8, <1>9, <1>10, PutIs
  <2> QED
    BY <2>1 DEF IsPut
<1>12. PICK t, sub : /\ t = F!HandleMappingEntry(s, line)
                     /\ sub = IF F!Blank(line) THEN line.key ELSE F!NoKey
  OBVIOUS
<1>13. t = [s EXCEPT !.result = r2, !.kind = "mapping", !.sub = sub]
  <2>1. t = [s EXCEPT !.result[s.key] = v, !.kind = "mapping", !.sub = sub]
    BY <1>1, <1>3, <1>5, <1>7, <1>12 DEF F!HandleMappingEntry
  <2>2. [s.result EXCEPT ![s.key] = v] = r2
    BY <1>9, <1>10, SetIs
  <2> QED
    BY <2>1, <2>2 DEF StateOver
<1>14. s.item = F!Null /\ s.listKey = F!NoKey
  BY DEF Shape
<1>15. t = Stands(r2, s.key, "mapping", sub, F!Null, s.indent, F!NoKey, s.ok)
  BY <1>13, <1>14 DEF StateOver, Stands
<1>16. /\ t.result = r2 /\ t.key = s.key /\ t.kind = "mapping" /\ t.sub = sub /\ t.item = F!Null
       /\ t.indent = s.indent /\ t.listKey = F!NoKey /\ t.ok = s.ok
  BY <1>15 DEF Stands
<1>17. t \in StateOver(W)
  <2>1. s.indent \in Nat /\ s.ok \in BOOLEAN
    BY StateIs DEF IsState
  <2>2. IsState(W, t)
    BY <1>4, <1>10, <1>11, <1>12, <1>16, <2>1 DEF IsState
  <2> QED
    BY <1>15, <2>2, StandsOK, Zenon
<1>18. Shape(W, t)
  BY <1>4, <1>6, <1>8, <1>11, <1>12, <1>16 DEF Shape
<1>19. ASSUME NEW w, NEW K, Has(s, w, K)
       PROVE  Has(t, w, K) \/ line.key \in K \/ (s.kind = "none" /\ s.key \in K)
  <2>1. PICK k \in DOMAIN r \cap K : ValueHas(r[k], w, K)
    BY <1>9, <1>14, <1>19 DEF Has, ResultHas
  <2>2. CASE k # s.key
    <3>1. k \in DOMAIN r2 \cap K /\ ValueHas(r2[k], w, K)
      BY <1>11, <2>1, <2>2
    <3>2. ResultHas(r2, w, K)
      BY <3>1 DEF ResultHas
    <3>3. ResultHas(t.result, w, K)
      BY <1>16, <3>2
    <3> QED
      BY <3>3 DEF Has
  <2>3. CASE k = s.key /\ s.kind = "mapping"
    <3>1. MapHas(map, w, K)
      BY <1>1, <1>9, <2>1, <2>3, Kinds DEF ValueHas, Shape
    <3>2. MapHas(map2, w, K) \/ line.key \in K
      BY <1>5, <3>1, PutHas, Zenon
    <3>3. MapHas(map2, w, K) => ValueHas(v, w, K)
      BY <1>8 DEF ValueHas
    <3> QED
      BY <1>11, <1>16, <2>1, <2>3, <3>2, <3>3 DEF Has, ResultHas
  <2>4. CASE k = s.key /\ s.kind = "none"
    BY <2>1, <2>4
  <2> QED
    BY <2>2, <2>3, <2>4, StateIs DEF IsState
<1>20. ASSUME NEW K, line.key \in K, s.key \in K, ~ F!Blank(line) PROVE Has(t, line.text.word, K)
  <2>1. FieldHas(value, line.text.word)
    BY <1>3, <1>20, ScalarIs
  <2>2. MapHas(map2, line.text.word, K)
    BY <1>5, <1>20, <2>1, PutHas, Zenon
  <2>3. ValueHas(v, line.text.word, K)
    BY <1>8, <2>2 DEF ValueHas
  <2> QED
    BY <1>11, <1>16, <1>20, <2>3 DEF Has, ResultHas
<1>21. ASSUME NEW K, {s.key, s.sub, s.listKey, line.key} \ {F!NoKey} \subseteq K
       PROVE  line.text.word = "" \/ Has(t, line.text.word, K)
  BY <1>20, <1>21, BlankIsEmpty
<1>22. t.key \in {s.key, line.key} /\ t.sub \in {s.sub, line.key, F!NoKey}
       /\ t.listKey \in {s.listKey, line.key, F!NoKey} /\ t.kind # "none"
  BY <1>12, <1>16
<1> QED
  BY <1>4, <1>12, <1>17, <1>18, <1>19, <1>21, <1>22 DEF Advances

\* What an item is added to: the list below a key, which has nothing pending.
IsListed(W, s, l) ==
  /\ l \in StateOver(W) /\ Shape(W, l) /\ l.item = F!Null /\ l.listKey = F!NoKey
  /\ l.key = s.key /\ l.kind = "list" /\ l.sub = s.sub
  /\ \A w, K : Has(s, w, K) => ResultHas(l.result, w, K) \/ (s.kind = "none" /\ s.key \in K)

\* The state HandleListItem adds to.
Listed(s) ==
  IF s.kind = "list" THEN F!Flush(s)
  ELSE [s EXCEPT !.result[s.key] = F!ListOf(<<>>), !.kind = "list"]

LEMMA ListStarts ==
  ASSUME NEW W, F!NoKey \in W, NEW s \in StateOver(W), Shape(W, s), s.key # F!NoKey,
         s.kind # "mapping"
  PROVE  IsListed(W, s, Listed(s))
<1>1. CASE s.kind = "list"
  <2>1. PICK u : u = F!Flush(s)
    OBVIOUS
  <2>2. IsFlushed(W, s, u)
    BY <2>1, Flushed
  <2>3. IsListed(W, s, u)
    BY <1>1, <2>2 DEF IsFlushed, IsListed
  <2> QED
    BY <1>1, <2>1, <2>3 DEF Listed
<1>2. CASE s.kind # "list"
  <2>1. PICK v : v = F!ListOf(<<>>)
    OBVIOUS
  <2>2. v \in ListOver(W) /\ v \in ValueOver(W)
    BY <2>1 DEF F!ListOf, ListOver, ValueOver
  <2>3. PICK r, r2 : r \in Maps(W, ValueOver(W)) /\ r = s.result /\ r2 = F!Put(r, s.key, v)
    BY StateIs DEF IsState
  <2>4. s.key \in DOMAIN r /\ s.key \in W
    BY <2>3, StateIs DEF Shape, IsState
  <2>5. /\ r2 \in Maps(W, ValueOver(W)) /\ DOMAIN r2 = DOMAIN r \cup {s.key} /\ r2[s.key] = v
        /\ \A j \in DOMAIN r : j # s.key => r2[j] = r[j]
    <3>1. IsPut(W, ValueOver(W), r, s.key, v, r2)
      BY <2>2, <2>3, <2>4, PutIs
    <3> QED
      BY <3>1 DEF IsPut
  <2>6. PICK t : t = Listed(s)
    OBVIOUS
  <2>7. t = [s EXCEPT !.result = r2, !.kind = "list"]
    <3>1. t = [s EXCEPT !.result[s.key] = v, !.kind = "list"]
      BY <1>2, <2>1, <2>6 DEF Listed
    <3>2. [s.result EXCEPT ![s.key] = v] = r2
      BY <2>3, <2>4, SetIs
    <3> QED
      BY <3>1, <3>2 DEF StateOver
  <2>8. s.item = F!Null /\ s.listKey = F!NoKey /\ s.kind = "none"
    BY <1>2, StateIs DEF Shape, IsState
  <2>9. t = Stands(r2, s.key, "list", s.sub, F!Null, s.indent, F!NoKey, s.ok)
    BY <2>7, <2>8 DEF StateOver, Stands
  <2>10. /\ t.result = r2 /\ t.key = s.key /\ t.kind = "list" /\ t.sub = s.sub /\ t.item = F!Null
         /\ t.indent = s.indent /\ t.listKey = F!NoKey /\ t.ok = s.ok
    BY <2>9 DEF Stands
  <2>11. t \in StateOver(W)
    <3>1. s.indent \in Nat /\ s.ok \in BOOLEAN /\ s.sub \in W
      BY StateIs DEF IsState
    <3>2. IsState(W, t)
      BY <2>4, <2>5, <2>10, <3>1 DEF IsState
    <3> QED
      BY <2>9, <3>2, StandsOK, Zenon
  <2>12. Shape(W, t)
    BY <2>2, <2>5, <2>10 DEF Shape
  <2>13. ASSUME NEW w, NEW K, Has(s, w, K) PROVE ResultHas(t.result, w, K) \/ s.key \in K
    <3>1. ResultHas(r, w, K)
      BY <2>3, <2>8, <2>13 DEF Has
    <3>2. ResultHas(r2, w, K) \/ s.key \in K
      BY <2>3, <3>1, PutHas, Zenon
    <3> QED
      BY <2>10, <3>2
  <2> QED
    <3>1. \A w, K : Has(s, w, K) => ResultHas(t.result, w, K) \/ (s.kind = "none" /\ s.key \in K)
      BY <2>8, <2>13
    <3>2. IsListed(W, s, t)
      BY <2>10, <2>11, <2>12, <3>1 DEF IsListed
    <3> QED
      BY <2>6, <3>2
<1> QED
  BY <1>1, <1>2

\* An item without a key is added at once.
LEMMA TextItemAdvances ==
  ASSUME NEW W, F!NoKey \in W, NEW s \in StateOver(W), Shape(W, s), NEW line \in LineOver(W),
         line.indent # 0, s.key # F!NoKey, s.kind # "mapping"
  PROVE  Advances(W, s, line, F!Adds(Listed(s), F!ItemText(line)))
<1>1. PICK l : l = Listed(s)
  OBVIOUS
<1>2. IsListed(W, s, l)
  BY <1>1, ListStarts
<1>3. l \in StateOver(W) /\ l.key = s.key /\ s.key \in DOMAIN l.result
        /\ l.result[s.key] \in ListOver(W)
  BY <1>2 DEF IsListed, Shape
<1>4. PICK item \in ItemOver(W) : item = F!ItemText(line)
  BY ScalarIs DEF ItemOver
<1>5. PICK r, r2 : r \in Maps(W, ValueOver(W)) /\
        r = l.result /\ r2 = F!Put(r, s.key, F!ListOf(Append(r[s.key].items, item)))
  BY <1>3, StateIs DEF IsState
<1>6. /\ r2 \in Maps(W, ValueOver(W)) /\ DOMAIN r2 = DOMAIN r /\ r2[s.key] \in ListOver(W)
      /\ \A w, K : ResultHas(r, w, K) => ResultHas(r2, w, K)
      /\ \A w, K : s.key \in K /\ ItemHas(item, w) => ResultHas(r2, w, K)
  BY <1>3, <1>5, AppendHas
<1>7. PICK t : t = F!Adds(l, item)
  OBVIOUS
<1>8. t = [l EXCEPT !.result = r2]
  BY <1>3, <1>5, <1>7, AddsIs
<1>9. t = Stands(r2, s.key, "list", s.sub, F!Null, l.indent, F!NoKey, l.ok)
  BY <1>2, <1>3, <1>8 DEF IsListed, StateOver, Stands
<1>10. /\ t.result = r2 /\ t.key = s.key /\ t.kind = "list" /\ t.sub = s.sub /\ t.item = F!Null
       /\ t.indent = l.indent /\ t.listKey = F!NoKey /\ t.ok = l.ok
  BY <1>9 DEF Stands
<1>11. t \in StateOver(W)
  <2>1. l.indent \in Nat /\ l.ok \in BOOLEAN /\ s.key \in W /\ s.sub \in W
    BY <1>3, StateIs DEF IsState
  <2>2. IsState(W, t)
    BY <1>6, <1>10, <2>1 DEF IsState
  <2> QED
    BY <1>9, <2>2, StandsOK, Zenon
<1>12. Shape(W, t)
  BY <1>3, <1>5, <1>6, <1>10 DEF Shape
<1>13. ASSUME NEW w, NEW K, Has(s, w, K)
       PROVE  Has(t, w, K) \/ (s.kind = "none" /\ s.key \in K)
  <2>1. ResultHas(r, w, K) \/ (s.kind = "none" /\ s.key \in K)
    BY <1>2, <1>5, <1>13 DEF IsListed
  <2> QED
    BY <1>6, <1>10, <2>1 DEF Has
<1>14. ASSUME NEW K, {s.key, s.sub, s.listKey, line.key} \ {F!NoKey} \subseteq K
       PROVE  Has(t, line.text.word, K)
  <2>1. s.key \in K
    BY <1>14
  <2>2. ItemHas(item, line.text.word)
    BY <1>4, ScalarIs
  <2> QED
    BY <1>6, <1>10, <2>1, <2>2 DEF Has
<1> QED
  BY <1>1, <1>4, <1>7, <1>10, <1>11, <1>12, <1>13, <1>14 DEF Advances

\* One with a key is pending until the next.
LEMMA KeyItemAdvances ==
  ASSUME NEW W, F!NoKey \in W, NEW s \in StateOver(W), Shape(W, s), NEW line \in LineOver(W),
         line.indent # 0, s.key # F!NoKey, s.kind # "mapping", line.key # F!NoKey, NEW h,
         h = [Listed(s) EXCEPT !.item = F!MapOf(F!Put(F!EmptyMap, line.key, F!Scalar(line.text))),
                !.indent = line.indent, !.listKey = F!NoKey]
  PROVE  Advances(W, s, line, h)
<1>1. PICK l : l = Listed(s)
  OBVIOUS
<1>2. IsListed(W, s, l)
  BY <1>1, ListStarts
<1>3. l \in StateOver(W) /\ l.key = s.key /\ s.key \in DOMAIN l.result
        /\ l.result[s.key] \in ListOver(W)
  BY <1>2 DEF IsListed, Shape
<1>4. PICK map : map = F!Put(F!EmptyMap, line.key, F!Scalar(line.text))
  OBVIOUS
<1>5. map \in Maps(W, FieldOver(W)) /\ line.indent \in Nat
  <2>1. F!EmptyMap \in Maps(W, FieldOver(W))
    <3>1. F!EmptyMap \in [{} -> FieldOver(W)] /\ {} \in SUBSET W
      BY DEF F!EmptyMap
    <3> QED
      BY <3>1 DEF Maps
  <2>2. line.key \in W /\ F!Scalar(line.text) \in FieldOver(W) /\ line.indent \in Nat
    BY ScalarIs DEF FieldOver, LineOver
  <2>3. IsPut(W, FieldOver(W), F!EmptyMap, line.key, F!Scalar(line.text), map)
    BY <1>4, <2>1, <2>2, PutIs
  <2> QED
    BY <2>2, <2>3 DEF IsPut
<1>6. PICK item : item = F!MapOf(map)
  OBVIOUS
<1>7. item \in MapOver(W) /\ item.map = map
  BY <1>5, <1>6 DEF F!MapOf, MapOver
<1>8. item # F!Null
  BY <1>7, Kinds
<1>9. PICK t : t = [l EXCEPT !.item = item, !.indent = line.indent, !.listKey = F!NoKey]
  OBVIOUS
<1>10. t = Stands(l.result, s.key, "list", s.sub, item, line.indent, F!NoKey, l.ok)
  BY <1>2, <1>3, <1>9 DEF IsListed, StateOver, Stands
<1>11. /\ t.result = l.result /\ t.key = s.key /\ t.kind = "list" /\ t.sub = s.sub /\ t.item = item
       /\ t.indent = line.indent /\ t.listKey = F!NoKey /\ t.ok = l.ok
  BY <1>10 DEF Stands
<1>12. t \in StateOver(W)
  <2>1. IsState(W, l)
    BY <1>3, StateIs
  <2>2. s.key \in W /\ s.sub \in W
    BY StateIs DEF IsState
  <2>3. IsState(W, t)
    BY <1>5, <1>7, <1>11, <2>1, <2>2 DEF IsState
  <2> QED
    BY <1>10, <2>3, StandsOK, Zenon
<1>13. Shape(W, t)
  BY <1>3, <1>11 DEF Shape
<1>14. ASSUME NEW w, NEW K, Has(s, w, K)
       PROVE  Has(t, w, K) \/ (s.kind = "none" /\ s.key \in K)
  BY <1>2, <1>11, <1>14 DEF IsListed, Has
<1>15. ASSUME NEW K, {s.key, s.sub, s.listKey, line.key} \ {F!NoKey} \subseteq K,
         line.key # F!NoKey
       PROVE  Has(t, line.text.word, K)
  <2>1. s.key \in K /\ line.key \in K
    BY <1>15
  <2>2. FieldHas(F!Scalar(line.text), line.text.word)
    BY ScalarIs
  <2>3. MapHas(map, line.text.word, K)
    BY <1>4, <2>1, <2>2, PutHas, Zenon
  <2> QED
    BY <1>7, <1>8, <1>11, <2>1, <2>3 DEF Has
<1> QED
  BY <1>1, <1>4, <1>6, <1>9, <1>11, <1>12, <1>13, <1>14, <1>15 DEF Advances

-----------------------------------------------------------------------------
(* The lists in mappings and in pending items *)

TextList(W) == [kind : {"list"}, items : Seq(TextOver(W))]

\* A map with a text added to one of its lists.
MapGrows(W, m, k, x, m2) ==
  /\ m2 = [m EXCEPT ![k].items = Append(@, x)]
  /\ m2 \in Maps(W, FieldOver(W)) /\ DOMAIN m2 = DOMAIN m /\ m2[k] \in TextList(W)
  /\ \A w, K : MapHas(m, w, K) => MapHas(m2, w, K)
  /\ \A w, K : k \in K /\ x.text.word = w => MapHas(m2, w, K)

LEMMA MapAppend ==
  ASSUME NEW W, F!NoKey \in W, NEW m \in Maps(W, FieldOver(W)), NEW k \in DOMAIN m,
         m[k] \in TextList(W), NEW x \in TextOver(W)
  PROVE  \E m2 : MapGrows(W, m, k, x, m2)
<1>1. PICK l \in Seq(TextOver(W)) : l = m[k].items
  BY DEF TextList
<1>2. PICK v : v = F!ListOf(Append(l, x))
  OBVIOUS
<1>3. /\ v \in TextList(W) /\ v \in FieldOver(W) /\ v.kind = "list" /\ Len(v.items) = Len(l) + 1
      /\ v.items[Len(l) + 1] = x /\ \A n \in 1..Len(l) : v.items[n] = l[n]
  BY <1>2 DEF F!ListOf, TextList, FieldOver
<1>4. PICK m2 : m2 = F!Put(m, k, v)
  OBVIOUS
<1>5. k \in W /\ DOMAIN m \cup {k} = DOMAIN m /\ m = [j \in DOMAIN m |-> m[j]]
  <2>1. DOMAIN m \subseteq W /\ m = [j \in DOMAIN m |-> m[j]]
    BY DEF Maps
  <2> QED
    BY <2>1
<1>6. /\ m2 \in Maps(W, FieldOver(W)) /\ DOMAIN m2 = DOMAIN m /\ m2[k] = v
      /\ \A j \in DOMAIN m : j # k => m2[j] = m[j]
  <2>1. IsPut(W, FieldOver(W), m, k, v, m2)
    BY <1>3, <1>4, <1>5, PutIs
  <2> QED
    BY <1>5, <2>1 DEF IsPut
<1>7. m2 = [m EXCEPT ![k].items = Append(@, x)]
  <2>1. [m[k] EXCEPT !.items = Append(m[k].items, x)] = v
    BY <1>1, <1>2, Lengthened DEF TextList
  <2>2. [m EXCEPT ![k] = v] = m2
    BY <1>4, <1>5 DEF F!Put
  <2> QED
    BY <1>5, <2>1, <2>2
<1>8. ASSUME NEW w, NEW K, MapHas(m, w, K) PROVE MapHas(m2, w, K)
  <2>1. PICK j \in DOMAIN m \cap K : FieldHas(m[j], w)
    BY <1>8 DEF MapHas
  <2>2. CASE j # k
    <3>1. j \in DOMAIN m2 \cap K /\ FieldHas(m2[j], w)
      BY <1>6, <2>1, <2>2
    <3> QED
      BY <3>1 DEF MapHas
  <2>3. CASE j = k
    <3>1. m[k].kind = "list"
      BY DEF TextList
    <3>2. PICK n \in 1..Len(l) : l[n].text.word = w
      BY <1>1, <2>1, <2>3, <3>1 DEF FieldHas
    <3>3. n \in 1..Len(v.items) /\ v.items[n] = l[n]
      BY <1>3
    <3>4. FieldHas(m2[k], w)
      BY <1>3, <1>6, <3>2, <3>3 DEF FieldHas
    <3> QED
      BY <1>6, <2>1, <2>3, <3>4 DEF MapHas
  <2> QED
    BY <2>2, <2>3
<1>9. ASSUME NEW w, NEW K, k \in K, x.text.word = w PROVE MapHas(m2, w, K)
  <2>1. Len(l) + 1 \in 1..Len(v.items)
    BY <1>3
  <2>2. FieldHas(m2[k], w)
    BY <1>3, <1>6, <1>9, <2>1 DEF FieldHas
  <2> QED
    BY <1>6, <1>9, <2>2 DEF MapHas
<1>10. MapGrows(W, m, k, x, m2)
  BY <1>3, <1>6, <1>7, <1>8, <1>9 DEF MapGrows
<1> QED
  BY <1>10

LEMMA MapIs ==
  ASSUME NEW W, NEW v \in MapOver(W), NEW m
  PROVE  [v EXCEPT !.map = m] = F!MapOf(m)
<1>1. v = [kind |-> "map", map |-> v.map]
  BY DEF MapOver
<1>2. [v EXCEPT !.map = m] = [kind |-> "map", map |-> m]
  BY <1>1
<1> QED
  BY <1>2 DEF F!MapOf

\* An item of a list in the mapping below a key.
LEMMA SubItemAdvances ==
  ASSUME NEW W, F!NoKey \in W, NEW s \in StateOver(W), Shape(W, s), NEW line \in LineOver(W),
         s.sub # F!NoKey, s.kind = "mapping", NEW h,
         h = [s EXCEPT !.result[s.key].map[s.sub].items = Append(@, F!ItemText(line))]
  PROVE  Advances(W, s, line, h)
<1>1. PICK x \in TextOver(W) : x = F!ItemText(line)
  BY ScalarIs
<1>2. PICK old \in MapOver(W) : old = s.result[s.key]
  BY DEF Shape
<1>3. PICK m \in Maps(W, FieldOver(W)) : m = old.map
  BY Kinds
<1>4. s.sub \in DOMAIN m /\ m[s.sub] \in TextList(W) /\ s.key # F!NoKey
        /\ s.key \in DOMAIN s.result
  BY <1>2, <1>3 DEF Shape, TextList
<1>5. PICK m2 : MapGrows(W, m, s.sub, x, m2)
  BY <1>4, MapAppend
<1>6. PICK v : v = F!MapOf(m2)
  OBVIOUS
<1>7. v \in MapOver(W) /\ v \in ValueOver(W) /\ v.kind = "map" /\ v.map = m2
  BY <1>5, <1>6 DEF MapGrows, F!MapOf, MapOver, ValueOver
<1>8. PICK r, r2 : r \in Maps(W, ValueOver(W)) /\ r = s.result /\ r2 = F!Put(r, s.key, v)
  BY StateIs DEF IsState
<1>9. s.key \in DOMAIN r /\ s.key \in W
  BY <1>4, <1>8, StateIs DEF IsState
<1>10. /\ r2 \in Maps(W, ValueOver(W)) /\ DOMAIN r2 = DOMAIN r \cup {s.key} /\ r2[s.key] = v
       /\ \A j \in DOMAIN r : j # s.key => r2[j] = r[j]
  <2>1. IsPut(W, ValueOver(W), r, s.key, v, r2)
    BY <1>7, <1>8, <1>9, PutIs
  <2> QED
    BY <2>1 DEF IsPut
<1>11. PICK t : t = [s EXCEPT !.result[s.key].map[s.sub].items = Append(@, F!ItemText(line))]
  OBVIOUS
<1>12. t = [s EXCEPT !.result = r2]
  <2>1. m2 = [m EXCEPT ![s.sub].items = Append(@, x)]
    BY <1>5 DEF MapGrows
  <2>2. [old EXCEPT !.map = m2] = v
    BY <1>6, MapIs
  <2>3. [old EXCEPT !.map[s.sub].items = Append(@, x)] = v
    BY <1>3, <2>1, <2>2 DEF MapOver
  <2>4. [r EXCEPT ![s.key] = v] = r2
    BY <1>8, <1>9, SetIs
  <2>5. [r EXCEPT ![s.key].map[s.sub].items = Append(@, x)] = r2
    BY <1>2, <1>8, <2>3, <2>4
  <2> QED
    BY <1>1, <1>8, <1>11, <2>5 DEF StateOver
<1>13. s.item = F!Null /\ s.listKey = F!NoKey
  BY DEF Shape
<1>14. t = Stands(r2, s.key, "mapping", s.sub, F!Null, s.indent, F!NoKey, s.ok)
  BY <1>12, <1>13 DEF StateOver, Stands
<1>15. /\ t.result = r2 /\ t.key = s.key /\ t.kind = "mapping" /\ t.sub = s.sub /\ t.item = F!Null
       /\ t.indent = s.indent /\ t.listKey = F!NoKey /\ t.ok = s.ok
  BY <1>14 DEF Stands
<1>16. t \in StateOver(W)
  <2>1. s.indent \in Nat /\ s.ok \in BOOLEAN /\ s.sub \in W
    BY StateIs DEF IsState
  <2>2. IsState(W, t)
    BY <1>9, <1>10, <1>15, <2>1 DEF IsState
  <2> QED
    BY <1>14, <2>2, StandsOK, Zenon
<1>17. Shape(W, t)
  <2>1. DOMAIN m2 = DOMAIN m /\ m2[s.sub] \in TextList(W)
    BY <1>5 DEF MapGrows
  <2> QED
    BY <1>4, <1>7, <1>10, <1>15, <2>1 DEF Shape, TextList
<1>18. ASSUME NEW w, NEW K, Has(s, w, K) PROVE Has(t, w, K)
  <2>1. PICK k \in DOMAIN r \cap K : ValueHas(r[k], w, K)
    BY <1>8, <1>13, <1>18 DEF Has, ResultHas
  <2>2. ValueHas(r2[k], w, K)
    <3>1. CASE k # s.key
      BY <1>10, <2>1, <3>1
    <3>2. CASE k = s.key
      <4>1. MapHas(m, w, K)
        BY <1>2, <1>3, <1>8, <2>1, <3>2, Kinds DEF ValueHas
      <4>2. MapHas(m2, w, K)
        BY <1>5, <4>1 DEF MapGrows
      <4> QED
        BY <1>7, <1>10, <3>2, <4>2 DEF ValueHas
    <3> QED
      BY <3>1, <3>2
  <2>3. ResultHas(t.result, w, K)
    BY <1>10, <1>15, <2>1, <2>2 DEF ResultHas
  <2> QED
    BY <2>3 DEF Has
<1>19. ASSUME NEW K, {s.key, s.sub, s.listKey, line.key} \ {F!NoKey} \subseteq K
       PROVE  Has(t, line.text.word, K)
  <2>1. s.key \in K /\ s.sub \in K
    BY <1>4, <1>19
  <2>2. x.text.word = line.text.word
    BY <1>1, ScalarIs
  <2>3. MapHas(m2, line.text.word, K)
    BY <1>5, <2>1, <2>2 DEF MapGrows
  <2>4. ValueHas(r2[s.key], line.text.word, K)
    BY <1>7, <1>10, <2>3 DEF ValueHas
  <2>5. ResultHas(t.result, line.text.word, K)
    BY <1>10, <1>15, <2>1, <2>4 DEF ResultHas
  <2> QED
    BY <2>5 DEF Has
<1> QED
  BY <1>11, <1>15, <1>16, <1>17, <1>18, <1>19 DEF Advances

\* The state after a pending item has been changed.
LEMMA PendingAdvances ==
  ASSUME NEW W, F!NoKey \in W, NEW s \in StateOver(W), Shape(W, s), NEW line \in LineOver(W),
         s.item # F!Null, NEW m \in Maps(W, FieldOver(W)),
         NEW listKey \in {s.listKey, line.key, F!NoKey},
         listKey # F!NoKey => listKey \in DOMAIN m /\ m[listKey] \in TextList(W),
         \A w, K : MapHas(s.item.map, w, K) =>
           MapHas(m, w, K) \/ (line.key \in K /\ ~ line.item),
         \A K : {s.key, s.sub, s.listKey, line.key} \ {F!NoKey} \subseteq K =>
           line.text.word = "" \/ MapHas(m, line.text.word, K),
         NEW t, t = [s EXCEPT !.item = F!MapOf(m), !.listKey = listKey]
  PROVE  Advances(W, s, line, t)
<1>0. PICK u : u = t
  OBVIOUS
<1>1. PICK item \in MapOver(W) : item = F!MapOf(m)
  BY DEF F!MapOf, MapOver
<1>2. item.map = m /\ item # F!Null
  BY <1>1, Kinds DEF F!MapOf
<1>3. s.kind = "list" /\ s.key # F!NoKey /\ s.key \in DOMAIN s.result
        /\ s.result[s.key] \in ListOver(W)
  BY DEF Shape
<1>4. u = Stands(s.result, s.key, "list", s.sub, item, s.indent, listKey, s.ok)
  BY <1>0, <1>1, <1>3 DEF StateOver, Stands
<1>5. /\ u.result = s.result /\ u.key = s.key /\ u.kind = "list" /\ u.sub = s.sub /\ u.item = item
      /\ u.indent = s.indent /\ u.listKey = listKey /\ u.ok = s.ok
  BY <1>4 DEF Stands
<1>6. IsState(W, s) /\ listKey \in W
  <2>1. IsState(W, s)
    BY StateIs
  <2>2. line.key \in W
    BY DEF LineOver
  <2> QED
    BY <2>1, <2>2 DEF IsState
<1>7. u \in StateOver(W)
  <2>1. IsState(W, u)
    BY <1>5, <1>6 DEF IsState
  <2> QED
    BY <1>4, <2>1, StandsOK, Zenon
<1>8. Shape(W, u)
  BY <1>2, <1>3, <1>5 DEF Shape, TextList
<1>9. ASSUME NEW w, NEW K, Has(s, w, K)
      PROVE  Has(u, w, K) \/ (line.key \in K /\ ~ line.item)
  <2>1. CASE ResultHas(s.result, w, K)
    BY <1>5, <2>1 DEF Has
  <2>2. CASE s.key \in K /\ MapHas(s.item.map, w, K)
    BY <1>2, <1>5, <2>2 DEF Has
  <2> QED
    BY <1>9, <2>1, <2>2 DEF Has
<1>10. ASSUME NEW K, {s.key, s.sub, s.listKey, line.key} \ {F!NoKey} \subseteq K
       PROVE  line.text.word = "" \/ Has(u, line.text.word, K)
  <2>1. s.key \in K
    BY <1>3, <1>10
  <2>2. line.text.word = "" \/ MapHas(m, line.text.word, K)
    BY <1>10
  <2> QED
    BY <1>2, <1>5, <2>1, <2>2 DEF Has
<1> QED
  BY <1>0, <1>5, <1>7, <1>8, <1>9, <1>10 DEF Advances

LEMMA PendingItemAdvances ==
  ASSUME NEW W, F!NoKey \in W, NEW s \in StateOver(W), Shape(W, s), NEW line \in LineOver(W),
         s.item # F!Null, F!IsItem(line), s.listKey # F!NoKey
  PROVE  Advances(W, s, line, F!HandlePendingItem(s, line))
<1>1. PICK x \in TextOver(W) : x = F!ItemText(line)
  BY ScalarIs
<1>2. PICK item \in MapOver(W) : item = s.item
  BY StateIs DEF IsState
<1>3. PICK m \in Maps(W, FieldOver(W)) : m = item.map
  BY Kinds
<1>4. s.listKey \in DOMAIN m /\ m[s.listKey] \in TextList(W)
  BY <1>2, <1>3 DEF Shape, TextList
<1>5. PICK m2 : MapGrows(W, m, s.listKey, x, m2)
  BY <1>4, MapAppend
<1>6. PICK t : t = F!HandlePendingItem(s, line)
  OBVIOUS
<1>7. t = [s EXCEPT !.item = F!MapOf(m2), !.listKey = s.listKey]
  <2>1. t = [s EXCEPT !.item.map[s.listKey].items = Append(@, x)]
    BY <1>1, <1>6 DEF F!HandlePendingItem
  <2>2. m2 = [m EXCEPT ![s.listKey].items = Append(@, x)]
    BY <1>5 DEF MapGrows
  <2>3. [item EXCEPT !.map = m2] = F!MapOf(m2)
    BY MapIs
  <2>4. [item EXCEPT !.map[s.listKey].items = Append(@, x)] = F!MapOf(m2)
    BY <1>3, <2>2, <2>3 DEF MapOver
  <2> QED
    BY <1>2, <2>1, <2>4 DEF StateOver
<1>8. m2 \in Maps(W, FieldOver(W)) /\ s.listKey \in DOMAIN m2 /\ m2[s.listKey] \in TextList(W)
  BY <1>4, <1>5 DEF MapGrows
<1>9. \A w, K : MapHas(s.item.map, w, K) => MapHas(m2, w, K)
  BY <1>2, <1>3, <1>5 DEF MapGrows
<1>10. ASSUME NEW K, {s.key, s.sub, s.listKey, line.key} \ {F!NoKey} \subseteq K
       PROVE  MapHas(m2, line.text.word, K)
  <2>1. s.listKey \in K /\ x.text.word = line.text.word
    BY <1>1, <1>10, ScalarIs
  <2> QED
    BY <1>5, <2>1 DEF MapGrows
<1> QED
  BY <1>6, <1>7, <1>8, <1>9, <1>10, PendingAdvances

LEMMA PendingFieldAdvances ==
  ASSUME NEW W, F!NoKey \in W, NEW s \in StateOver(W), Shape(W, s), NEW line \in LineOver(W),
         s.item # F!Null, ~ F!IsItem(line), line.key # F!NoKey
  PROVE  Advances(W, s, line, F!HandlePendingItem(s, line))
<1>1. PICK item \in MapOver(W) : item = s.item
  BY StateIs DEF IsState
<1>2. PICK m \in Maps(W, FieldOver(W)) : m = item.map
  BY Kinds
<1>3. PICK value : value = IF F!Blank(line) THEN F!ListOf(<<>>) ELSE F!Scalar(line.text)
  OBVIOUS
<1>4. /\ value \in FieldOver(W) /\ line.key \in W /\ ~ line.item
      /\ F!Blank(line) => value \in TextList(W)
  <2>1. F!ListOf(<<>>) \in TextList(W)
    BY DEF F!ListOf, TextList
  <2> QED
    BY <1>3, <2>1, ScalarIs, NoDash DEF FieldOver, TextList, LineOver
<1>5. PICK m2 : m2 = F!Put(m, line.key, value)
  OBVIOUS
<1>6. /\ m2 \in Maps(W, FieldOver(W)) /\ line.key \in DOMAIN m2 /\ m2[line.key] = value
  <2>1. IsPut(W, FieldOver(W), m, line.key, value, m2)
    BY <1>2, <1>4, <1>5, PutIs
  <2> QED
    BY <2>1 DEF IsPut
<1>7. PICK listKey \in {line.key, F!NoKey} : listKey = IF F!Blank(line) THEN line.key ELSE F!NoKey
  OBVIOUS
<1>8. PICK t : t = F!HandlePendingItem(s, line)
  OBVIOUS
<1>9. t = [s EXCEPT !.item = F!MapOf(m2), !.listKey = listKey]
  BY <1>1, <1>2, <1>3, <1>5, <1>7, <1>8 DEF F!HandlePendingItem
<1>10. listKey # F!NoKey => listKey \in DOMAIN m2 /\ m2[listKey] \in TextList(W)
  BY <1>4, <1>6, <1>7
<1>11. \A w, K : MapHas(s.item.map, w, K) => MapHas(m2, w, K) \/ (line.key \in K /\ ~ line.item)
  BY <1>1, <1>2, <1>4, <1>5, PutHas
<1>12. ASSUME NEW K, {s.key, s.sub, s.listKey, line.key} \ {F!NoKey} \subseteq K
       PROVE  line.text.word = "" \/ MapHas(m2, line.text.word, K)
  <2>1. CASE F!Blank(line)
    BY <2>1, BlankIsEmpty
  <2>2. CASE ~ F!Blank(line)
    <3>1. line.key \in K /\ FieldHas(value, line.text.word)
      BY <1>3, <1>12, <2>2, ScalarIs
    <3> QED
      BY <1>5, <3>1, PutHas, Zenon
  <2> QED
    BY <2>1, <2>2
<1> QED
  BY <1>6, <1>7, <1>8, <1>9, <1>10, <1>11, <1>12, PendingAdvances

-----------------------------------------------------------------------------
(* Any line *)

LEMMA FailedIs ==
  ASSUME NEW W, NEW s \in StateOver(W)
  PROVE  F!Failed(s) \in StateOver(W) /\ ~ F!Failed(s).ok
BY DEF F!Failed, StateOver

LEMMA TopLevelHandled ==
  ASSUME NEW W, F!NoKey \in W, NEW s \in StateOver(W), Shape(W, s), NEW line \in LineOver(W),
         line.indent = 0
  PROVE  \/ Advances(W, s, line, F!HandleTopLevel(s, line))
         \/ F!HandleTopLevel(s, line) = F!Failed(s)
<1>1. CASE F!IsItem(line) \/ line.key = F!NoKey
  BY <1>1 DEF F!HandleTopLevel
<1>2. CASE ~ F!IsItem(line) /\ line.key # F!NoKey
  BY <1>2, TopLevelAdvances
<1> QED
  BY <1>1, <1>2

LEMMA PendingHandled ==
  ASSUME NEW W, F!NoKey \in W, NEW s \in StateOver(W), Shape(W, s), NEW line \in LineOver(W),
         s.item # F!Null
  PROVE  \/ Advances(W, s, line, F!HandlePendingItem(s, line))
         \/ F!HandlePendingItem(s, line) = F!Failed(s)
<1>1. CASE F!IsItem(line) /\ s.listKey = F!NoKey
  BY <1>1 DEF F!HandlePendingItem
<1>2. CASE F!IsItem(line) /\ s.listKey # F!NoKey
  BY <1>2, PendingItemAdvances
<1>3. CASE ~ F!IsItem(line) /\ line.key = F!NoKey
  BY <1>3 DEF F!HandlePendingItem
<1>4. CASE ~ F!IsItem(line) /\ line.key # F!NoKey
  BY <1>4, PendingFieldAdvances
<1> QED
  BY <1>1, <1>2, <1>3, <1>4

LEMMA ListItemHandled ==
  ASSUME NEW W, F!NoKey \in W, NEW s \in StateOver(W), Shape(W, s), NEW line \in LineOver(W),
         line.indent # 0, s.key # F!NoKey
  PROVE  \/ Advances(W, s, line, F!HandleListItem(s, line))
         \/ F!HandleListItem(s, line) = F!Failed(s)
<1>1. CASE s.sub # F!NoKey /\ s.kind = "mapping"
  <2>1. F!HandleListItem(s, line) =
          [s EXCEPT !.result[s.key].map[s.sub].items = Append(@, F!ItemText(line))]
    BY <1>1 DEF F!HandleListItem
  <2> QED
    BY <1>1, <2>1, SubItemAdvances
<1>2. CASE s.sub = F!NoKey /\ s.kind = "mapping"
  BY <1>2 DEF F!HandleListItem
<1>3. CASE s.kind # "mapping" /\ line.key = F!NoKey
  <2>1. F!HandleListItem(s, line) = F!Adds(Listed(s), F!ItemText(line))
    BY <1>3 DEF F!HandleListItem, Listed
  <2> QED
    BY <1>3, <2>1, TextItemAdvances
<1>4. CASE s.kind # "mapping" /\ line.key # F!NoKey
  <2>1. F!HandleListItem(s, line) =
          [Listed(s) EXCEPT !.item = F!MapOf(F!Put(F!EmptyMap, line.key, F!Scalar(line.text))),
             !.indent = line.indent, !.listKey = F!NoKey]
    BY <1>4 DEF F!HandleListItem, Listed
  <2> QED
    BY <1>4, <2>1, KeyItemAdvances
<1> QED
  BY <1>1, <1>2, <1>3, <1>4

\* Whatever a line is, it advances the parser, or the parser fails.
LEMMA HandleAdvances ==
  ASSUME NEW W, F!NoKey \in W, NEW s \in StateOver(W), Shape(W, s), NEW line \in LineOver(W),
         s.ok
  PROVE  \/ Advances(W, s, line, F!HandleLine(s, line))
         \/ F!HandleLine(s, line) = F!Failed(s)
<1>1. CASE line.indent = 0
  <2>1. F!HandleLine(s, line) = F!HandleTopLevel(s, line)
    BY <1>1 DEF F!HandleLine
  <2> QED
    BY <1>1, <2>1, TopLevelHandled
<1>2. CASE line.indent # 0
  <2>1. F!HandleLine(s, line) = F!HandleIndented(s, line)
    BY <1>2 DEF F!HandleLine
  <2>2. CASE s.key = F!NoKey
    BY <2>1, <2>2 DEF F!HandleIndented
  <2>3. CASE s.key # F!NoKey /\ (s.item # F!Null /\ line.indent > s.indent)
    <3>1. F!HandleIndented(s, line) = F!HandlePendingItem(s, line)
      BY <2>3 DEF F!HandleIndented
    <3> QED
      BY <2>1, <2>3, <3>1, PendingHandled
  <2>4. CASE s.key # F!NoKey /\ ~ (s.item # F!Null /\ line.indent > s.indent) /\ F!IsItem(line)
    <3>1. F!HandleIndented(s, line) = F!HandleListItem(s, line)
      BY <2>4 DEF F!HandleIndented
    <3> QED
      BY <1>2, <2>1, <2>4, <3>1, ListItemHandled
  <2>5. CASE s.key # F!NoKey /\ ~ (s.item # F!Null /\ line.indent > s.indent) /\ ~ F!IsItem(line)
    <3>1. CASE line.key = F!NoKey
      BY <2>1, <2>5, <3>1 DEF F!HandleIndented
    <3>2. CASE line.key # F!NoKey
      <4>1. F!HandleIndented(s, line) = F!HandleMappingEntry(s, line)
        BY <2>5, <3>2 DEF F!HandleIndented
      <4>2. CASE s.kind = "list"
        BY <2>1, <4>1, <4>2 DEF F!HandleMappingEntry
      <4>3. CASE s.kind # "list"
        BY <1>2, <2>1, <2>5, <3>2, <4>1, <4>3, MappingAdvances
      <4> QED
        BY <4>2, <4>3
    <3> QED
      BY <3>1, <3>2
  <2> QED
    BY <2>2, <2>3, <2>4, <2>5
<1> QED
  BY <1>1, <1>2

-----------------------------------------------------------------------------
(* Any file: the recursion over its lines, and the invariant of the parser *)

\* Every set of numbers has a least one.
LEMMA Least ==
  ASSUME NEW S, S \subseteq Nat, S # {}
  PROVE  \E m \in S : \A k \in S : m <= k
<1>1. PICK m \in S : \A k \in S : ~ (<<k, m>> \in OpToRel(<, Nat))
  BY NatLessThanWellFounded, WFMin, Zenon
<1>2. \A k \in S : ~ (k < m)
  BY <1>1 DEF OpToRel
<1> QED
  BY <1>2

\* An induction over a set of numbers, up to a bound.
LEMMA UpTo ==
  ASSUME NEW n \in Nat, NEW T, 0 \in T, \A k \in 0..(n - 1) : k \in T => k + 1 \in T
  PROVE  \A k \in 0..n : k \in T
<1> SUFFICES ASSUME NEW k \in 0..n, k \notin T PROVE FALSE
  OBVIOUS
<1> DEFINE S == {j \in 0..n : j \notin T}
<1>1. PICK m \in S : \A j \in S : m <= j
  <2>1. S \subseteq Nat /\ S # {}
    BY DEF S
  <2> HIDE DEF S
  <2> QED
    BY <2>1, Least
<1>2. m - 1 \in 0..(n - 1) /\ m - 1 \in T
  BY <1>1
<1> QED
  BY <1>1, <1>2

\* The states of the parser, up to the kth line.
IsParse(g, lines, k) ==
  g = [i \in 0..k |-> IF i = 0 THEN F!Start ELSE F!HandleLine(g[i - 1], lines[i])]

LEMMA ParseExists ==
  ASSUME NEW lines, NEW n \in Nat
  PROVE  \E g : IsParse(g, lines, n)
<1> DEFINE T == {k \in 0..n : \E g : IsParse(g, lines, k)}
<1>1. 0 \in T
  <2>1. PICK g : g = [i \in 0..0 |-> F!Start]
    OBVIOUS
  <2>2. IsParse(g, lines, 0)
    BY <2>1 DEF IsParse
  <2> QED
    BY <2>2
<1>2. ASSUME NEW k \in 0..(n - 1), k \in T PROVE k + 1 \in T
  <2>1. PICK g : IsParse(g, lines, k)
    BY <1>2
  <2>2. PICK h : h =
          [i \in 0..(k + 1) |-> IF i = k + 1 THEN F!HandleLine(g[k], lines[i]) ELSE g[i]]
    OBVIOUS
  <2>3. PICK e : e =
          [i \in 0..(k + 1) |-> IF i = 0 THEN F!Start ELSE F!HandleLine(h[i - 1], lines[i])]
    OBVIOUS
  <2>4. ASSUME NEW i \in 0..(k + 1) PROVE h[i] = e[i]
    <3>1. CASE i = 0
      <4>1. h[i] = g[0] /\ e[i] = F!Start
        BY <2>2, <2>3, <3>1
      <4>2. g[0] = F!Start
        BY <2>1 DEF IsParse
      <4> QED
        BY <4>1, <4>2
    <3>2. CASE i # 0 /\ i # k + 1
      <4>1. i \in 0..k /\ i - 1 \in 0..k /\ i - 1 # k + 1
        BY <3>2
      <4>2. h[i] = g[i] /\ h[i - 1] = g[i - 1] /\ e[i] = F!HandleLine(h[i - 1], lines[i])
        BY <2>2, <2>3, <3>2, <4>1
      <4>3. g[i] = F!HandleLine(g[i - 1], lines[i])
        BY <2>1, <3>2, <4>1 DEF IsParse
      <4> QED
        BY <4>2, <4>3
    <3>3. CASE i # 0 /\ i = k + 1
      <4>1. h[i] = F!HandleLine(g[k], lines[i]) /\ h[k] = g[k]
              /\ e[i] = F!HandleLine(h[i - 1], lines[i])
        BY <2>2, <2>3, <3>3
      <4>2. i - 1 = k
        BY <3>3
      <4> QED
        BY <4>1, <4>2
    <3> QED
      BY <3>1, <3>2, <3>3
  <2>5. h = e
    BY <2>2, <2>3, <2>4
  <2>6. IsParse(h, lines, k + 1)
    BY <2>3, <2>5 DEF IsParse
  <2> QED
    BY <2>6
<1> HIDE DEF T
<1>3. \A k \in 0..n : k \in T
  BY <1>1, <1>2, UpTo
<1>4. n \in T
  BY <1>3
<1> QED
  BY <1>4 DEF T

\* The keys of the first lines.
Given(lines, i) == {lines[j].key : j \in 1..i} \ {F!NoKey}

\* What has become of the jth line after i of them.
Kept(lines, i, s, j) ==
  \/ lines[j].text.word = ""
  \/ \E l \in (j + 1)..i : lines[l].key \in Given(lines, j) /\ ~ lines[l].item
  \/ j < i /\ lines[j].indent = 0 /\ lines[j + 1].indent > 0
  \/ Has(s, lines[j].text.word, Given(lines, j))

Sound(W, lines, i, s) ==
  /\ s \in StateOver(W) /\ Shape(W, s)
  /\ {s.key, s.sub, s.listKey} \ {F!NoKey} \subseteq Given(lines, i)
  /\ s.kind = "none" /\ s.key # F!NoKey =>
       i >= 1 /\ lines[i].indent = 0 /\ lines[i].key = s.key /\ ~ lines[i].item
  /\ \A j \in 1..i : Kept(lines, i, s, j)

LEMMA StartSound ==
  ASSUME NEW W, F!NoKey \in W, NEW lines
  PROVE  Sound(W, lines, 0, F!Start)
<1>1. F!EmptyMap \in Maps(W, ValueOver(W))
  <2>1. F!EmptyMap \in [{} -> ValueOver(W)] /\ {} \in SUBSET W
    BY DEF F!EmptyMap
  <2> QED
    BY <2>1 DEF Maps
<1>2. PICK u : u = F!Start
  OBVIOUS
<1>3. u = Stands(F!EmptyMap, F!NoKey, "none", F!NoKey, F!Null, 0, F!NoKey, TRUE)
  BY <1>2 DEF F!Start, Stands
<1>4. /\ u.result = F!EmptyMap /\ u.key = F!NoKey /\ u.kind = "none" /\ u.sub = F!NoKey
      /\ u.item = F!Null /\ u.indent = 0 /\ u.listKey = F!NoKey /\ u.ok = TRUE
  BY <1>3 DEF Stands
<1>5. u \in StateOver(W)
  <2>1. u.ok \in BOOLEAN
    BY <1>4, Zenon
  <2>2. IsState(W, u)
    BY <1>1, <1>4, <2>1 DEF IsState
  <2> QED
    BY <1>3, <2>2, StandsOK, Zenon
<1>6. Shape(W, u)
  BY <1>4 DEF Shape
<1> QED
  BY <1>2, <1>4, <1>5, <1>6 DEF Sound

LEMMA LineSound ==
  ASSUME NEW W, F!NoKey \in W, NEW lines \in Seq(LineOver(W)), NEW i \in 0..(Len(lines) - 1),
         NEW s \in StateOver(W), Sound(W, lines, i, s), s.ok, F!HandleLine(s, lines[i + 1]).ok
  PROVE  Sound(W, lines, i + 1, F!HandleLine(s, lines[i + 1]))
<1>1. PICK line \in LineOver(W) : line = lines[i + 1]
  OBVIOUS
<1>2. PICK t : t = F!HandleLine(s, line)
  OBVIOUS
<1>3. Advances(W, s, line, t)
  <2>1. s \in StateOver(W) /\ Shape(W, s)
    BY DEF Sound
  <2> QED
    BY <1>1, <1>2, <2>1, FailedIs, HandleAdvances
<1>4. Given(lines, i + 1) = (Given(lines, i) \cup {line.key}) \ {F!NoKey}
  <2>1. 1..(i + 1) = (1..i) \cup {i + 1}
    OBVIOUS
  <2> QED
    BY <1>1, <2>1 DEF Given
<1>5. {s.key, s.sub, s.listKey, line.key} \ {F!NoKey} \subseteq Given(lines, i + 1)
  BY <1>4 DEF Sound
<1>6. {t.key, t.sub, t.listKey} \ {F!NoKey} \subseteq Given(lines, i + 1)
  <2>1. /\ t.key \in {s.key, line.key} /\ t.sub \in {s.sub, line.key, F!NoKey}
        /\ t.listKey \in {s.listKey, line.key, F!NoKey}
    BY <1>3 DEF Advances
  <2> QED
    BY <1>5, <2>1
<1>7. t.kind = "none" =>
        i + 1 >= 1 /\ lines[i + 1].indent = 0 /\ lines[i + 1].key = t.key /\ ~ lines[i + 1].item
  <2>1. t.kind = "none" => line.indent = 0 /\ t.key = line.key /\ ~ line.item
    BY <1>3 DEF Advances
  <2> QED
    BY <1>1, <2>1
<1>8. Kept(lines, i + 1, t, i + 1)
  <2>1. line.text.word = "" \/ Has(t, line.text.word, Given(lines, i + 1))
    BY <1>3, <1>5 DEF Advances
  <2> QED
    BY <1>1, <2>1 DEF Kept
<1>9. ASSUME NEW j \in 1..i PROVE Kept(lines, i + 1, t, j)
  <2>1. Kept(lines, i, s, j)
    BY DEF Sound
  <2>2. CASE lines[j].text.word = ""
    BY <2>2 DEF Kept
  <2>3. CASE \E l \in (j + 1)..i : lines[l].key \in Given(lines, j) /\ ~ lines[l].item
    <3>1. (j + 1)..i \subseteq (j + 1)..(i + 1)
      OBVIOUS
    <3> QED
      BY <2>3, <3>1 DEF Kept
  <2>4. CASE j < i /\ lines[j].indent = 0 /\ lines[j + 1].indent > 0
    <3>1. j < i + 1
      OBVIOUS
    <3> QED
      BY <2>4, <3>1 DEF Kept
  <2>5. CASE Has(s, lines[j].text.word, Given(lines, j))
    <3>1. \/ Has(t, lines[j].text.word, Given(lines, j))
          \/ line.key \in Given(lines, j) /\ ~ line.item
          \/ s.kind = "none" /\ s.key \in Given(lines, j) /\ line.indent # 0
      BY <1>3, <2>5 DEF Advances
    <3>2. CASE Has(t, lines[j].text.word, Given(lines, j))
      BY <3>2 DEF Kept
    <3>3. CASE line.key \in Given(lines, j) /\ ~ line.item
      <4>1. i + 1 \in (j + 1)..(i + 1)
        OBVIOUS
      <4> QED
        BY <1>1, <3>3, <4>1 DEF Kept
    <3>4. CASE s.kind = "none" /\ s.key \in Given(lines, j) /\ line.indent # 0
      <4>1. s.key # F!NoKey
        BY <3>4 DEF Given
      <4>2. lines[i].indent = 0 /\ lines[i].key = s.key /\ ~ lines[i].item
        BY <3>4, <4>1 DEF Sound
      <4>3. CASE j = i
        <5>1. line.indent > 0
          BY <3>4 DEF LineOver
        <5>2. j < i + 1 /\ lines[j].indent = 0 /\ lines[j + 1].indent > 0
          BY <1>1, <4>2, <4>3, <5>1
        <5> QED
          BY <5>2 DEF Kept
      <4>4. CASE j # i
        <5>1. i \in (j + 1)..(i + 1)
          BY <4>4
        <5> QED
          BY <3>4, <4>2, <5>1 DEF Kept
      <4> QED
        BY <4>3, <4>4
    <3> QED
      BY <3>1, <3>2, <3>3, <3>4
  <2> QED
    BY <2>1, <2>2, <2>3, <2>4, <2>5 DEF Kept
<1>10. \A j \in 1..(i + 1) : Kept(lines, i + 1, t, j)
  BY <1>8, <1>9
<1>11. t \in StateOver(W) /\ Shape(W, t)
  BY <1>3 DEF Advances
<1> QED
  BY <1>1, <1>2, <1>6, <1>7, <1>10, <1>11 DEF Sound

\* The invariant of the parser, as long as it does not fail.
LEMMA AlwaysSound ==
  ASSUME NEW W, F!NoKey \in W, NEW lines \in Seq(LineOver(W)), NEW g, IsParse(g, lines, Len(lines))
  PROVE  \A i \in 0..Len(lines) :
           g[i] \in StateOver(W) /\ (g[i].ok => Sound(W, lines, i, g[i]))
<1>1. PICK n \in Nat : n = Len(lines)
  OBVIOUS
<1> DEFINE T == {i \in 0..n : g[i] \in StateOver(W) /\ (g[i].ok => Sound(W, lines, i, g[i]))}
<1>2. 0 \in T
  <2>1. g[0] = F!Start
    BY <1>1 DEF IsParse
  <2> QED
    BY <1>1, <2>1, StartSound DEF Sound
<1>3. ASSUME NEW i \in 0..(n - 1), i \in T PROVE i + 1 \in T
  <2>1. g[i + 1] = F!HandleLine(g[i], lines[i + 1])
    <3>1. i + 1 \in 0..Len(lines) /\ i + 1 # 0 /\ (i + 1) - 1 = i
      BY <1>1
    <3> QED
      BY <3>1 DEF IsParse
  <2>2. CASE ~ g[i].ok
    <3>1. g[i + 1] = g[i]
      BY <2>1, <2>2 DEF F!HandleLine
    <3> QED
      BY <1>3, <2>2, <3>1
  <2>3. CASE g[i].ok
    <3>1. Sound(W, lines, i, g[i])
      BY <1>3, <2>3
    <3>2. F!HandleLine(g[i], lines[i + 1]).ok =>
            Sound(W, lines, i + 1, F!HandleLine(g[i], lines[i + 1]))
      BY <1>1, <1>3, <2>3, <3>1, LineSound
    <3>3. F!HandleLine(g[i], lines[i + 1]) \in StateOver(W)
      <4>1. lines[i + 1] \in LineOver(W) /\ g[i] \in StateOver(W) /\ Shape(W, g[i])
        BY <1>1, <3>1 DEF Sound
      <4> QED
        BY <2>3, <4>1, HandleAdvances, FailedIs DEF Advances
    <3> QED
      BY <1>3, <2>1, <3>2, <3>3
  <2> QED
    BY <2>2, <2>3
<1> HIDE DEF T
<1>4. \A i \in 0..n : i \in T
  BY <1>2, <1>3, UpTo
<1> QED
  BY <1>1, <1>4 DEF T

-----------------------------------------------------------------------------
(* What the parser returns *)

LEMMA FieldTexts ==
  ASSUME NEW W, NEW v \in FieldOver(W), NEW w, FieldHas(v, w)
  PROVE  \E t \in (IF v.kind = "text" THEN {v.text} ELSE {x.text : x \in F!ToSet(v.items)}) :
           t.word = w
<1>1. CASE v \in TextOver(W)
  BY <1>1, Kinds DEF FieldHas
<1>2. CASE v \in [kind : {"list"}, items : Seq(TextOver(W))]
  <2>1. v.kind = "list" /\ v.items \in Seq(TextOver(W))
    BY <1>2
  <2>2. PICK n \in 1..Len(v.items) : v.items[n].text.word = w
    BY <2>1 DEF FieldHas
  <2>3. v.items[n] \in F!ToSet(v.items)
    BY <2>1, <2>2 DEF F!ToSet
  <2> QED
    BY <2>1, <2>2, <2>3
<1> QED
  BY <1>1, <1>2 DEF FieldOver

\* What a value has is among its texts.
LEMMA ValueTexts ==
  ASSUME NEW W, F!NoKey \in W, NEW v \in ValueOver(W), NEW w, NEW K, ValueHas(v, w, K)
  PROVE  \E t \in F!TextsOf(v) : t.word = w
<1> DEFINE In(f) == IF f.kind = "text" THEN {f.text} ELSE {x.text : x \in F!ToSet(f.items)}
<1>1. CASE v = F!Null
  BY <1>1, Kinds DEF ValueHas
<1>2. CASE v \in TextOver(W)
  <2>1. F!TextsOf(v) = {v.text} /\ v.text.word = w
    BY <1>2, Kinds DEF ValueHas, F!TextsOf
  <2> QED
    BY <2>1
<1>3. CASE v \in ListOver(W)
  <2>1. v.kind = "list" /\ v.items \in Seq(ItemOver(W))
    BY <1>3, Kinds
  <2> DEFINE TextsIn(x) == IF x.kind = "text" THEN {x.text}
        ELSE UNION {In(f) : f \in {x.map[k] : k \in DOMAIN x.map}}
  <2>2. F!TextsOf(v) = UNION {TextsIn(x) : x \in F!ToSet(v.items)}
    BY <2>1 DEF F!TextsOf
  <2>3. PICK n \in 1..Len(v.items) : ItemHas(v.items[n], w)
    BY <2>1 DEF ValueHas
  <2>4. PICK x \in ItemOver(W) : x = v.items[n]
    BY <2>1, <2>3
  <2>5. x \in F!ToSet(v.items)
    BY <2>1, <2>3, <2>4 DEF F!ToSet
  <2>6. \E t \in TextsIn(x) : t.word = w
    <3>1. CASE x \in TextOver(W)
      <4>1. x.kind = "text" /\ x.text.word = w
        BY <2>3, <2>4, <3>1, Kinds DEF ItemHas
      <4> QED
        BY <4>1
    <3>2. CASE x \in MapOver(W)
      <4>1. x.kind = "map" /\ x.map \in Maps(W, FieldOver(W))
        BY <3>2, Kinds
      <4>2. PICK k \in DOMAIN x.map : FieldHas(x.map[k], w)
        BY <2>3, <2>4, <4>1 DEF ItemHas, MapHas
      <4>3. PICK f \in FieldOver(W) : f = x.map[k]
        BY <4>1, MapsAre
      <4>4. PICK t \in In(f) : t.word = w
        BY <4>2, <4>3, FieldTexts
      <4>5. TextsIn(x) = UNION {In(y) : y \in {x.map[j] : j \in DOMAIN x.map}}
        BY <4>1
      <4> HIDE DEF In, TextsIn
      <4> QED
        BY <4>3, <4>4, <4>5
    <3>3. x \in TextOver(W) \/ x \in MapOver(W)
      BY DEF ItemOver, MapOver
    <3> QED
      BY <3>1, <3>2, <3>3
  <2> HIDE DEF TextsIn
  <2> QED
    BY <2>2, <2>5, <2>6
<1>4. CASE v \in MapOver(W)
  <2>1. v.kind = "map" /\ v.map \in Maps(W, FieldOver(W))
    BY <1>4, Kinds
  <2>2. F!TextsOf(v) = UNION {In(f) : f \in {v.map[k] : k \in DOMAIN v.map}}
    BY <2>1 DEF F!TextsOf
  <2>3. PICK k \in DOMAIN v.map : FieldHas(v.map[k], w)
    BY <2>1 DEF ValueHas, MapHas
  <2>4. PICK f \in FieldOver(W) : f = v.map[k]
    BY <2>1, MapsAre
  <2>5. \E t \in In(f) : t.word = w
    BY <2>3, <2>4, FieldTexts
  <2> HIDE DEF In
  <2> QED
    BY <2>2, <2>4, <2>5
<1> QED
  BY <1>1, <1>2, <1>3, <1>4 DEF ValueOver

\* The recursion as Parse has it.
ParseSteps(lines, g) ==
  g = [i \in 0..Len(lines) |->
         IF i = 0 THEN F!Start ELSE F!HandleLine(g[i - 1], [lines EXCEPT ![1].indent = 0][i])]

LEMMA ParseFrom ==
  ASSUME NEW lines, NEW g, g = CHOOSE h : ParseSteps(lines, h),
         NEW end, end = F!Flush(g[Len(lines)])
  PROVE  /\ F!Parse(lines).ok = end.ok
         /\ F!Parse(lines).values =
              [k \in DOMAIN end.result |->
                 IF end.result[k] = F!Null THEN F!ListOf(<<>>) ELSE end.result[k]]
<1>1. F!Parse(lines).ok = end.ok
  BY DEF F!Parse, ParseSteps
<1>2. F!Parse(lines).values =
        [k \in DOMAIN end.result |->
           IF end.result[k] = F!Null THEN F!ListOf(<<>>) ELSE end.result[k]]
  BY DEF F!Parse, ParseSteps
<1> QED
  BY <1>1, <1>2

\* What the parser returns, from the states it goes through.
LEMMA ParseIs ==
  ASSUME NEW W, F!NoKey \in W, NEW lines \in Seq(LineOver(W)), lines # <<>> => lines[1].indent = 0
  PROVE  \E g, end :
           /\ IsParse(g, lines, Len(lines)) /\ end = F!Flush(g[Len(lines)])
           /\ F!Parse(lines).ok = end.ok
           /\ F!Parse(lines).values =
                [k \in DOMAIN end.result |->
                   IF end.result[k] = F!Null THEN F!ListOf(<<>>) ELSE end.result[k]]
<1>1. [lines EXCEPT ![1].indent = 0] = lines
  <2>1. CASE lines = <<>>
    BY <2>1
  <2>2. CASE lines # <<>>
    <3>1. 1 \in DOMAIN lines /\ lines[1] \in LineOver(W)
      BY <2>2
    <3>2. [lines[1] EXCEPT !.indent = 0] = lines[1]
      BY <2>2, <3>1 DEF LineOver
    <3> QED
      BY <3>1, <3>2
  <2> QED
    BY <2>1, <2>2
<1>2. PICK g : g = CHOOSE h : ParseSteps(lines, h)
  OBVIOUS
<1>3. IsParse(g, lines, Len(lines))
  <2>1. \A h : ParseSteps(lines, h) <=> IsParse(h, lines, Len(lines))
    BY <1>1 DEF ParseSteps, IsParse
  <2>2. \E h : IsParse(h, lines, Len(lines))
    <3>1. Len(lines) \in Nat
      OBVIOUS
    <3> QED
      BY <3>1, ParseExists
  <2>3. \E h : ParseSteps(lines, h)
    BY <2>1, <2>2
  <2> QED
    BY <1>2, <2>1, <2>3
<1>4. PICK end : end = F!Flush(g[Len(lines)])
  OBVIOUS
<1>5. /\ F!Parse(lines).ok = end.ok
      /\ F!Parse(lines).values =
           [k \in DOMAIN end.result |->
              IF end.result[k] = F!Null THEN F!ListOf(<<>>) ELSE end.result[k]]
  BY <1>2, <1>4, ParseFrom
<1> QED
  BY <1>3, <1>4, <1>5

LEMMA FlushedOk ==
  ASSUME NEW W, NEW s \in StateOver(W)
  PROVE  F!Flush(s).ok = s.ok
<1>1. PICK r : r = [s.result EXCEPT ![s.key].items = Append(@, s.item)]
  OBVIOUS
<1>2. F!Adds(s, s.item) = [s EXCEPT !.result = r]
  BY <1>1 DEF F!Adds, StateOver
<1>3. [[s EXCEPT !.result = r] EXCEPT !.item = F!Null, !.indent = 0, !.listKey = F!NoKey].ok = s.ok
  BY DEF StateOver
<1> QED
  BY <1>2, <1>3 DEF F!Flush

\* Of any file, of any length and with any keys and texts, the parser keeps
\* the text of every line or refuses the file, unless a key is given twice or
\* a block stands below a key that has a value (_YamlState).  The text has been
\* stripped: its first line is not indented.
THEOREM AnyFileKeepsItsTexts ==
  ASSUME NEW W, F!NoKey \in W, NEW lines \in Seq(LineOver(W)), lines # <<>> => lines[1].indent = 0
  PROVE  F!KeepsTexts(lines)
<1>1. PICK n \in Nat : n = Len(lines)
  OBVIOUS
<1>2. PICK g, end :
        /\ IsParse(g, lines, Len(lines)) /\ end = F!Flush(g[Len(lines)])
        /\ F!Parse(lines).ok = end.ok
        /\ F!Parse(lines).values =
             [k \in DOMAIN end.result |->
                IF end.result[k] = F!Null THEN F!ListOf(<<>>) ELSE end.result[k]]
  BY ParseIs
<1>3. IsParse(g, lines, n) /\ end = F!Flush(g[n]) /\ F!Parse(lines).ok = end.ok
  BY <1>1, <1>2
<1>4. PICK values : values = F!Parse(lines).values
  OBVIOUS
<1>5. values = [k \in DOMAIN end.result |->
                  IF end.result[k] = F!Null THEN F!ListOf(<<>>) ELSE end.result[k]]
  BY <1>2, <1>4
<1> DEFINE all == UNION {F!TextsOf(values[k]) : k \in DOMAIN values}
           kept == {t.word : t \in all}
<1>6. ASSUME F!Parse(lines).ok, NEW i \in DOMAIN lines
      PROVE  \/ lines[i].text.word \in kept \cup {""}
             \/ F!Repeated(lines, i)
             \/ i < Len(lines) /\ lines[i].indent = 0 /\ lines[i + 1].indent > 0
  <2>1. end.ok /\ n \in 0..n
    BY <1>3, <1>6
  <2>2. g[n].ok
    <3>1. g[n] \in StateOver(W)
      BY <1>1, <1>3, <2>1, AlwaysSound
    <3> QED
      BY <1>3, <2>1, <3>1, FlushedOk
  <2>3. Sound(W, lines, n, g[n])
    BY <1>1, <1>3, <2>1, <2>2, AlwaysSound
  <2>4. Kept(lines, n, g[n], i)
    <3>1. i \in 1..n
      BY <1>1
    <3> QED
      BY <2>3, <3>1 DEF Sound
  <2>5. CASE lines[i].text.word = ""
    BY <2>5
  <2>6. CASE \E l \in (i + 1)..n : lines[l].key \in Given(lines, i) /\ ~ lines[l].item
    <3>1. PICK l \in (i + 1)..n : lines[l].key \in Given(lines, i) /\ ~ lines[l].item
      BY <2>6
    <3>2. PICK h \in 1..i : lines[l].key = lines[h].key /\ lines[h].key # F!NoKey
      BY <3>1 DEF Given
    <3> QED
      BY <1>1, <3>1, <3>2 DEF F!Repeated
  <2>7. CASE i < n /\ lines[i].indent = 0 /\ lines[i + 1].indent > 0
    BY <1>1, <2>7
  <2>8. CASE Has(g[n], lines[i].text.word, Given(lines, i))
    <3>1. IsFlushed(W, g[n], end)
      BY <1>3, <2>3, Flushed DEF Sound
    <3>2. PICK k \in DOMAIN end.result :
            ValueHas(end.result[k], lines[i].text.word, Given(lines, i))
      BY <2>8, <3>1 DEF IsFlushed, ResultHas
    <3>3. PICK v \in ValueOver(W) : v = end.result[k]
      BY <3>1, MapsAre, StateIs DEF IsFlushed, IsState
    <3>4. v # F!Null
      BY <3>2, <3>3, Kinds DEF ValueHas
    <3>5. PICK t \in F!TextsOf(v) : t.word = lines[i].text.word
      BY <3>2, <3>3, ValueTexts
    <3>6. k \in DOMAIN values /\ values[k] = v
      BY <1>5, <3>3, <3>4
    <3>7. t \in all
      BY <3>5, <3>6
    <3> HIDE DEF all
    <3> QED
      BY <3>5, <3>7
  <2> QED
    BY <2>4, <2>5, <2>6, <2>7, <2>8 DEF Kept
<1>7. F!Parse(lines).ok =>
        \A i \in DOMAIN lines :
             \/ lines[i].text.word \in kept \cup {""}
             \/ F!Repeated(lines, i)
             \/ i < Len(lines) /\ lines[i].indent = 0 /\ lines[i + 1].indent > 0
  BY <1>6
<1> QED
  BY <1>4, <1>7 DEF F!KeepsTexts

Words == {"", "k", "a", "b", "first", "second", "third", "fourth"}

LEMMA TextsAreOverWords ==
  ASSUME NEW word \in Words
  PROVE  {F!NoText, F!Text(word)} \subseteq WordsOver(Words)
<1>1. "" \in Words
  BY DEF Words
<1>2. \A w \in Words : F!Text(w) \in WordsOver(Words)
  BY <1>1 DEF F!Text, F!NoKey, WordsOver
<1>3. F!NoText = F!Text("")
  BY DEF F!NoText
<1> QED
  BY <1>1, <1>2, <1>3

LEMMA LinesAreOverWords ==
  ASSUME NEW word \in Words, NEW line \in LinesWith(word)
  PROVE  line \in LineOver(Words)
<1>1. {"", "k", "a", "b"} \subseteq Words
  BY DEF Words
<1>2. {F!NoText, F!Text(word)} \subseteq WordsOver(Words)
  BY TextsAreOverWords
<1>3. PICK S : S = {F!NoText, F!Text(word)}
  OBVIOUS
<1>4. line \in [indent : {0, 2, 4}, item : BOOLEAN, key : {"", "k", "a", "b"},
               text : S, quoted : {FALSE}]
  BY <1>3 DEF LinesWith
<1>5. PICK I, K, Q : I = {0, 2, 4} /\ K = {"", "k", "a", "b"} /\ Q = {FALSE}
  OBVIOUS
<1>6. I \subseteq Nat /\ K \subseteq Words /\ Q \subseteq BOOLEAN /\ S \subseteq WordsOver(Words)
  <2>1. 0 \in Nat /\ 2 \in Nat /\ 4 \in Nat
    OBVIOUS
  <2>2. I \subseteq Nat
    BY <1>5, <2>1, Zenon
  <2>3. Q \subseteq BOOLEAN
    BY <1>5, Zenon
  <2> QED
    BY <1>1, <1>2, <1>3, <1>5, <2>2, <2>3, Zenon
<1>7. line \in [indent : I, item : BOOLEAN, key : K, text : S, quoted : Q]
  BY <1>4, <1>5
<1> QED
  BY <1>6, <1>7 DEF LineOver

\* The lines that are checked are among them.
LEMMA LinesKept == AcceptedLinesAreKept
<1> SUFFICES ASSUME NEW first \in {F!NoText, F!Text("first")}, NEW second \in LinesWith("second"),
                    NEW third \in LinesWith("third"), NEW fourth \in LinesWith("fourth")
             PROVE  F!KeepsTexts(<<F!Line(0, FALSE, "k", first, FALSE), second, third, fourth>>)
  BY Zenon DEF AcceptedLinesAreKept
<1>1. PICK top : top = F!Line(0, FALSE, "k", first, FALSE)
  OBVIOUS
<1>2. {"", "k", "a", "b"} \subseteq Words /\ {"first", "second", "third", "fourth"} \subseteq Words
  BY DEF Words
<1>3. top \in LineOver(Words) /\ top.indent = 0
  <2>1. first \in WordsOver(Words)
    BY <1>2, TextsAreOverWords
  <2> QED
    BY <1>1, <1>2, <2>1 DEF F!Line, LineOver
<1>4. second \in LineOver(Words) /\ third \in LineOver(Words) /\ fourth \in LineOver(Words)
  <2>1. "second" \in Words /\ "third" \in Words /\ "fourth" \in Words
    BY <1>2
  <2> QED
    BY <2>1, LinesAreOverWords
<1>5. PICK lines : lines = <<top, second, third, fourth>>
  OBVIOUS
<1>6. lines \in Seq(LineOver(Words)) /\ lines[1] = top
  BY <1>3, <1>4, <1>5
<1>7. F!NoKey \in Words
  BY <1>2 DEF F!NoKey
<1>8. F!KeepsTexts(lines)
  BY <1>3, <1>6, <1>7, AnyFileKeepsItsTexts
<1> QED
  BY <1>1, <1>5, <1>8

\* No line of a hand-written specification is dropped silently, as TLC checks
\* it, line by line, for files of four lines.
THEOREM LinesAreKept == Spec => []AcceptedLinesAreKept
BY LinesKept, PTL
=============================================================================
