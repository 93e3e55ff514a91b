------------------------------- MODULE Intake -------------------------------
(***************************************************************************)
(* From the answers of an interview to a seed: `mobius interview` scores   *)
(* the answers, refuses what is too ambiguous, records the session and     *)
(* writes the specification to a file; `mobius seed` finds a specification *)
(* by its path or by the session of its interview, validates it and        *)
(* records a session of its own; `mobius init` writes a specification from *)
(* a template.  Commands run concurrently, without a lock on the file, and *)
(* may die between any two steps.                                          *)
(*                                                                         *)
(* A text is one of four: none, vague (one of the markers), clear, or      *)
(* clear in several lines.  A list is the number of its items, all of them *)
(* one-line texts, and of the vague ones among them.                       *)
(***************************************************************************)
EXTENDS Integers

CONSTANTS
  Interview, Seed, Scaffold,   \* the commands; `mobius init` is a scaffold
  Path,              \* where specifications are written
  Answers,           \* what is answered in the interviews
  MaxItems           \* bound: length of the lists GateIsExact goes through

Text == {"none", "vague", "clear", "lines"}

List(max) == {l \in [items : 0..max, vague : 0..max] : l.vague <= l.items}

AnswersOver(max) ==
  [type : {"greenfield", "brownfield"}, goal : Text, constraints : List(max),
   success : List(max), context : Text]

ASSUME ConstantsOK ==
  /\ MaxItems \in Nat
  /\ Answers \subseteq AnswersOver(MaxItems)
  /\ (Interview \cup Path \cup Scaffold) \cap Seed = {}
  /\ Interview \cap (Path \cup Scaffold) = {}

VARIABLES
  pc,        \* where each command is
  answers,   \* of each interview
  path,      \* the output of each interview and scaffold
  file,      \* the content of each path
  session,   \* the row of each command's session and the number of its events
  source,    \* what each seed was asked for: a path or an interview's session
  found,     \* the path a seed has resolved its source to
  spec,      \* the specification a seed has loaded
  mine       \* history: since an interview opened its file, nobody else wrote it

Command == Interview \cup Seed \cup Scaffold

Writer == Interview \cup Scaffold

vars == <<pc, answers, path, file, session, source, found, spec, mine>>

-----------------------------------------------------------------------------
(* The ambiguity gate; components in thousandths, weights in hundredths *)

ScalarAmbiguity(text) == IF text \in {"none", "vague"} THEN 1000 ELSE 0

\* n/d in thousandths, rounded.  A tie, which floating point would decide,
\* does not occur in a list of up to twelve items.
Thousandths(n, d) == (2000 * n + d) \div (2 * d)

ListAmbiguity(list) ==
  IF list.items = 0 THEN 1000 ELSE Thousandths(list.vague, list.items)

Weighted(a) ==
  IF a.type = "brownfield"
  THEN 30 * ScalarAmbiguity(a.goal) + 25 * ListAmbiguity(a.constraints)
         + 25 * ListAmbiguity(a.success) + 20 * ScalarAmbiguity(a.context)
  ELSE 40 * ScalarAmbiguity(a.goal) + 30 * ListAmbiguity(a.constraints)
         + 30 * ListAmbiguity(a.success)

\* Mutant of Passed: the sum is not rounded.
PassedUnrounded(a) == Weighted(a) <= 20000

\* The score is rounded to thousandths before it is compared with 0.2.
Passed(a) == Thousandths(Weighted(a), 100000) <= 200

-----------------------------------------------------------------------------
(* The file of a specification *)

Absent == [by |-> "absent"]
Truncated == [by |-> "truncated"]
Garbled == [by |-> "garbled"]       \* the texts of two writers over each other

\* render_spec_yaml: what the interview knows, the context if it matters; or
\* render_spec: a template, which has nothing to do with anybody's answers.
Rendered(w) ==
  IF w \in Interview THEN [by |-> w, answers |-> answers[w]] ELSE [by |-> "template"]

\* A text in several lines is quoted but not folded; the parser, which reads
\* line by line, refuses the second (neither blank, nor a comment, nor a key).
Parses(a) ==
  /\ a.goal # "lines"
  /\ a.type = "brownfield" => a.context # "lines"

\* validate_seed_spec
Validates(a) ==
  /\ a.goal # "none" /\ a.constraints.items > 0 /\ a.success.items > 0
  /\ a.type = "brownfield" => a.context # "none"

Valid(a) == Parses(a) /\ Validates(a)

-----------------------------------------------------------------------------
\* Before the interview.
Unknown == [type |-> "unknown"]

Init ==
  /\ pc = [c \in Command |-> "idle"]
  /\ answers = [i \in Interview |-> Unknown]
  /\ path = [w \in Writer |-> "none"]
  /\ source = [s \in Seed |-> "none"]
  /\ file = [p \in Path |-> Absent]
  /\ session = [c \in Interview \cup Seed |-> [status |-> "none", events |-> 0]]
  /\ found = [s \in Seed |-> "none"]
  /\ spec = [s \in Seed |-> Absent]
  /\ mine = [i \in Interview |-> FALSE]

Goes(c, label) == pc' = [pc EXCEPT ![c] = label]

\* Questions of an interview; the context is asked for in brownfield only.
Questions(i) == IF answers[i].type = "brownfield" THEN 6 ELSE 5

\* Events of a command that completes.
Total(c) == IF c \in Interview THEN Questions(c) + 2 ELSE 3

\* create_session and append_event; c goes on to `after` behind its last event.
Creates(c) ==
  /\ pc[c] = "create"
  /\ session' = [session EXCEPT ![c].status = "running"]
  /\ Goes(c, "record")
  /\ UNCHANGED <<answers, path, file, source, found, spec, mine>>

Records(c, last, after) ==
  /\ pc[c] = "record"
  /\ session' = [session EXCEPT ![c].events = @ + 1]
  /\ Goes(c, IF session[c].events + 1 < last THEN "record" ELSE after)
  /\ UNCHANGED <<answers, path, file, source, found, spec, mine>>

Ends(c) ==
  /\ pc[c] = "end"
  /\ session' = [session EXCEPT ![c].status = "completed"]
  /\ Goes(c, "done")
  /\ UNCHANGED <<answers, path, file, source, found, spec, mine>>

\* A command is killed, or the store stays locked for too long.
Dies(c) ==
  /\ pc[c] \notin {"idle", "done", "rejected", "refused", "unresolved", "invalid", "dead"}
  /\ Goes(c, "dead")
  /\ UNCHANGED <<answers, path, file, session, source, found, spec, mine>>

-----------------------------------------------------------------------------
(* mobius interview *)

\* Nothing is recorded of an interview that is too ambiguous.
Gates(i, a, p) ==
  /\ pc[i] = "idle"
  /\ answers' = [answers EXCEPT ![i] = a] /\ path' = [path EXCEPT ![i] = p]
  /\ Goes(i, IF Passed(a) THEN "create" ELSE "rejected")
  /\ UNCHANGED <<file, session, source, found, spec, mine>>

Answered(i) == Records(i, Total(i) - 1, "open")

Sharing(w) == {v \in Writer \ {w} : path[v] = path[w]}

\* Whose file is still its own when w opens it, or writes to it.
StaysMine(j, w) == mine[j] /\ j \notin Sharing(w)

\* Mutant of Opens: the completion is recorded before the file is written.
OpensLate(w) ==
  /\ pc[w] = "open"
  /\ file' = [file EXCEPT ![path[w]] = Truncated]
  /\ session' = [c \in DOMAIN session |-> IF c = w THEN [session[c] EXCEPT !.events = @ + 1]
                                          ELSE session[c]]
  /\ mine' = [j \in Interview |-> IF j = w THEN \A k \in Sharing(w) : pc[k] # "write"
                                  ELSE StaysMine(j, w)]
  /\ Goes(w, "write")
  /\ UNCHANGED <<answers, path, source, found, spec>>

\* write_text opens the file, which empties it ...
Opens(w) ==
  /\ pc[w] = "open"
  /\ file' = [file EXCEPT ![path[w]] = Truncated]
  /\ mine' = [j \in Interview |-> IF j = w THEN \A k \in Sharing(w) : pc[k] # "write"
                                  ELSE StaysMine(j, w)]
  /\ Goes(w, "write")
  /\ UNCHANGED <<answers, path, session, source, found, spec>>

\* ... and writes.  What another one has written since may show behind.  A
\* scaffold then opens the store (StoreOpen) and is done.
Writes(w) ==
  /\ pc[w] = "write"
  /\ \E content \in {Rendered(w)} \cup (IF file[path[w]] = Truncated THEN {} ELSE {Garbled}) :
       file' = [file EXCEPT ![path[w]] = content]
  /\ mine' = [j \in Interview |-> StaysMine(j, w)]
  /\ Goes(w, IF w \in Interview THEN "complete" ELSE "done")
  /\ UNCHANGED <<answers, path, session, source, found, spec>>

\* Mutant of Completes: one event too many.
CompletesTwice(i) ==
  /\ pc[i] = "complete"
  /\ session' = [session EXCEPT ![i].events = Total(i) + 1]
  /\ Goes(i, "end")
  /\ UNCHANGED <<answers, path, file, source, found, spec, mine>>

Completes(i) ==
  /\ pc[i] = "complete"
  /\ session' = [session EXCEPT ![i].events = Total(i)]
  /\ Goes(i, "end")
  /\ UNCHANGED <<answers, path, file, source, found, spec, mine>>

-----------------------------------------------------------------------------
(* mobius init *)

\* Without --force it spares the file it finds, at the time it looks.
Scaffolds(n, p, force) ==
  /\ pc[n] = "idle"
  /\ path' = [path EXCEPT ![n] = p]
  /\ Goes(n, IF file[p] = Absent \/ force THEN "open" ELSE "refused")
  /\ UNCHANGED <<answers, file, session, source, found, spec, mine>>

-----------------------------------------------------------------------------
(* mobius seed *)

\* A session whose events end in the completion, which names the output.
Output(i) ==
  IF session[i].events > 0 /\ session[i].events = Total(i) THEN path[i] ELSE "none"

\* _resolve_spec_path; the file of an output must exist as well.  A session
\* without a completion and a source that is not found end the command with
\* different errors and the same state: both are "unresolved".
Resolves(s, asked) ==
  /\ pc[s] = "idle"
  /\ source' = [source EXCEPT ![s] = asked]
  /\ LET p == IF asked \in Path THEN asked ELSE Output(asked)
         exists == p # "none" /\ file[p] # Absent
     IN /\ found' = [found EXCEPT ![s] = IF exists THEN p ELSE "none"]
        /\ Goes(s, IF exists THEN "load" ELSE "unresolved")
  /\ UNCHANGED <<answers, path, file, session, spec, mine>>

\* load_seed_spec: an empty file is refused; of two texts over each other
\* the parser may make anything.  Every template is valid.
Accepts(content) ==
  CASE content \in {Absent, Truncated} -> {FALSE}
    [] content = Garbled -> BOOLEAN
    [] content = [by |-> "template"] -> {TRUE}
    [] OTHER -> {Valid(content.answers)}

Loads(s) ==
  /\ pc[s] = "load"
  /\ \E ok \in Accepts(file[found[s]]) :
       /\ spec' = [spec EXCEPT ![s] = IF ok THEN file[found[s]] ELSE Absent]
       /\ Goes(s, IF ok THEN "create" ELSE "invalid")
  /\ UNCHANGED <<answers, path, file, session, source, found, mine>>

Seeded(s) == Records(s, Total(s), "end")

Next ==
  \/ \E i \in Interview :
       \/ \E a \in Answers, p \in Path : Gates(i, a, p)
       \/ Answered(i) \/ Completes(i)
  \/ \E w \in Writer : Opens(w) \/ Writes(w)
  \/ \E n \in Scaffold, p \in Path, force \in BOOLEAN : Scaffolds(n, p, force)
  \/ \E s \in Seed :
       \/ \E asked \in Path \cup Interview : Resolves(s, asked)
       \/ Loads(s) \/ Seeded(s)
  \/ \E c \in Interview \cup Seed : Creates(c) \/ Ends(c)
  \/ \E c \in Command : Dies(c)

Spec == Init /\ [][Next]_vars

-----------------------------------------------------------------------------
(* Properties *)

Labels == {"idle", "create", "record", "open", "write", "complete", "end", "done",
           "load", "rejected", "refused", "unresolved", "invalid", "dead"}

Rendering == [by : Interview, answers : Answers] \cup {[by |-> "template"]}

\* Every variable has its type.
TypeOK ==
  /\ pc \in [Command -> Labels]
  /\ answers \in [Interview -> Answers \cup {Unknown}]
  /\ path \in [Writer -> Path \cup {"none"}]
  /\ file \in [Path -> Rendering \cup {Absent, Truncated, Garbled}]
  /\ session \in [Interview \cup Seed ->
                    [status : {"none", "running", "completed"}, events : 0..8]]
  /\ \A c \in Interview \cup Seed : session[c].events > 0 => session[c].events <= Total(c)
  /\ source \in [Seed -> Path \cup Interview \cup {"none"}] /\ found \in [Seed -> Path \cup {"none"}]
  /\ spec \in [Seed -> Rendering \cup {Absent, Garbled}]
  /\ mine \in [Interview -> BOOLEAN]

Ratio(list) ==
  IF list.items = 0 THEN [n |-> 1, d |-> 1] ELSE [n |-> list.vague, d |-> list.items]

\* The weighted ambiguity, as an exact fraction, is at most 0.2.
Exactly(a) ==
  LET c == Ratio(a.constraints)
      u == Ratio(a.success)
      g == ScalarAmbiguity(a.goal) \div 1000
      x == ScalarAmbiguity(a.context) \div 1000
  IN IF a.type = "brownfield"
     THEN 25 * (c.n * u.d + u.n * c.d) <= (20 - 30 * g - 20 * x) * c.d * u.d
     ELSE 30 * (c.n * u.d + u.n * c.d) <= (20 - 40 * g) * c.d * u.d

\* The gate decides as if it computed exactly, although components and score
\* are rounded to thousandths: rounding refuses nothing that lies on the
\* threshold and lets nothing through that lies above.  True of lists of up to
\* twelve items; with thirteen, 0.25 * 4/7 + 0.25 * 3/13 > 0.2 gets through.
GateIsExact ==
  (\A c \in Command : pc[c] = "idle")
    => \A a \in AnswersOver(MaxItems) : Passed(a) <=> Exactly(a)

\* A seed made from an interview's session is made from what that interview
\* has written, unless another one, or a scaffold, has written to the same file
\* since it was opened.  Before the interview is complete the seed does not get to
\* a file; once it has loaded one, it is refused as invalid only for what was
\* answered, never because the file was not there yet or half written.
SeedsWhatWasAsked ==
  \A s \in Seed :
    LET i == source[s]
    IN i \in Interview /\ mine[i] =>
         /\ spec[s] # Absent => spec[s] = Rendered(i)
         /\ pc[s] = "invalid" => ~ Valid(answers[i])
=============================================================================
