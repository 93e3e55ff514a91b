------------------------------ MODULE MCIntake ------------------------------
(* A small instance of Intake for TLC, and of the files it is about. *)
EXTENDS Intake, TLC

CONSTANTS i1, i2, s1, n1, f1, f2

TwoInterviews == {i1, i2}
OneSeed == {s1}
OneScaffold == {n1}
TwoPaths == {f1, f2}

Answer(type, goal, constraints, success, context) ==
  [type |-> type, goal |-> goal,
   constraints |-> constraints, success |-> success, context |-> context]

Of(items, vague) == [items |-> items, vague |-> vague]

\* One that passes with a vague item, one that is too vague, one whose goal
\* has several lines, and brownfield projects with and without a context.
SomeAnswers ==
  {Answer("greenfield", "clear", Of(3, 2), Of(1, 0), "none"),
   Answer("greenfield", "vague", Of(1, 0), Of(1, 0), "none"),
   Answer("greenfield", "lines", Of(1, 0), Of(1, 0), "none"),
   Answer("brownfield", "clear", Of(1, 0), Of(1, 0), "clear"),
   Answer("brownfield", "clear", Of(1, 0), Of(1, 0), "none")}

Alike == Permutations(TwoInterviews) \cup Permutations(TwoPaths)

-----------------------------------------------------------------------------
(* Documents and lines *)

F == INSTANCE SpecFile WITH
       NeedsQuotes <- {"a: b", "a \"b\"", "two lines"}, HasQuotes <- {"a \"b\""},
       SeveralLines <- {"two lines"}

Plain == {"text", "a: b"}

Lists == {<<"a: b">>, <<"text", "a: b">>}

StepsNamed(name) ==
  [name : {name}, command : {"", "a \"b\""} \cup Plain,
   depends_on : {<<>>, <<"text">>, <<"text", "a: b">>, <<"absent">>}]

StepLists ==
  {<<>>} \cup {<<s>> : s \in StepsNamed("text")}
    \cup {<<s, t>> : s \in StepsNamed("text"), t \in StepsNamed("a: b")}

Matrices ==
  {<<>>} \cup {<<[axis |-> "a", values |-> v]>> : v \in Lists}
    \cup {<<[axis |-> "a", values |-> v], [axis |-> "b", values |-> v]>> : v \in Lists}

Templates ==
  [type : {"greenfield"}, goal : Plain \cup {"a \"b\""}, constraints : Lists, success : {<<"text">>},
   context : {""}, steps : StepLists, matrix : Matrices]

\* The document of an interview with these answers.
WordOf(text) ==
  CASE text = "none" -> "" [] text = "vague" -> "text" [] text = "clear" -> "a: b"
    [] text = "lines" -> "two lines"

WordsOf(list) == [k \in 1..list.items |-> WordOf(IF k <= list.vague THEN "vague" ELSE "clear")]

DocumentOf(a) ==
  [type |-> a.type, goal |-> WordOf(a.goal), constraints |-> WordsOf(a.constraints),
   success |-> WordsOf(a.success), context |-> WordOf(a.context), steps |-> <<>>, matrix |-> <<>>]

\* Files are functions of what is written: they are checked once.
AtTheStart == \A c \in Command : pc[c] = "idle"

\* Every template, with all combinations of steps, dependencies and axes, and
\* every interview that module Intake takes for valid is read back from its
\* file as it was meant, but for the escapes of quotes, which stay in the texts;
\* every other interview's file is refused.
SpecsRoundTrip ==
  AtTheStart =>
    /\ \A doc \in Templates : F!RoundTrips(doc, F!TemplateLines(doc))
    /\ \A a \in AnswersOver(2) :
         LET lines == F!InterviewLines(DocumentOf(a))
         IN IF Valid(a) THEN F!RoundTrips(DocumentOf(a), lines) ELSE ~ F!Accepts(lines)

\* Lines below a top-level key, in any order and at any of three depths, each
\* with a text of its own or none.
LinesWith(word) ==
  [indent : {0, 2, 4}, item : BOOLEAN, key : {"", "k", "a", "b"},
   text : {F!NoText, F!Text(word)}, quoted : {FALSE}]

\* No line of a hand-written specification is dropped silently: the parser
\* refuses the file or keeps the line's text, unless a key is given twice or
\* a block stands below a key that has a value.
AcceptedLinesAreKept ==
  AtTheStart =>
    \A first \in {F!NoText, F!Text("first")}, second \in LinesWith("second"),
       third \in LinesWith("third"), fourth \in LinesWith("fourth") :
      F!KeepsTexts(<<F!Line(0, FALSE, "k", first, FALSE), second, third, fourth>>)
=============================================================================
