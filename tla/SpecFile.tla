------------------------------ MODULE SpecFile ------------------------------
(***************************************************************************)
(* The file of a specification: how `mobius interview` and `mobius init`   *)
(* write it, the parser for "the project YAML subset" that reads it        *)
(* (workflow/seed.py, _YamlState), and the validation of what it returns.  *)
(* The parser is a state machine over lines; its state is a record, and    *)
(* one operator per handler takes it from line to line.                    *)
(*                                                                         *)
(* A line is its indentation and what the parser looks for in it.  Blank   *)
(* lines and comments, which it skips, are left out; so are JSON, and lines *)
(* with a colon and nothing before it: NoKey stands for no colon.          *)
(***************************************************************************)
EXTENDS Naturals, Sequences, SequencesExt

CONSTANTS
  NeedsQuotes,    \* words with a colon, a quote, several lines, ...
  HasQuotes,      \* words in which quoting escapes something
  SeveralLines    \* words with a line break

NoKey == ""

\* A text is a word, whether quoting has escaped it, and a key that the
\* parser has left in it ("key: word").
Text(word) == [word |-> word, escaped |-> FALSE, prefix |-> NoKey]

NoText == Text("")

\* A line: "- " or not, the part before a colon, and the rest.
Line(indent, item, key, text, quoted) ==
  [indent |-> indent, item |-> item, key |-> key, text |-> text, quoted |-> quoted]

Blank(line) == line.text = NoText /\ ~ line.quoted

\* A dash with nothing behind it is no item; it has no colon either.
IsItem(line) == line.item /\ ~ (line.key = NoKey /\ Blank(line))

-----------------------------------------------------------------------------
(* Writing *)

\* Mutant of ScalarLine: texts are not quoted, a colon makes a key of them.
ScalarLineBare(indent, item, key, word) ==
  IF key = NoKey /\ word \in NeedsQuotes
  THEN Line(indent, item, "part of the text", Text(word), FALSE)
  ELSE Line(indent, item, key, Text(word), FALSE)

\* A key or a dash and _yaml_scalar; quoting escapes, unquoting does not undo it.
ScalarLine(indent, item, key, word) ==
  Line(indent, item, key, [Text(word) EXCEPT !.escaped = word \in HasQuotes],
       word = "" \/ word \in NeedsQuotes)

\* The lines of a scalar: a line break is written as it is.
ScalarLines(indent, item, key, word) ==
  <<ScalarLine(indent, item, key, word)>>
    \o (IF word \in SeveralLines THEN <<Line(0, FALSE, NoKey, Text(word), FALSE)>> ELSE <<>>)

KeyLine(indent, key) == Line(indent, FALSE, key, NoText, FALSE)

\* _yaml_list; "[]" is neither an item nor a key.
ListLines(indent, words) ==
  IF words = <<>> THEN <<Line(indent, FALSE, NoKey, Text("[]"), FALSE)>>
  ELSE FlattenSeq([i \in DOMAIN words |-> ScalarLines(indent, TRUE, NoKey, words[i])])

Body(doc) ==
  ScalarLines(0, FALSE, "goal", doc.goal)
    \o <<KeyLine(0, "constraints")>> \o ListLines(2, doc.constraints)
    \o <<KeyLine(0, "success_criteria")>> \o ListLines(2, doc.success)

\* render_spec_yaml.  Its other scalars and components are lines of the same two
\* kinds, which validation accepts and drops: one of each stands for them.
InterviewLines(doc) ==
  <<ScalarLine(0, FALSE, "session_id", "session"),
    ScalarLine(0, FALSE, "project_type", doc.type),
    ScalarLine(0, FALSE, "ambiguity_score", "score"),
    KeyLine(0, "ambiguity_components"), ScalarLine(2, FALSE, "goal", "score")>>
    \o Body(doc)
    \o (IF doc.type = "brownfield" THEN ScalarLines(0, FALSE, "context", doc.context) ELSE <<>>)

\* A step as render_spec writes it, and with the field it never writes.
StepLines(step) ==
  <<ScalarLine(2, TRUE, "name", step.name)>>
    \o (IF step.command = "" THEN <<>> ELSE <<ScalarLine(4, FALSE, "command", step.command)>>)
    \o (IF step.depends_on = <<>> THEN <<>>
        ELSE <<KeyLine(4, "depends_on")>> \o ListLines(6, step.depends_on))

\* render_spec
TemplateLines(doc) ==
  <<ScalarLine(0, FALSE, "project_type", doc.type)>>
    \o Body(doc)
    \o (IF doc.steps = <<>> THEN <<>>
        ELSE <<KeyLine(0, "steps")>>
               \o FlattenSeq([i \in DOMAIN doc.steps |-> StepLines(doc.steps[i])]))
    \o (IF doc.matrix = <<>> THEN <<>>
        ELSE <<KeyLine(0, "matrix")>>
               \o FlattenSeq([i \in DOMAIN doc.matrix |->
                    <<KeyLine(2, doc.matrix[i].axis)>> \o ListLines(4, doc.matrix[i].values)]))

-----------------------------------------------------------------------------
(* Values: what the parser puts behind a key *)

Null == [kind |-> "null"]
Scalar(text) == [kind |-> "text", text |-> text]
ListOf(items) == [kind |-> "list", items |-> items]
MapOf(map) == [kind |-> "map", map |-> map]

EmptyMap == [k \in {} |-> Null]

Put(map, key, value) ==
  [k \in DOMAIN map \cup {key} |-> IF k = key THEN value ELSE map[k]]

-----------------------------------------------------------------------------
(* Parsing *)

Start ==
  [result  |-> EmptyMap,
   key     |-> NoKey,    \* current_key
   kind    |-> "none",   \* container_kind
   sub     |-> NoKey,    \* active_subkey
   item    |-> Null,     \* pending_item
   indent  |-> 0,        \* pending_item_indent
   listKey |-> NoKey,    \* pending_step_list_key
   ok      |-> TRUE]

Failed(s) == [s EXCEPT !.ok = FALSE]

Adds(s, item) == [s EXCEPT !.result[s.key].items = Append(@, item)]

\* Mutant of Flush: the pending item is forgotten.
FlushNothing(s) == [s EXCEPT !.item = Null, !.indent = 0, !.listKey = NoKey]

\* _flush_pending_item and _flush_pending_item_into: an item is only pending
\* while the current key has a list.
Flush(s) ==
  IF s.item = Null THEN s
  ELSE [Adds(s, s.item) EXCEPT !.item = Null, !.indent = 0, !.listKey = NoKey]

\* The text behind a dash, unquoted; a key in it is a part of it.
ItemText(line) == Scalar([line.text EXCEPT !.prefix = line.key])

HandleTopLevel(s, line) ==
  IF IsItem(line) \/ line.key = NoKey THEN Failed(s)
  ELSE [Flush(s) EXCEPT !.sub = NoKey, !.key = line.key, !.kind = "none",
          !.result = Put(@, line.key, IF Blank(line) THEN Null ELSE Scalar(line.text))]

\* Deeper than the dash of a pending item: a list in it, or a field of it.
HandlePendingItem(s, line) ==
  LET fields == s.item.map
  IN IF IsItem(line)
     THEN IF s.listKey = NoKey THEN Failed(s)
          ELSE [s EXCEPT !.item.map[s.listKey].items = Append(@, ItemText(line))]
     ELSE IF line.key = NoKey THEN Failed(s)
     ELSE IF Blank(line)
     THEN [s EXCEPT !.item = MapOf(Put(fields, line.key, ListOf(<<>>))), !.listKey = line.key]
     ELSE [s EXCEPT !.item = MapOf(Put(fields, line.key, Scalar(line.text))), !.listKey = NoKey]

\* A scalar behind the current key is replaced by the first item below it.
HandleListItem(s, line) ==
  IF s.sub # NoKey /\ s.kind = "mapping"
  THEN [s EXCEPT !.result[s.key].map[s.sub].items = Append(@, ItemText(line))]
  ELSE IF s.kind = "mapping" THEN Failed(s)
  ELSE LET list == IF s.kind = "list" THEN Flush(s)
                   ELSE [s EXCEPT !.result[s.key] = ListOf(<<>>), !.kind = "list"]
       IN IF line.key = NoKey THEN Adds(list, ItemText(line))
          ELSE [list EXCEPT !.item = MapOf(Put(EmptyMap, line.key, Scalar(line.text))),
                  !.indent = line.indent, !.listKey = NoKey]

\* ... or by the first entry.
HandleMappingEntry(s, line) ==
  IF s.kind = "list" THEN Failed(s)
  ELSE LET map == IF s.kind = "mapping" THEN s.result[s.key].map ELSE EmptyMap
           value == IF Blank(line) THEN ListOf(<<>>) ELSE Scalar(line.text)
       IN [s EXCEPT !.result[s.key] = MapOf(Put(map, line.key, value)), !.kind = "mapping",
             !.sub = IF Blank(line) THEN line.key ELSE NoKey]

HandleIndented(s, line) ==
  IF s.key = NoKey THEN Failed(s)
  ELSE IF s.item # Null /\ line.indent > s.indent THEN HandlePendingItem(s, line)
  ELSE IF IsItem(line) THEN HandleListItem(s, line)
  ELSE IF line.key = NoKey THEN Failed(s)
  ELSE HandleMappingEntry(s, line)

\* The first error ends the parse.
HandleLine(s, line) ==
  IF ~ s.ok THEN s
  ELSE IF line.indent = 0 THEN HandleTopLevel(s, line)
  ELSE HandleIndented(s, line)

\* The text is stripped before it is split: its first line is not indented.
\* A key with nothing behind or below it is an empty list.
Parse(lines) ==
  LET stripped == [lines EXCEPT ![1].indent = 0]
      after[i \in 0..Len(lines)] ==
        IF i = 0 THEN Start ELSE HandleLine(after[i - 1], stripped[i])
      end == Flush(after[Len(lines)])
  IN [ok |-> end.ok,
      values |-> [k \in DOMAIN end.result |->
                    IF end.result[k] = Null THEN ListOf(<<>>) ELSE end.result[k]]]

-----------------------------------------------------------------------------
(* Validation *)

AllowedKeys ==
  {"session_id", "project_type", "goal", "constraints", "success_criteria", "success",
   "context", "steps", "matrix", "metadata", "template", "ambiguity_score",
   "ambiguity_gate", "ambiguity_components"}

Get(map, key, default) == IF key \in DOMAIN map THEN map[key] ELSE default

\* str() of a mapping is a text nobody has written.
ItemAsText(item) == IF item.kind = "text" THEN item.text ELSE Text("{...}")

AsTextList(value) ==
  CASE value.kind = "list" ->
         SelectSeq([i \in DOMAIN value.items |-> ItemAsText(value.items[i])],
                   LAMBDA text : text # NoText)
    [] value.kind = "text" /\ value.text # NoText -> <<value.text>>
    [] OTHER -> <<>>

\* Several items are joined; what text that makes is left out.
AsText(value) ==
  LET items == AsTextList(value)
  IN CASE items = <<>> -> NoText
       [] Len(items) = 1 -> items[1]
       [] OTHER -> Text("...")

Step(name, command, depends_on) ==
  [name |-> name, command |-> command, depends_on |-> depends_on]

StepOf(item) ==
  IF item.kind = "text" THEN Step(item.text, NoText, <<>>)
  ELSE Step(AsText(Get(item.map, "name", Null)), AsText(Get(item.map, "command", Null)),
            AsTextList(Get(item.map, "depends_on", Null)))

\* _normalize_steps: named, each name once, and dependencies that are declared.
StepsAreSound(steps) ==
  LET names == [i \in DOMAIN steps |-> steps[i].name]
  IN /\ NoText \notin ToSet(names) /\ IsInjective(names)
     /\ \A i \in DOMAIN steps : ToSet(steps[i].depends_on) \subseteq ToSet(names)

Steps(values) ==
  LET raw == Get(values, "steps", ListOf(<<>>))
  IN IF raw.kind = "list" THEN [i \in DOMAIN raw.items |-> StepOf(raw.items[i])] ELSE <<>>

Entries(values, key) == Get(values, key, MapOf(EmptyMap))

\* validate_seed_spec, except for the template and the metadata.
Spec(values) ==
  [type        |-> AsText(Get(values, "project_type", Scalar(Text("greenfield")))),
   goal        |-> AsText(Get(values, "goal", Null)),
   constraints |-> AsTextList(Get(values, "constraints", Null)),
   success     |-> AsTextList(Get(values, "success_criteria", Get(values, "success", Null))),
   context     |-> AsText(Get(values, "context", Null)),
   steps       |-> Steps(values),
   matrix      |-> LET raw == Entries(values, "matrix")
                   IN IF raw.kind = "map" THEN [a \in DOMAIN raw.map |-> AsTextList(raw.map[a])]
                      ELSE EmptyMap]

Validates(values) ==
  LET spec == Spec(values)
  IN /\ DOMAIN values \subseteq AllowedKeys
     /\ spec.type.word \in {"greenfield", "brownfield"}
     /\ spec.goal # NoText /\ spec.constraints # <<>> /\ spec.success # <<>>
     /\ spec.type.word = "brownfield" => spec.context # NoText
     /\ Get(values, "steps", ListOf(<<>>)).kind = "list" /\ StepsAreSound(spec.steps)
     /\ Entries(values, "matrix").kind = "map"
     /\ \A a \in DOMAIN spec.matrix : a # NoKey /\ spec.matrix[a] # <<>>
     /\ Entries(values, "metadata").kind = "map"
     /\ \A k \in DOMAIN Entries(values, "metadata").map : k # NoKey

\* load_seed_spec
Accepts(lines) == Parse(lines).ok /\ Validates(Parse(lines).values)

Loaded(lines) == Spec(Parse(lines).values)

-----------------------------------------------------------------------------
(* Properties of documents and lines, for a module that bounds both *)

\* A text comes back with its escapes, if quoting has escaped something.
AsRead(word) == [Text(word) EXCEPT !.escaped = word \in HasQuotes]

Texts(words) == [i \in DOMAIN words |-> AsRead(words[i])]

\* What a document says, in the form of a loaded specification.
Meant(doc) ==
  [type        |-> Text(doc.type),
   goal        |-> AsRead(doc.goal),
   constraints |-> Texts(doc.constraints),
   success     |-> Texts(doc.success),
   context     |-> IF doc.type = "brownfield" THEN AsRead(doc.context) ELSE NoText,
   steps       |-> [i \in DOMAIN doc.steps |->
                      Step(AsRead(doc.steps[i].name), AsRead(doc.steps[i].command),
                           Texts(doc.steps[i].depends_on))],
   matrix      |-> [a \in {doc.matrix[i].axis : i \in DOMAIN doc.matrix} |->
                      Texts((CHOOSE m \in ToSet(doc.matrix) : m.axis = a).values)]]

\* What is written is read back as it was meant, or refused because a step
\* depends on a step that is not declared.  (A text in several lines is refused.)
RoundTrips(doc, lines) ==
  LET names == {doc.steps[i].name : i \in DOMAIN doc.steps}
  IN IF \A i \in DOMAIN doc.steps : ToSet(doc.steps[i].depends_on) \subseteq names
     THEN Accepts(lines) /\ Loaded(lines) = Meant(doc)
     ELSE ~ Accepts(lines)

TextsOf(value) ==
  CASE value.kind = "text" -> {value.text}
    [] value.kind = "list" ->
         UNION {IF item.kind = "text" THEN {item.text}
                ELSE UNION {IF field.kind = "text" THEN {field.text}
                            ELSE {t.text : t \in ToSet(field.items)}
                            : field \in {item.map[k] : k \in DOMAIN item.map}}
                : item \in ToSet(value.items)}
    [] value.kind = "map" ->
         UNION {IF entry.kind = "text" THEN {entry.text} ELSE {t.text : t \in ToSet(entry.items)}
                : entry \in {value.map[k] : k \in DOMAIN value.map}}

\* A later line gives a key again that has been given up to line i, other than
\* by starting an item of its own.
Repeated(lines, i) ==
  \E h \in 1..i, j \in (i + 1)..Len(lines) :
    /\ lines[j].key = lines[h].key /\ lines[h].key # NoKey
    /\ ~ lines[j].item

\* The text of every line is somewhere in the values the parser returns,
\* unless its key is repeated, or a block replaces a scalar.
KeepsTexts(lines) ==
  LET parse == Parse(lines)
      kept == {t.word : t \in UNION {TextsOf(parse.values[k]) : k \in DOMAIN parse.values}}
  IN parse.ok =>
       \A i \in DOMAIN lines :
         \/ lines[i].text.word \in kept \cup {""}
         \/ Repeated(lines, i)
         \/ i < Len(lines) /\ lines[i].indent = 0 /\ lines[i + 1].indent > 0
=============================================================================
