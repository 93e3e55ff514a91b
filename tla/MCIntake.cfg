\* Two interviews, a seed and a scaffold over two files; lists of up to twelve
\* items.
SPECIFICATION Spec
CONSTANTS
  i1 = i1
  i2 = i2
  s1 = s1
  n1 = n1
  f1 = f1
  f2 = f2
  Interview <- TwoInterviews
  Seed <- OneSeed
  Scaffold <- OneScaffold
  Path <- TwoPaths
  Answers <- SomeAnswers
  MaxItems = 12
CHECK_DEADLOCK FALSE
SYMMETRY Alike
INVARIANTS TypeOK GateIsExact SeedsWhatWasAsked SpecsRoundTrip AcceptedLinesAreKept
