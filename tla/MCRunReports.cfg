\* A run of three events, polled and judged while it is written; and the
\* lineages of all tables of four sessions.
SPECIFICATION Spec
CONSTANTS
  Type = {"started", "completed", "crashed"}
  Terminal = {"completed", "crashed"}
  Spec_ <- SmallSpecs
  NoSpec = NoSpec
  MaxNodes = {0, 7}
  MaxEvents = 3
  MaxSessions = 4
CHECK_DEADLOCK FALSE
INVARIANTS TypeOK OutputIsTree PollerSeesAll VerdictsAgree LineageIsSymmetric TreeShowsParents
