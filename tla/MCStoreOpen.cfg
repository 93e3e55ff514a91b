\* Three processes open a store that does not exist; anything may fail, and
\* whoever has a statement to run is scheduled.
SPECIFICATION FairSpec
CONSTANTS
  p1 = p1
  p2 = p2
  p3 = p3
  None = None
  Proc <- ThreeProcs
  Faults = {"crash", "error", "busy"}
CHECK_DEADLOCK FALSE
INVARIANTS MigratedMeansComplete WritersFindTables
PROPERTIES EveryOpenSucceeds
