\* Three processes append to, and mark crashed, one aggregate: twice with an
\* identifier of the store's own, and any number of times with the identifier
\* and the sequence of the bootstrap event, or with either of the two.
SPECIFICATION Spec
CONSTANTS
  p1 = p1
  p2 = p2
  p3 = p3
  a1 = a1
  u1 = u1
  u2 = u2
  c1 = c1
  None = None
  Proc <- ThreeProcs
  Agg <- OneAgg
  Uuid <- TwoUuids
  CallerId <- OneCaller
  CallerSeq = {1}
  Status = {"running", "crashed"}
  Terminal = {"crashed"}
  Running = "running"
  Crashed = "crashed"
SYMMETRY Alike
INVARIANTS AckedIsDurable RetryWritesOnce
PROPERTIES AppendRepairsIndex ImplementsLog
