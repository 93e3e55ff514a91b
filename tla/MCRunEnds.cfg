\* No faults; fair scheduling.
SPECIFICATION FairSpec
CONSTANTS
  c1 = c1
  c2 = c2
  Runtime = "run"
  Detached = TRUE
  Beats = 1
  Clients <- TwoClients
  Roles = {"cancel", "fast"}
  Faults = {}
  MaxDepth = 2
CHECK_DEADLOCK FALSE
PROPERTIES EverybodyEnds EventuallyTerminal
