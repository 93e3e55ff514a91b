\* Two commands at a time, three releases of one or two files, a user.
SPECIFICATION Spec
CONSTANTS
  p1 = p1
  p2 = p2
  skill = skill
  prompt = prompt
  h1 = h1
  h2 = h2
  h3 = h3
  Proc <- TwoProcs
  Path <- Paths
  Sha <- Hashes
  Release <- Releases
  User = User
  Nothing = Nothing
SYMMETRY ProcsAreAlike
INVARIANTS TypeOK SetupTakesEffect NothingForgotten
PROPERTIES RemovalIsSelective
