\* Three commands use a new home at the same time or one after the other.
SPECIFICATION Spec
CONSTANTS
  c1 = c1
  c2 = c2
  c3 = c3
  profile = profile
  extra = extra
  dev = dev
  v = v
  Proc <- ThreeCommands
  Key <- TwoKeys
  Value <- TwoValues
  Default <- NewHome
  Unset = Unset
  Absent = Absent
  Torn = Torn
SYMMETRY CommandsAreAlike
CHECK_DEADLOCK FALSE
INVARIANTS NoCommandFails SetsSurvive SetsAreSeen
