CONSTANTS
  d1 = d1
  d2 = d2
  s1 = s1
  s2 = s2
  Devices = {d1, d2}
  Slots = {s1, s2}
  MaxClock = 4
  Losses = TRUE
SPECIFICATION Spec
INVARIANTS
  DisabledIsOut
PROPERTIES
  SignedOutForGood
SYMMETRY Symmetry
CHECK_DEADLOCK FALSE
