CONSTANTS
  Workers = 2
  BlendEnabled = FALSE
  DemoEnabled = FALSE
  Boards <- StandInBoards
SPECIFICATION Spec
INVARIANT BandFloorHolds
CHECK_DEADLOCK FALSE
