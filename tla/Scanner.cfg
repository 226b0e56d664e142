CONSTANTS
  Workers = 2
  BlendEnabled = TRUE
  DemoEnabled = TRUE
  Boards <- AllBoards
SPECIFICATION Spec
INVARIANTS
  FloorHolds
  EdgeIsReal
  ProfitBounded
  CasesReached
  SameLegsAgree
  UniqueIds
  FailureContained
CHECK_DEADLOCK FALSE
