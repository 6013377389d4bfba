SPECIFICATION FairSpec
CONSTANTS
  Invocations <- AllInvocations
  MaxNesting = 8
INVARIANTS
  DeclaredOnce
  ImportsFirst
  NothingMissed
  PositionalsLeft
  SuccessIsReal
  CallsAreBound
PROPERTIES
  Finishes
