SPECIFICATION Spec
CONSTANTS
  Scope <- MCScope
  Programs <- AllPrograms
CHECK_DEADLOCK FALSE
INVARIANTS
  AcceptedIsTyped
  TypedIsAccepted
  RefusedWithMessage
