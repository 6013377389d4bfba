SPECIFICATION Spec
CONSTANT Topics <- AllTopics
CHECK_DEADLOCK FALSE
INVARIANTS
  MemorySafe
  FieldsFit
  OneOwner
  DisposalIsComplete
