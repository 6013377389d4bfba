SPECIFICATION Spec
CONSTANT Topics <- MappingTopics
CHECK_DEADLOCK FALSE
INVARIANT MemorySafe
