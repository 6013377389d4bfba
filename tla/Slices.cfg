\* The slices of a program, used properly and improperly.
CONSTANTS
  Names = {"s", "t"}
  Mod = 8
  MaxSize = 2
  Counts <- SomeCounts
  Starts <- SomeStarts
  Ends = {0}
  MaxBlocks = 2
  Undef = Undef
SPECIFICATION FairSpec
INVARIANTS
  CapacityEndsAtBlock
  SafeUnlessMisused
  NothingUnwritten
PROPERTY
  MakeReturns
