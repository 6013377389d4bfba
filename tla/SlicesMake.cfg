\* make writes behind the end of the new array.
CONSTANTS
  Names = {"s", "t"}
  Mod = 8
  MaxSize = 2
  Counts <- SomeCounts
  Starts <- SomeStarts
  Ends = {0, 2}
  MaxBlocks = 2
  Undef = Undef
SPECIFICATION Spec
INVARIANT
  MakeStaysInBlock
