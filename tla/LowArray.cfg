SPECIFICATION FairSpec
CONSTANTS
  Values = {a, b}
  Undef = undef
  UIntMod = 16
  ItemSize = 2
  MaxItems = 4
INVARIANTS
  NoFault
  BlockHoldsCapacity
PROPERTIES
  GrowthIsGeometric
  InsertReturns
  ImplementsArraySpec
