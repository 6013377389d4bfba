SPECIFICATION FairSpec
CONSTANTS
  MaxLen = 5
  Texts <- AllTexts
  PageSize = 4
CHECK_DEADLOCK FALSE
INVARIANTS
  TypeInvariant
  LineStart
  TokenLocation
  NothingLost
  SemicolonRule
PROPERTIES
  Finishes
