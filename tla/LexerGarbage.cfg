SPECIFICATION FairSpec
CONSTANTS
  MaxLen = 4
  Texts <- AllTexts
  PageSize = 4
CHECK_DEADLOCK FALSE
PROPERTIES
  GarbageIsIgnored
