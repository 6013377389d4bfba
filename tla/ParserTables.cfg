SPECIFICATION FairSpec
CONSTANTS
  Grammars <- LowGrammars
  Tokens <- LowTokens
  MaxTokens = 6
  MaxRounds = 40
INVARIANTS
  OneActionPerToken
  AcceptsOnlySentences
  RejectsOnlyNonSentences
  StackDerivesText
  ReductionsFindTheirGoto
PROPERTIES
  Finishes
