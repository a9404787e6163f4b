SPECIFICATION Session
CONSTANTS
  SpecKs = {0, 1, 2}
  MaxTokens = 3
  MaxPos = 12
  Words = {"a"}
  Stop = {"eos", "eot"}
  MaxLines = 3
INVARIANTS
  TypeOK
  StateFollowsConversation
  StateFits
  OwnInterruptOnly
  ReplyWithinBudget
PROPERTIES
  GoesOnFromState
  TurnComesBack
