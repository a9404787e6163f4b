SPECIFICATION Session
CONSTANTS
  SpecKs = {2}
  MaxTokens = 3
  MaxPos = 18
  Words = {"a"}
  Stop = {"eos", "eot"}
  MaxLines = 2
INVARIANTS
  StateIsConversation
