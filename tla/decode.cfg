SPECIFICATION Spec
CONSTANTS
  Tok <- MCTok
  Stop <- MCStop
  Modes <- MCModes
  Argmax <- ToyArgmax
  Prompts <- MCPrompts
  MaxTurns = 2
INVARIANTS
  StateIsCommitted
  MtpFollowsState
  RowsWithinReserve
PROPERTIES
  ImplementsStream
  TurnEnds
