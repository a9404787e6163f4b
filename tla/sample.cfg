SPECIFICATION Spec
CONSTANTS
  Vocab <- MCVocab
  Files <- MCFiles
  Flags <- MCFlags
  Weight <- MCWeight
  LogitRows <- MCLogitRows
  K = 2
INVARIANTS
  KeptIsWarped
  EmittedIsKept
  LosslessSampling
