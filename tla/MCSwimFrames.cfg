CONSTANTS
  SyncLows <- MCSyncLows
  Bytes <- MCBytes
  Commands <- MCCommands
SPECIFICATION Spec
INVARIANT TypeOK
INVARIANT DamageDetected
INVARIANT AnswerUnderstood
INVARIANT AckMeansHeard
