CONSTANTS
  SyncLows <- MCSyncLows
  Bytes = {}
  Commands <- MCCommands
SPECIFICATION Spec
INVARIANT CommResetFull
