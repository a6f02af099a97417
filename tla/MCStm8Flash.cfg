CONSTANTS
  WORD = 32
  WIRE = 16
  BLOCK = 4
  OptionStart = 12
  OptionEnd = 16
  Protected <- MCProtected
  EraseRequests <- MCErase
  WriteRequests <- MCWrite
  OptionRequests <- MCOption
  Erased = 0
  Old = 1
  MaxPolls = 2
  MaxFaults = 1
  MaxCmds = 2
CHECK_DEADLOCK TRUE
SPECIFICATION FairSpec
INVARIANT TypeOK
INVARIANT OnlyRequested
INVARIANT BusyRespected
INVARIANT DiagTellsResult
PROPERTY OkMeansDone
PROPERTY CommandsFinish
