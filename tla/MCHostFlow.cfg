CONSTANTS
  Commands <- MCCommands
  Files <- MCFiles
  BYTE = 4
  PARA = 1
  LINEAR = 8
  FlashStart = 8
  FlashSize = 4
  BlockSize = 2
  Fresh <- MCFresh
  Attempts = 3
  MaxFaults = 2
  MaxCmds = 3
SPECIFICATION Spec
INVARIANT TypeOK
INVARIANT RefusalsExact
INVARIANT FlashedMeansImage
INVARIANT RopOkMeansActive
PROPERTY FlowsEnd
CHECK_DEADLOCK FALSE
