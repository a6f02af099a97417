CONSTANTS
  WORD = 32
  WIRE = 16
  BLOCK = 4
  OptionStart = 12
  OptionEnd = 16
  Protected <- NoRequests
  EraseRequests <- WrapErase
  WriteRequests <- NoRequests
  OptionRequests <- NoRequests
  Erased = 0
  Old = 1
  MaxPolls = 2
  MaxFaults = 0
  MaxCmds = 1
CHECK_DEADLOCK TRUE
SPECIFICATION Spec
PROPERTY OkIsNotFaked
