CONSTANTS
  BYTE = 2
  WORD = 16
  CHUNK = 2
  Values = {0, 1, 2}
  Requests <- MCRequests
  First <- MCFirst
  MaxFaults = 2
CHECK_DEADLOCK TRUE
SPECIFICATION FairSpec
INVARIANT TypeOK
INVARIANT InStep
PROPERTY OkMeansDone
PROPERTY Implements
PROPERTY CallsEnd
