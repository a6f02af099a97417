CONSTANTS
  SEQ = 3
  HDR = 2
  Commands = {"read", "write"}
  GetLastError = "last_error"
  Slow = {"write"}
  RequestLen <- MCRequestLen
  ReplyLen <- MCReplyLen
  ErrorLen = 1
  MaxRequests = 4
  MaxSessions = 2
CHECK_DEADLOCK FALSE
SPECIFICATION FairSpec
INVARIANT TypeOK
INVARIANT AnswerIsOwn
INVARIANT TextIsOwn
INVARIANT NothingLost
INVARIANT MismatchOnlyIfLate
PROPERTY RunsWholeOnce
PROPERTY CallsReturn
