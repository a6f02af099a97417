CONSTANTS
  Exchanges <- MCExchanges
  Rises <- MCRises
  FIFO = 2
  TIMEOUT = 100
  LATE = 1
  REG = 1024
SPECIFICATION Spec
INVARIANT TypeOK
INVARIANT WholeFrame
INVARIANT ResponseIsOwn
INVARIANT AnswerHeard
INVARIANT ProgramsFit
PROPERTY ExchangesEnd
