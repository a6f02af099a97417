CONSTANTS
  Pins <- MCPins
  Bank0Pins <- MCBank0
  DefaultSwim = "gpio2"
  DefaultNrst = "gpio3"
  WiredSwim = "gpio2"
  WiredNrst = "gpio3"
  NoPin = "none"
  StallAttempts = 3
  MaxFaults = 2
CHECK_DEADLOCK TRUE
SPECIFICATION FairSpec
INVARIANT TypeOK
INVARIANT LinesReleased
INVARIANT DebugModuleAfterResync
PROPERTY EnterOkMeansStalled
PROPERTY EnterRecovers
PROPERTY SpeedsAgree
PROPERTY CommandsFinish
