CONSTANTS
  Pins <- MCPins
  Bank0Pins <- MCBank0
  DefaultSwim = "gpio2"
  DefaultNrst = "gpio3"
  WiredSwim = "gpio2"
  WiredNrst = "gpio3"
  NoPin = "none"
  StallAttempts = 1
  MaxFaults = 0
CHECK_DEADLOCK TRUE
SPECIFICATION Spec
INVARIANT ReadyMeansMeasured
