SPECIFICATION Spec
CONSTANTS
  RelayTime = 3
  MaxEvents = 3
INVARIANT
  TypeOK
PROPERTIES
  PullupAsWanted
  WakesUp
