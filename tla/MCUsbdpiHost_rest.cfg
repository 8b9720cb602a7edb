SPECIFICATION Spec
CONSTANTS
  MaxTries = 3
  Devices <- OnlyPrompt
  Tests <- OnlySmoke
  MaxDetach = 0
PROPERTIES
  SmokeComesToRest
CHECK_DEADLOCK FALSE
