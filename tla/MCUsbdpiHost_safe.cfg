SPECIFICATION Spec
CONSTANTS
  MaxTries = 3
  Devices <- AllDevices
  Tests <- AllTests
  MaxDetach = 1
INVARIANTS
  TypeOK
  TriesCounted
  SerialToggleAgreed
  PromptNeverFails
PROPERTIES
  SetupAnswered
  PromptReachesTest
  EveryTransferEnds
CHECK_DEADLOCK FALSE
