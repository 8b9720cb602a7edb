SPECIFICATION Spec
CONSTANTS
  ResetTimeout = 2
  SuspendTimeout = 3
  SofTimeout = 2
  MayJump = TRUE
INVARIANTS
  TypeOK
  SilenceHeeded
  ResetByDuration
  ResumeTold
  HostLostTimely
PROPERTIES
  SuspendedWhenSilent
  ResetMeansDefault
  NoDirectExit
