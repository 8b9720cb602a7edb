SPECIFICATION Spec
CONSTANTS
  ResetTimeout = 2
  SuspendTimeout = 3
  SofTimeout = 2
  MayJump = FALSE
INVARIANT
  ActiveAfterReset
