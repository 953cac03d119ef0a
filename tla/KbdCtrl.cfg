SPECIFICATION Spec
CONSTANTS
  MaxBytes = 3
  Keys = {30, 200, 202}
INVARIANT CtrlFollowsKey
CHECK_DEADLOCK FALSE
