SPECIFICATION Spec
CONSTANTS
  COLS = 3
  ROWS = 3
  CMDLEN = 6
  Chars = {"a", "b"}
  Prompt <- MCPrompt
  Outputs <- MCOutputs
INVARIANTS
  TypeOK
  ScreenFollowsBuffer
PROPERTY BufferIsTheLine
CHECK_DEADLOCK FALSE
