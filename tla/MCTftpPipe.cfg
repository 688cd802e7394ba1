SPECIFICATION Spec
CONSTANTS
  Chars = {"a", "cr", "lf", "nul"}
  MaxLen = 4
  BlkSizes = {1, 2, 3}
INVARIANTS EndToEnd ReadBufferFilled
CHECK_DEADLOCK FALSE
