SPECIFICATION Spec
CONSTANTS
  SegSize = 1
  TIMEOUT = 1
  MaxTimeouts = 2
  Srv = {s1}
  NoSrv = NoSrv
  Byte = {"b1", "b2", "b3", "b4", "nul"}
  BlockMod = 16
  Faults = {"send", "read", "write"}
  Files <- OneFile
  Jobs <- OneJob
  BlkSizes = {2}
  Rexmts = {2}
  MaxTimes = {3}
  Toggles = {TRUE}
  Registers = {}
INVARIANTS GetComplete
CHECK_DEADLOCK FALSE
