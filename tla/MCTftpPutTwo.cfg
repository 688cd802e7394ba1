SPECIFICATION FairSpec
CONSTANTS
  SegSize = 1
  TIMEOUT = 1
  MaxTimeouts = 2
  Srv = {s1, s2}
  NoSrv = NoSrv
  Byte = {"b1", "b2", "b3", "b4", "nul"}
  BlockMod = 16
  Faults = {}
  Local <- OneFile
  Args <- OneArg
  Remote = {"a"}
  BlkSizes = {2}
  Toggles = {TRUE}
INVARIANTS PutWritten InStep
PROPERTIES ClientReturns ServersExit
CHECK_DEADLOCK FALSE
