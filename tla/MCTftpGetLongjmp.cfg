SPECIFICATION Spec
CONSTANTS
  SegSize = 1
  TIMEOUT = 1
  MaxTimeouts = 2
  Srv = {s1}
  NoSrv = NoSrv
  Byte = {"b1", "b2", "b3", "b4", "nul"}
  BlockMod = 16
  Faults = {}
  Files <- OneFile
  Jobs <- OneJob
  BlkSizes = {2}
  Rexmts = {}
  MaxTimes = {}
  Toggles = {TRUE}
  Registers = {"oack", "readlen"}
PROPERTIES RevertsOnlyWithoutOack
CHECK_DEADLOCK FALSE
