SPECIFICATION Spec
CONSTANTS
  SegSize = 1
  TIMEOUT = 1
  MaxTimeouts = 2
  Srv = {s1}
  NoSrv = NoSrv
  Byte = {"b1", "b2", "b3", "b4", "nul"}
  BlockMod = 16
  Faults = {}
  Local <- OneFile
  Args <- OneArg
  Remote = {"a"}
  BlkSizes = {}
  Toggles = {}
PROPERTIES ResendsFinalAck
CHECK_DEADLOCK FALSE
