SPECIFICATION Spec
CONSTANTS
  SegSize = 1
  TIMEOUT = 1
  MaxTimeouts = 2
  Srv = {s1}
  NoSrv = NoSrv
  Byte = {"b1", "b2", "b3", "b4", "nul"}
  BlockMod = 16
  Faults = {"send", "read", "write"}
  Local <- OneFile
  Args <- TwoArgs
  Remote = {"d"}
  BlkSizes = {2}
  Toggles = {TRUE}
INVARIANTS TypeOK PutStored FinalAckSent
CHECK_DEADLOCK FALSE
