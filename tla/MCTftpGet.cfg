SPECIFICATION FairSpec
CONSTANTS
  SegSize = 1
  TIMEOUT = 1
  MaxTimeouts = 2
  Srv = {s1, s2}
  NoSrv = NoSrv
  Byte = {"b1", "b2", "b3", "b4", "nul"}
  BlockMod = 16
  Faults = {}
  Files <- OneFile
  Jobs <- MissJobs
  BlkSizes = {2}
  Rexmts = {}
  MaxTimes = {}
  Toggles = {TRUE}
  Registers = {}
INVARIANTS BlksizeAgreed InStep DoneMeansDelivered
PROPERTIES RevertsOnlyWithoutOack GetIsCopy ClientReturns ServersExit
CHECK_DEADLOCK FALSE
