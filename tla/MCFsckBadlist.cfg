SPECIFICATION Spec
CONSTANTS
    Fstabs <- MCFstabs
    Limits = {0, 1, 2}
    Asked = {0, 1, 2}
    MaxCmds = 3
    Procs = {1, 2}
    Strangers <- MCStrangers
    Inputs <- MCInputs
    ThreadNums = {1, 2, 3}
    TinyBound = 3
    SmallBound = 2
    MaxLevel = 2
    Scripts = {1, 2}
    MaxDeaths = 2
    MaxRuns = 2
    Sigs = {2, 3, 20}
    MaxDepth = 3
    MaxSignals = 2
    MaxTraps = 2
    MaxJobs = 3
    MaxPids = 3
    Groups <- MCGroups
    UserOpts = {"TTYPE", "NEW", "NAWS", "SECHO", "BIN", "SBIN"}
    MaxAsks = 3
    MaxNames = 1
    MaxCalls <- MCCalls
    MaxTrouble = 1
INVARIANT FsckReportsBad
CHECK_DEADLOCK FALSE
