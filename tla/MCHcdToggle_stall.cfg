SPECIFICATION ToggleSpec
CONSTANTS
    ctl0 = ctl0
    bulk1 = bulk1
    sysThread = sysThread
    acceptThread = acceptThread
    CtlEps <- OneControl
    BlkEps <- OneBulk
    Tds = {t1, t2}
    NoTd = NoTd
    NoEp = NoEp
    Clients <- BothThreads
    Streamer = acceptThread
    Stages = 1
    CtlStages <- MCStages
    BlkTransfers <- MCTransfers
    StallEps <- MCAllEps
    Responsive <- NoEndpoint
    MaxLen = 2
    Mps = 1
SYMMETRY TdSymmetry
INVARIANTS TypeOK NeverSleepsOverWork  TogglesAlternateUnlessTorn
CHECK_DEADLOCK FALSE
