CONSTANTS
    Cpus = {c1, c2}
    RST_WIN <- MCRstWin
    RESET_WINDOW = 2
    THRESHOLD = 2
    SKEW <- NoSkew
    CHAOS_END = 4
    CLOCK_END = 13
    MAX_NET = 2
    n1 = n1
    n2 = n2
    d1 = d1
    d2 = d2
    LATEST = 1
SPECIFICATION MCSpec
INVARIANTS EnteredOnce ControllerInSync Recovered Armed ReportPending
PROPERTY NoneMissed
