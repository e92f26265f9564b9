SPECIFICATION FairSpec
CONSTANTS
    Callers = {c1, c2}
    Worker = worker
    Targets = {t1, t2}
    Sources = {t2}
    MaxJobs = 2
    MaxPlace = 3
    MaxLaunches = 2
    HistoryLimit = 1
    Whole = 1
    Reported <- NoProgress
    NotFinite = nan
    t1 = t1
    nan = nan
    Crashes = FALSE
    StoreMayFail = FALSE
    InitStores <- FirstLaunch
PROPERTIES NobodyWaits
CHECK_DEADLOCK FALSE
