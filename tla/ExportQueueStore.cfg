SPECIFICATION Spec
CONSTANTS
    Callers = {c1}
    Worker = worker
    Targets = {t1, t2}
    Sources = {t2}
    MaxJobs = 2
    MaxPlace = 2
    MaxLaunches = 1
    HistoryLimit = 1
    Whole = 2
    Reported <- ManyFractions
    NotFinite = nan
    t1 = t1
    nan = nan
    Crashes = TRUE
    StoreMayFail = TRUE
    InitStores <- AnyStore
PROPERTIES ProgressForward
CHECK_DEADLOCK FALSE
