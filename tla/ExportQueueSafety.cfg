SPECIFICATION Spec
CONSTANTS
    Callers = {c1, c2}
    Worker = worker
    Targets = {t1, t2}
    Sources = {t2}
    MaxJobs = 2
    MaxPlace = 3
    MaxLaunches = 2
    HistoryLimit = 1
    Whole = 1
    Reported <- OneFraction
    NotFinite = nan
    t1 = t1
    nan = nan
    Crashes = TRUE
    StoreMayFail = FALSE
    InitStores <- FirstLaunch
INVARIANTS OneExport StoreKeepsUp
PROPERTIES OutcomesStand ImplementsExportLine
CHECK_DEADLOCK FALSE
