SPECIFICATION DesktopSpec
CONSTANTS
    Paths = {p, q}
    Untitled = {u}
    Texts = {a, b}
    None = None
    RecentLimit = 1
    MaxLaunches = 2
    LaunchFiles = {p}
    Files <- FilesMC
    Askers = {a1}
    Low <- LowMC
    High = 17
    Asked = {3, 8, 11}
    MaxReopened = 2
    RegionTicks = 4
    ReorderMargin = 2
    ShortOfLimit = 2
    LeadingWindow = 3
    Unread = Unread
    Jobs = {"strip", "peaks"}
    EntriesOf <- EntriesMC
    SizeOf <- SizesMC
    Budget = 4
    MaxCrashes = 1
    SourceTicks = 7
    SegmentTicks = 2
    MaxRuns = 5
    NoProxy = NoProxy
    Views = {timeline, library}
    MaxAttempts = 3
    MaxProgress = 1
    Opens = {1, 2, 3}
    Requests = {r1}
    MinSide = 4
    MaxSide = 16
    TopRate = 6
    Ratios <- RatiosMC
    TicksPerSecond = 8
    Loudest = 1
    Projects0 <- ProjectsMC
    Shapes <- ShapesMC
    SourceExtent <- ExtentMC
    MaxSteps = 3
    FirstKinds = {"speed", "reverse"}
    LastKinds = {"cut", "join", "freeze", "reframe"}
    CutFrames = {2, 4}
    HoldLengths = {2}
    EdgeMoves <- MovesMC
    TrimsAsked <- TrimsMC
    SpeedsAsked <- SpeedsMC
    RectsAsked <- RectsMC
    SidesAsked <- SidesMC
    StepsAsked <- StepsMC
    SettingsAsked <- SettingsMC
INVARIANTS   WholeWithinBudget ProxyCovers NothingWaits ShowsItsSession 
PROPERTIES ReadsAdvance AspectsSettle FramesStay
CHECK_DEADLOCK FALSE
