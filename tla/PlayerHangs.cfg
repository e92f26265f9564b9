SPECIFICATION Spec
CONSTANTS
    FramesOf <- PicturesMC
    FrameLasts <- FrameMC
    SeamTolerance = 0
    Plans <- LoudnessOnly
    FirstPlan <- Lone
    LoopRanges <- LoopsMC
    SeekTo = {}
    ScrubTo = {}
    MaxCommands = 2
    MaxGeneration = 3
    Lead = 1
    Prefetch = 2
    RingHolds = 2
    CacheHolds = 2
    WindowMax = 2
    StillComing = 1
    ResyncAfter = 4
    ResyncLead = 1
INVARIANT CommandsComeBack
CHECK_DEADLOCK FALSE
