SPECIFICATION Spec
CONSTANTS
    FramesOf <- PicturesMC
    FrameLasts <- FrameMC
    SeamTolerance = 0
    Plans <- PlansMC
    FirstPlan <- Lone
    LoopRanges <- LoopsMC
    SeekTo = {2}
    ScrubTo = {2}
    MaxCommands = 2
    MaxGeneration = 3
    Lead = 1
    Prefetch = 3
    RingHolds = 2
    CacheHolds = 2
    WindowMax = 2
    StillComing = 1
    ResyncAfter = 4
    ResyncLead = 1
INVARIANTS PausedMeansStill SoundFollowsThePlan 
PROPERTIES ClockForward
CHECK_DEADLOCK FALSE
