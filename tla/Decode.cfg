SPECIFICATION Spec
CONSTANTS
    Pictures = {0, 2, 4, 6, 8}
    Keyframes = {0, 6}
    ClipIn = 1
    ClipOut = 9
    RingHolds = 2
    ChunkMax = 2
    ResyncBehind = 2
    ResyncLead = 1
    Segments <- SegmentsMC
    Loops <- SoundLoopsMC
    SoundRingHolds = 2
    SoundChunk = 2
    ReverseChunk = 2
    Prefetch = 3
    RetuneAhead = 1
    RetunePatience = 1
    MaxChain = 1
    FramesOf <- PlanPicturesMC
    FrameLasts <- FrameMC
    SeamTolerance = 1
    Placed <- PlacedMC
INVARIANTS RingOfItsDecoder  StepsHold
PROPERTIES PicturesInTime ChainForward LaneArrives
CHECK_DEADLOCK FALSE
