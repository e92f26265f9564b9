SPECIFICATION Spec
CONSTANTS
    NormalRate <- Uneven
    Rates <- ThreeRates
    Extent <- NineTicks
    Projects <- TwoProjects
    Depth = 2
    MaxEdits = 3
    LateEdits <- FewLate
    Frames <- SomeFrames
    Deltas <- SomeDeltas
    NewClips <- OneNewClip
    MaxClips = 4
    MaxTracks = 3
INVARIANTS TimelineHolds
PROPERTIES ImplementsSnapshots  
CHECK_DEADLOCK FALSE
