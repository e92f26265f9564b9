SPECIFICATION Spec
CONSTANTS
    Jobs = {j1, j2, j3}
    Priority <- UserAndBackground
    Tokens = {k1, k2}
    Trippable = {k1, k2}
    TokenOf <- OneTokenEach
    Streams = {j1}
    Fed = {j1}
    Writers = {j3}
    Interactive = 1
    Playback = 1
    Shared = 2
    Background = 1
    Export = 2
    j1 = j1
    j2 = j2
    j3 = j3
    k1 = k1
    k2 = k2
INVARIANTS SlotsKept NothingOutlives
PROPERTIES VerdictStands
CHECK_DEADLOCK FALSE
