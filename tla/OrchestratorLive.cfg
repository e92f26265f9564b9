SPECIFICATION KillsFair
CONSTANTS
    Jobs = {j1, j2, j3}
    Priority <- ExportAndBackground
    Tokens = {k1}
    Trippable = {}
    TokenOf <- OneToken
    Streams = {}
    Fed = {j1}
    Writers = {}
    Interactive = 1
    Playback = 1
    Shared = 2
    Background = 1
    Export = 1
    j1 = j1
    j2 = j2
    j3 = j3
    k1 = k1
    k2 = k2
PROPERTIES EverythingEnds
CHECK_DEADLOCK FALSE
