SPECIFICATION Spec
CONSTANTS
    Paths = {p, q}
    Untitled = {u}
    Texts = {a, b}
    None = None
    RecentLimit = 1
    MaxLaunches = 2
    LaunchFiles = {p}
PROPERTIES RecoveryIsAsked
CHECK_DEADLOCK FALSE
