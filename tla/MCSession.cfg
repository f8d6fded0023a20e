CONSTANTS
    MaxNonce = 3
    WindowBits = 1
    MaxSessions = 3
    MaxMoves = 1
    Refusing = {2}
    MaxTakes = 3
    MaxSeconds = 3
    MaxLaunches = 3
SPECIFICATION BothSpec
INVARIANTS NoncesUnique TakenOnce HostFollowsGuest 
PROPERTY HealthyNotRepinned
CHECK_DEADLOCK FALSE
