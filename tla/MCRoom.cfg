CONSTANTS
    Host = host
    Guests = {g1, g2, g3}
    MaxParticipants = 3
    Tokens = {t1, t2, t3}
    Lifetime = 1
    Toggled = {"ManageRoom", "AdmitUsers", "EndRoom"}
    MaxRevision = 7
    MaxTime = 2
    Friends = {f1, f2}
    MaxCalls = 3
    MaxEvents = 3
SPECIFICATION BothSpec
INVARIANTS OneHost TokensWorkOnce MutedAsShown 
PROPERTIES ChangesAreRevised
CHECK_DEADLOCK FALSE
