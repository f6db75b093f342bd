CONSTANTS
    Clients = {c1, c2}
    BroadcastCap = 1
    SendCap = 1
    MaxMsgs = 3
SPECIFICATION FairSpec
INVARIANTS TypeOK NoPanic LeftIsClosed NoGaps
PROPERTIES BroadcastSpec HubNeverStalls GoneIsReaped
CHECK_DEADLOCK FALSE
