CONSTANTS
    OutCap = 1
    InCap = 1
    TriggerCap = 1
    BroadcastCap = 1
    Limit <- MCLimit
SPECIFICATION FairSpec
INVARIANTS TypeOK StoredBeforeShown MetricsMatchFeed TriggersJustified
PROPERTIES FeedSpec AcceptedIsShown
CHECK_DEADLOCK FALSE
