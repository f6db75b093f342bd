CONSTANTS
    Units = 3
    Sockets = {s1, s2}
    Nil = Nil
    HeaderLen = 2
    Needed = 2
    Spare = 1
    MaxRetries = 3
    ReadTimeout = 2
    IdleLimit = 3
    MaxBacklog = 2
SPECIFICATION FairSpec
INVARIANTS TypeOK OneSocket RightReadings NoPanic WholeBatch
PROPERTIES CleanupHarmless RoundEnds
CHECK_DEADLOCK FALSE
