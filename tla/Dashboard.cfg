CONSTANTS
    Feeds = {"alarm", "pue_update"}
    Limit = 1
    Null = Null
    MaxRows <- MCMaxRows
    MaxFetches = 2
SPECIFICATION Spec
INVARIANTS TypeOK LaterRowsShown
CHECK_DEADLOCK FALSE
