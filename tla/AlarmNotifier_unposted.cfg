CONSTANTS
    Devices = {1}
    Metrics = {"supply_temp", "cop"}
    Webhook = TRUE
    MaxRetries = 2
    OutCap = 1
    DBFaults = TRUE
    MaxAlarms = 2
    MaxCrashes = 0
SPECIFICATION Spec
INVARIANT EveryAlarmPosted
