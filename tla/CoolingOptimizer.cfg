CONSTANTS
    Zones = {z1, z2, z3}
    Readings <- MCReadings
    DiffPercent = 5
    OutCap = 1
    MaxRounds = 2
SPECIFICATION Spec
INVARIANTS TypeOK SuggestionHasDemand MessagesAreWhole NoSilentLoss CoolingIsMoved
CHECK_DEADLOCK FALSE
