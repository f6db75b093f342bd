CONSTANTS
    Devices = {1, 2}
    Power <- MCPower
    Window = 3
    Interval = 3
    ITReadings = {0, 5}
    ITDefault = 4
    LossPercent = 3
    OutCap = 1
    MaxTime = 6
SPECIFICATION Spec
INVARIANT CoolingIsTotalPower
