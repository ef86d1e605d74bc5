CONSTANTS
    Files = {f1}
    Driver = "16550A"
    MaxLeaks = 0
SPECIFICATION DeviceSpec
INVARIANTS UnusedWhenFailed
CHECK_DEADLOCK FALSE
