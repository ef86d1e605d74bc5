CONSTANTS
    Files = {f1}
    Driver = "rtdmtest"
    MaxLeaks = 0
SPECIFICATION DeviceSpec
INVARIANTS UnusedWhenGone
CHECK_DEADLOCK FALSE
