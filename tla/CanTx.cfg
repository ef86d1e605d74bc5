CONSTANTS
    Senders = {s1, s2}
    Chips = {"virt", "sja1000", "mscan"}
    Loopers = {s1}
    Requests = {"START", "STOP", "SLEEP", "GETSTATE", "CTRLMODE", "BAUDRATE"}
    MaxDebt = 1
SPECIFICATION Spec
INVARIANTS OnePermit StopWakesAll
PROPERTY SettingsKeepRunning
CONSTRAINT Settled
