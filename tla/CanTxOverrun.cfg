CONSTANTS
    Senders = {s1, s2}
    Chips = {"mscan"}
    Loopers = {s1}
    Requests = {"START", "STOP", "SLEEP", "GETSTATE", "CTRLMODE"}
    MaxDebt = 1
SPECIFICATION Spec
INVARIANT BusOffWakesAll
CONSTRAINT Settled
