CONSTANTS
    Senders = {s1, s2}
    Chips = {"virt", "sja1000", "mscan"}
    Loopers = {s1}
    Requests = {"START", "STOP", "SLEEP", "GETSTATE", "CTRLMODE"}
    MaxDebt = 1
SPECIFICATION Spec
INVARIANT TxSkbFree
