CONSTANTS
    Size = 2
    LineErrors = {"break"}
    Break = "break"
    Masks = {{"ERRPEND"}, {"RXPEND", "ERRPEND"}}
    MaxRead = 3
    MaxBurst = 2
    MaxChars = 3
    MaxPurges = 1
SPECIFICATION Spec
INVARIANTS RingHoldsInput ReaderNotStranded EventNotMissed
