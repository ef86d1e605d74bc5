CONSTANTS
    Readers = {r1, r2}
    RXBUF_SIZE = 7
    HeaderSize = 2
    TimestampSize = 1
    MaxData = 1
    ChipDlcs = {2}
    SoftDlcs = {1}
    MaxEntries = 2
    Seqs = 2
SPECIFICATION Spec
INVARIANTS RingHoldsFrames PermitPerFrame
CONSTRAINT InStep
SYMMETRY Symmetry
