CONSTANTS
    Writers = {w1, w2}
    Size = 2
    Fifo = 1
    MaxWrite = 3
    MaxBytes = 4
    MaxMasks = 1
SPECIFICATION FairSpec
INVARIANTS RingHoldsStream TransmitterArmed
PROPERTIES WriterReleased
