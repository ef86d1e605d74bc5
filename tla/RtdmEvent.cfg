CONSTANTS
    Tasks = {t1, t2}
    Kinds = {"wait", "timed", "seq", "try"}
    Sequencers = {t1}
    InitPending = TRUE
    MaxSignallers = 1
SPECIFICATION EventFairSpec
INVARIANTS NoLostSignal DestroyHeard TimerGuardsSleep
PROPERTIES SignalReleases TimedWaitReturns DestroyReleasesAll
