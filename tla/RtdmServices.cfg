CONSTANTS
    Tasks = {t1, t2}
    InitVal = 1
    MaxAvail = 2
    MaxUppers = 2
    MaxLeaked = 1
    Files = {f1, f2, f3}
    Driver = "rtdmtest"
    MaxLeaks = 2
SPECIFICATION ServicesSpec
INVARIANTS TypeOK Conservation NoOverAdmission QueueExact NoLostWakeup RefExact
PROPERTIES DestroyReleasesAll TimedDownReturns PermitReachesWaiter ImplementsCountingSem
    RemovesUnused UnregisterEnds
