CONSTANTS
    Drivers = {"core", "virt", "isa", "mem", "mscan", "peak_dng", "peak_pci", "ixxat_pci", "serial"}
    MaxDev = 2
    Contexts = {{c1, c2}, {}}
    Threads = {t1, t2}
    Wrap = 2
SPECIFICATION ModulesSpec
INVARIANTS NothingElseHeld GivenBackOnce TableBacked OneAtATime LockCountExact ExitJoinsEarlier
PROPERTY JoinReturns
