CONSTANTS
    MaxDevices = 2
    MaxReceivers = 3
    Sockets = {s1, s2}
    MaxFilters = 2
    MaxCalls = 1
    GoOn = FALSE
SPECIFICATION Spec
INVARIANTS ListsPartition BindingExact WalksEnd
PROPERTIES EntriesFollowBinding
CHECK_DEADLOCK FALSE
