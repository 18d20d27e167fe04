CONSTANT
    MaxServers = 3
SPECIFICATION ExitSpec
INVARIANT
    PoolsFreedOnce
CHECK_DEADLOCK FALSE
