CONSTANTS
    PoolCapacity = 5
    Size = 3
    WordBytes = 1
    BitsPerByte = 2
    DynAddrs <- MCDynAddrs
    MinPage = 2
    Page = 2
    Byte <- MCByte
    MaxPages = 4
    MaxWrite = 4
    Addrs = {a1, a2, a3}
    Null = Null
    Junk = Junk
    Sizes = {1, 2, 3}
    Wrap = 3
    Files = {f1}
    Limits = {0, 2}
    GrabSize = 1
    Recent = 2
    Budgets <- MCBudgets
SPECIFICATION MCSpec
VIEW WithoutCall
INVARIANTS
    PoolTypeOK
    Accounted
    LastHint
    Disjoint
    TypeOK
    ReadExact
    SearchesExact
    Bookkeeping
PROPERTIES
    Implements
    PagesAsAsked
    ImplementsFlat
    Caught
CHECK_DEADLOCK FALSE
