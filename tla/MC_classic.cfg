\* Hot index off (CBHTturnoff = 0): the vanilla RocksDB LRU shard, with
\* SetCapacity and SetStrictCapacityLimit callable at any time.  The shard
\* also refines the abstract cache KeyValueCache here.
CONSTANTS
    t1 = t1  t2 = t2  k1 = k1  k2 = k2  e1 = e1  e2 = e2  e3 = e3
    NoEntry = NoEntry
    Threads <- MCThreads
    Tid <- TidOwn
    Keys <- MCKeys
    Entries <- MCEntries3
    Charges = {1, 2}
    Capacity = 2
    StrictCapacityLimit = FALSE
    Capacities = {1, 3}
    StrictSettings = {FALSE, TRUE}
    HighPriPoolRatio = 0
    Ratios = {}
    Priorities = {FALSE}
    CBHTbitlength = 2
    CBHTturnoff = 0
    DCAflush = 0
    NLIMIT = 0
    MaxHeld = 2
    TallyBound = 2
    UsageBound = 6
    FifoBound = 3
SPECIFICATION Spec
CONSTRAINT StateBound
SYMMETRY Symmetry
VIEW NoPoolView
INVARIANTS
    TypeOK
    NoUseAfterFree
    NoDoubleFree
    RefCountExact
    LRUIffEvictable
    UsageAccounting
    OverCapacityOnlyWhenPinned
PROPERTIES
    StrictNeverGrowsOverCapacity
    CacheRefinement
