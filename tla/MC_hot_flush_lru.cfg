\* A slow-path hit that flushes the hot index and then promotes the hit entry.
CONSTANTS
    t1 = t1  t2 = t2  k1 = k1  k2 = k2  e1 = e1  e2 = e2  e3 = e3
    NoEntry = NoEntry
    Threads <- MCThreads
    Tid <- TidOwn
    Keys <- MCKeys
    Entries <- MCEntries2
    Charges = {1}
    Capacity = 1
    StrictCapacityLimit = FALSE
    Capacities = {}
    StrictSettings = {}
    HighPriPoolRatio = 0
    Ratios = {}
    Priorities = {FALSE}
    CBHTbitlength = 1
    CBHTturnoff = 50
    DCAflush = 20
    NLIMIT = 0
    MaxHeld = 1
    TallyBound = 1
    UsageBound = 3
    FifoBound = 2
SPECIFICATION Spec
CONSTRAINT StateBound
SYMMETRY Symmetry
INVARIANTS
    LRUIffEvictable
