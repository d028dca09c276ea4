\* Hot index off, high-priority pool at half the capacity (ratio changeable
\* to 0 or 100), inserts of both priorities: the pools stay partitioned,
\* and for callers that release what they hold every entry that leaves the
\* cache is freed.  No symmetry (liveness) and no state constraint: with
\* one handle per thread and a fixed pool of allocations, every counter is
\* bounded.
CONSTANTS
    t1 = t1  t2 = t2  k1 = k1  k2 = k2  e1 = e1  e2 = e2  e3 = e3
    NoEntry = NoEntry
    Threads <- MCThreads
    Tid <- TidOwn
    Keys <- MCKeys
    Entries <- MCEntries2
    Charges = {1}
    Capacity = 2
    StrictCapacityLimit = FALSE
    Capacities = {}
    StrictSettings = {}
    HighPriPoolRatio = 50
    Ratios = {0, 100}
    Priorities = {FALSE, TRUE}
    CBHTbitlength = 2
    CBHTturnoff = 0
    DCAflush = 0
    NLIMIT = 0
    MaxHeld = 1
    TallyBound = 2
    UsageBound = 3
    FifoBound = 3
SPECIFICATION FairSpec
INVARIANTS
    PoolsPartitioned
PROPERTIES
    HighPoolWithinCapacity
    TombstonesFreed
