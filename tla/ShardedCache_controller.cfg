\* Two shards (numshardbits 1) without padding, routed by the hash's low
\* bit; NewLRUCache called with valid and with rejected arguments; one
\* decision per two slow-path hits; ACTIVATE_PCTL 50 reads the lower and
\* FLUSH_PCTL 100 the upper of the two hit rates.  A disowned cache takes no further call: the process stops.
CONSTANTS
    numshardbits = 1
    PADDING = 1
    NLIMIT = 3
    CBHTturnoff = 50
    DCAflush = 100
    CountBound = 4
    Capacities = {5}
    ShardBits = {1, 20}
    PoolRatios = {50, 101}
    Hashes = {0, 1, 2}
    SizeWidth = 8
    Null = Null
SPECIFICATION Spec
CONSTRAINT CountersBounded
CHECK_DEADLOCK FALSE
INVARIANTS
    TypeOK
    ControllerMedianIsPercentile
