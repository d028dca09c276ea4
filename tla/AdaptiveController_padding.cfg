\* Three shards with cacheline padding (PADDING = 2): a hit rate saved at
\* hashshard = Shard(hash) * PADDING, copyAndSort and the medians as the
\* code indexes them.  One decision per two slow-path hits (NLIMIT 1),
\* ACTIVATE_PCTL and FLUSH_PCTL at the median.
CONSTANTS
    shardnumlimit = 3
    PADDING = 2
    NLIMIT = 1
    CBHTturnoff = 50
    DCAflush = 50
    CountBound = 3
SPECIFICATION Spec
CONSTRAINT CountersBounded
INVARIANT SkipMedianIsPercentile
