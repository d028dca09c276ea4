--------------------------- MODULE AdaptiveController ---------------------------
(***************************************************************************)
(* The adaptive controller of src/cache/lru_cache.cc: the per-shard hit    *)
(* counters, kept in process-wide arrays indexed by                       *)
(* hashshard = Shard(hash) * PADDING, and the periodic decision that a     *)
(* slow-path hit runs every NLIMIT hits: the shard's hit rate, the         *)
(* percentile of all shards' hit rates (copyAndSort), the stored medians,  *)
(* their averages over the shards, Nsupple, the flush verdict and the      *)
(* re-enabling of the fast path (LRUCacheShard::Lookup, lines 725-892).    *)
(*                                                                         *)
(* LRUCacheShard abstracts all of this into a free choice of the two       *)
(* outcomes (flush or not, fast path on or unchanged); this module keeps   *)
(* the arithmetic and the arrays, and abstracts the shard's contents: a    *)
(* lookup of a key the primary table holds either finds it in the hot      *)
(* index or not (inDCA), and the key may be erased between the fast-path   *)
(* probe and the slow path (present).  The effect of the verdicts on the   *)
(* cache (EvictFIFO, promotion, refill) is LRUCacheShard's Promote.        *)
(*                                                                         *)
(* Atomicity: one lookup is one step.  The arrays of one shard are written *)
(* under that shard's locks, and one shard's decision reads the other     *)
(* shards' cells (hitrate, DCAskip_hit, DCAflush_hit) without their locks; *)
(* decisions of different shards interleave at lookup granularity.         *)
(*                                                                         *)
(* The arrays, sortarr and the constants PADDING and shardnumlimit are      *)
(* declared in lru_cache.h, which is not part of the repository: they are  *)
(* modelled as global zero-initialised int arrays of                       *)
(* shardnumlimit * PADDING cells, as the indexing in lru_cache.cc uses     *)
(* them.                                                                   *)
(***************************************************************************)
EXTENDS Integers, FiniteSets, SequencesExt, Functions

CONSTANTS
    shardnumlimit,   \* number of shards
    PADDING,         \* cells per shard (cacheline padding)
    NLIMIT,          \* slow-path hits between two decisions
    CBHTturnoff,     \* ACTIVATE_PCTL: 0 disables the hot index, 100 keeps it on
    DCAflush,        \* FLUSH_PCTL: 0 never flushes
    CountBound       \* bound on the hit counters (a state constraint)

ASSUME /\ shardnumlimit \in Nat \ {0} /\ PADDING \in Nat \ {0}
       /\ NLIMIT \in Nat /\ CountBound \in Nat
       /\ CBHTturnoff \in 0 .. 100 /\ DCAflush \in 0 .. 100

Shards == 0 .. shardnumlimit - 1
Cells == 0 .. shardnumlimit * PADDING - 1
hashshard(s) == s * PADDING

VARIABLES
    totalhit, nohit,                  \* fast-path lookups and misses
    virtual_totalhit, virtual_nohit,  \* slow-path hits, and those not in the hot index
    N,                                \* slow-path hits since the last decision
    hitrate, sortarr,                 \* last hit rate per shard; the sort scratch array
    DCAskip_hit, DCAflush_hit,        \* stored skip and flush medians per shard
    Nsupple,                          \* fast-path misses tolerated before switching off
    CBHTState,                        \* is the fast path on for the shard
    flushed,                          \* did the shard's last decision flush the hot index
    decided                           \* the shard that decided in the last step, or -1

vars == <<totalhit, nohit, virtual_totalhit, virtual_nohit, N, hitrate, sortarr,
          DCAskip_hit, DCAflush_hit, Nsupple, CBHTState, flushed, decided>>

Zero == [i \in Cells |-> 0]

Init ==
    /\ totalhit = Zero /\ nohit = Zero
    /\ virtual_totalhit = Zero /\ virtual_nohit = Zero
    /\ N = Zero /\ hitrate = Zero /\ sortarr = Zero
    /\ DCAskip_hit = Zero /\ DCAflush_hit = Zero /\ Nsupple = Zero
    /\ CBHTState = [i \in Cells |-> FALSE]
    /\ flushed = [i \in Cells |-> FALSE]
    /\ decided = -1

(* C's / on the non-negative ints used here: truncation is floor.          *)
CDiv(a, b) == a \div b

(* The hit rate of a shard (lines 796-801): from the fast-path counters if *)
(* they saw more lookups than the slow path, else from the virtual ones.   *)
HitRate(th, nh, vt, vn) ==
    IF th > vt THEN 100 - CDiv(nh * 100, th) ELSE 100 - CDiv(vn * 100, vt)

(* Mutant: the copy without the qsort.                                     *)
copyAndSortNoSort(sa, hr) ==
    [i \in Cells |-> IF i % PADDING = 0 THEN hr[i] ELSE sa[i]]

(* copyAndSort (lines 687-694): copy every PADDING-th cell of hitrate into *)
(* sortarr, then qsort the first shardnumlimit cells of sortarr.           *)
copyAndSort(sa, hr) ==
    LET copied == [i \in Cells |-> IF i % PADDING = 0 THEN hr[i] ELSE sa[i]]
        sorted == SortSeq([j \in 1 .. shardnumlimit |-> copied[j - 1]], <)
    IN  [i \in Cells |-> IF i < shardnumlimit THEN sorted[i + 1] ELSE copied[i]]

(* Mutant: the percentile value and the percentile added, not halved.    *)
MedianNoHalf(sa, pct) == sa[CDiv((shardnumlimit - 1) * pct, 100)] + pct

(* The median read at a percentile (lines 805-806).                        *)
Median(sa, pct) == CDiv(sa[CDiv((shardnumlimit - 1) * pct, 100)] + pct, 2)

(* The average of the first shardnumlimit cells (lines 815-819, 823-827).  *)
AvgFirst(arr) == CDiv(SumFunctionOnSet(arr, 0 .. shardnumlimit - 1), shardnumlimit)

(* The decision (lines 786-892) of shard s, with the counters th, nh, vt,  *)
(* vn and the fast-path state st the lookup has reached.                   *)
Decide(s, th, nh, vt, vn, st) ==
    LET h   == hashshard(s)
        hr  == HitRate(th, nh, vt, vn)
        hr1 == [hitrate EXCEPT ![h] = hr]
        sa1 == copyAndSort(sortarr, hr1)
        sk1 == [DCAskip_hit EXCEPT ![h] = Median(sa1, CBHTturnoff)]
        fl1 == [DCAflush_hit EXCEPT ![h] = Median(sa1, DCAflush)]
        avg_skip_median  == AvgFirst(sk1)
        avg_flush_median == AvgFirst(fl1)
    IN  /\ hitrate' = hr1 /\ sortarr' = sa1
        /\ DCAskip_hit' = sk1 /\ DCAflush_hit' = fl1
        /\ Nsupple' = [Nsupple EXCEPT ![h] = CDiv(NLIMIT * avg_skip_median, 100)]
        /\ flushed' = [flushed EXCEPT ![h] = DCAflush # 0 /\ hr < avg_flush_median]
        /\ CBHTState' = [CBHTState EXCEPT ![h] = IF hr > avg_skip_median THEN TRUE ELSE st]
        /\ N' = [N EXCEPT ![h] = 0]
        /\ totalhit' = [totalhit EXCEPT ![h] = 0]
        /\ nohit' = [nohit EXCEPT ![h] = 0]
        /\ virtual_totalhit' = [virtual_totalhit EXCEPT ![h] = 0]
        /\ virtual_nohit' = [virtual_nohit EXCEPT ![h] = 0]
        /\ decided' = s

(* A lookup step that ends without a decision.                             *)
Count(s, th, nh, vt, vn, n, st) ==
    LET h == hashshard(s) IN
    /\ totalhit' = [totalhit EXCEPT ![h] = th]
    /\ nohit' = [nohit EXCEPT ![h] = nh]
    /\ virtual_totalhit' = [virtual_totalhit EXCEPT ![h] = vt]
    /\ virtual_nohit' = [virtual_nohit EXCEPT ![h] = vn]
    /\ N' = [N EXCEPT ![h] = n]
    /\ CBHTState' = [CBHTState EXCEPT ![h] = st]
    /\ decided' = -1
    /\ UNCHANGED <<hitrate, sortarr, DCAskip_hit, DCAflush_hit, Nsupple, flushed>>

(* LRUCacheShard::Lookup of a key the primary table holds (lines 725-892,  *)
(* the controller's part).  fast: the fast path runs (727, 735); fastHit:  *)
(* the hot index has the key (737-741); present: the key is still in the  *)
(* primary table on the slow path (763-765); inDCA: the entry found there  *)
(* is in the hot index (770).  A fast miss counts in nohit and switches    *)
(* the fast path off past Nsupple (745-751); a slow hit counts in the      *)
(* virtual counters and, past NLIMIT hits, runs the decision.              *)
Lookup(s, fastHit, present, inDCA) ==
    LET h    == hashshard(s)
        fast == CBHTturnoff # 0 /\ (CBHTState[h] \/ CBHTturnoff = 100)
        th   == IF fast THEN totalhit[h] + 1 ELSE totalhit[h]
        nh   == IF fast /\ ~fastHit THEN nohit[h] + 1 ELSE nohit[h]
        st   == IF fast /\ ~fastHit /\ CBHTturnoff # 100 /\ nh > Nsupple[h]
                THEN FALSE ELSE CBHTState[h]
        vt   == virtual_totalhit[h] + 1
        vn   == IF inDCA THEN virtual_nohit[h] ELSE virtual_nohit[h] + 1
        n    == IF CBHTturnoff # 0 THEN N[h] + 1 ELSE N[h]
    IN  /\ fastHit => fast
        /\ \/ /\ fast /\ fastHit
              /\ Count(s, th, nohit[h], virtual_totalhit[h], virtual_nohit[h], N[h], CBHTState[h])
           \/ /\ ~fastHit /\ ~present
              /\ Count(s, th, nh, virtual_totalhit[h], virtual_nohit[h], N[h], st)
           \/ /\ ~fastHit /\ present /\ n <= NLIMIT
              /\ Count(s, th, nh, vt, vn, n, st)
           \/ /\ ~fastHit /\ present /\ n > NLIMIT
              /\ Decide(s, th, nh, vt, vn, st)

Next == \E s \in Shards, fastHit, present, inDCA \in BOOLEAN :
            Lookup(s, fastHit, present, inDCA)

Spec == Init /\ [][Next]_vars

-----------------------------------------------------------------------------
Rates == 0 .. 100

(* The hit counters are unbounded between two decisions when every lookup  *)
(* hits the fast path; model checking stops exploring past CountBound.     *)
CountersBounded ==
    \A i \in Cells : totalhit[i] <= CountBound /\ virtual_totalhit[i] <= CountBound

TypeOK ==
    /\ \A i \in Cells :
          /\ totalhit[i] \in Nat /\ nohit[i] \in Nat
          /\ virtual_totalhit[i] \in Nat /\ virtual_nohit[i] \in Nat
          /\ N[i] \in 0 .. NLIMIT /\ hitrate[i] \in Rates /\ sortarr[i] \in Rates
          /\ DCAskip_hit[i] \in Rates /\ DCAflush_hit[i] \in Rates
          /\ Nsupple[i] \in 0 .. NLIMIT
          /\ CBHTState[i] \in BOOLEAN /\ flushed[i] \in BOOLEAN
    /\ decided \in Shards \cup {-1}

(* The value of rank r (from 0) among the hit rates of all shards, defined *)
(* by counting, independently of any sort.                                 *)
RateAtRank(hr, r) ==
    CHOOSE v \in {hr[hashshard(s)] : s \in Shards} :
        /\ Cardinality({s \in Shards : hr[hashshard(s)] < v}) <= r
        /\ r < Cardinality({s \in Shards : hr[hashshard(s)] <= v})

(* Spec 4.6 b-c: the decision copies all shards' hit rates, sorts them and *)
(* reads the ACTIVATE_PCTL percentile.  Whenever a shard has just decided, *)
(* its stored skip median (DCAskip_hit, written at line 810 from the       *)
(* sortarr cell read at line 805) is the median of the hit rates of all    *)
(* shards as they stand after its own hit rate was saved.                  *)
SkipMedianIsPercentile ==
    decided # -1 =>
        DCAskip_hit[hashshard(decided)] =
            CDiv(RateAtRank(hitrate, CDiv((shardnumlimit - 1) * CBHTturnoff, 100))
                 + CBHTturnoff, 2)
=============================================================================
