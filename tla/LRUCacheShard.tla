---------------------------- MODULE LRUCacheShard ----------------------------
(***************************************************************************)
(* One LRUCacheShard of src/cache/lru_cache.cc with its primary table      *)
(* (LRUHandleTable), LRU list, hot index (CBHTable) and the adaptive       *)
(* promotion of LRUCacheShard::Lookup, used by concurrent threads.         *)
(*                                                                         *)
(* Atomicity.  Every code path that holds mutex_ is one step: all writers  *)
(* of the primary table, the LRU, the hot index and the entry flags hold   *)
(* mutex_ (and take rwmutex_ for writing inside it).  The fast path of     *)
(* Lookup holds only the read lock, which excludes those writers, so it is *)
(* one step too.  Release starts WITHOUT any lock (lines 988-993): it      *)
(* reads e->indca, then Unref reads e->DCAstamp, then decrements a tally   *)
(* cell with a load and a store; each of those is a step of its own, and   *)
(* any locked handler or fast-path Lookup of another thread may run        *)
(* between them.                                                           *)
(*                                                                         *)
(* Data abstraction.  Hash and key bytes are one key; values, deleters,    *)
(* statistics and timing are left out; the LRU is a sequence (Head =      *)
(* lru_.next, the eviction end) split by lru_low_pri_ into the two pools.  *)
(* The hit-rate arithmetic of the adaptive controller (lines 793-859, 886) *)
(* is replaced by a free choice of its two outcomes: flush or not,         *)
(* re-enable or not.                                                       *)
(* The primary table is a map from key to entry: FindPointer matches       *)
(* (hash, key) exactly, and Resize only rebuilds the buckets.              *)
(* Free() is recorded as a count per entry, so a read, a reachability or   *)
(* a second Free after it is visible to the properties.                    *)
(***************************************************************************)
EXTENDS CBHTable

CONSTANTS
    Entries,              \* the LRUHandle allocations the run may make
    Charges,              \* charges an Insert may carry
    Capacity,             \* capacity_ the shard is constructed with
    StrictCapacityLimit,  \* strict_capacity_limit_ it is constructed with
    Capacities,           \* values SetCapacity may be called with
    StrictSettings,       \* values SetStrictCapacityLimit may be called with
    HighPriPoolRatio,     \* high_pri_pool_ratio it is constructed with, in percent
    Ratios,               \* values SetHighPriorityPoolRatio may be called with
    Priorities,           \* priorities an Insert may carry (TRUE = Priority::HIGH)
    CBHTturnoff,          \* ACTIVATE_PCTL: 0 disables the hot index, 100 pins it on
    DCAflush,             \* FLUSH_PCTL: 0 never flushes
    NLIMIT,               \* slow-path hits between two adaptive decisions
    MaxHeld               \* handles one thread holds at a time (bound)

ASSUME /\ Capacity \in Nat /\ Charges \subseteq Nat \ {0}
       /\ StrictCapacityLimit \in BOOLEAN
       /\ Capacities \subseteq Nat /\ StrictSettings \subseteq BOOLEAN
       /\ CBHTturnoff \in 0 .. 100 /\ DCAflush \in 0 .. 100
       /\ NLIMIT \in Nat /\ MaxHeld \in Nat \ {0}
       /\ HighPriPoolRatio \in 0 .. 100 /\ Ratios \subseteq 0 .. 100
       /\ Priorities \subseteq BOOLEAN
       /\ NoEntry \notin Entries

VARIABLES
    sh,         \* the shard: table, lru, usage, and the CBHTable fields
    pc,         \* per thread: where it is inside an operation
    arg,        \* per thread: the key or entry of the operation in flight
    stampRd,    \* per thread: the DCAstamp Unref read without a lock
    cellRd,     \* per thread: the tally cell value Unref loaded
    held,       \* per thread: how many handles it holds to each entry
    N,          \* N[hashshard]: slow-path hits since the last decision
    CBHTState   \* CBHTState[hashshard]: is the fast path on for this shard

vars == <<sh, pc, arg, stampRd, cellRd, held, N, CBHTState>>

DCAOn == CBHTturnoff # 0          \* if(CBHTturnoff)

EntryRec == [key : Keys, charge : Charges, refs : Int, inCache : BOOLEAN,
             indca : BOOLEAN, stamp : Stamps \cup {NoStamp},
             allocated : BOOLEAN, frees : Nat,
             highPri : BOOLEAN, hit : BOOLEAN, inHighPool : BOOLEAN]

UnusedEntry == [key |-> CHOOSE k \in Keys : TRUE, charge |-> CHOOSE c \in Charges : TRUE,
                refs |-> 0, inCache |-> FALSE, indca |-> FALSE, stamp |-> NoStamp,
                allocated |-> FALSE, frees |-> 0,
                highPri |-> FALSE, hit |-> FALSE, inHighPool |-> FALSE]

\* high_pri_pool_capacity_ = capacity_ * high_pri_pool_ratio_, a double
\* truncated to size_t (lines 542, 978); the ratios used are exact binary
\* fractions, so the product in percent, floored, is the same number.
HighPriPoolCapacity(c, ratio) == (c * ratio) \div 100

\* An empty shard (the constructor, lines 324-348, and CBHTable(), 147-158).
EmptyShard ==
    [table |-> [k \in Keys |-> NoEntry], lru |-> <<>>, usage |-> 0,
     chain |-> [k \in Keys |-> NoEntry], fifo |-> <<>>,
     avail |-> [st \in Stamps |-> 0],
     pool |-> [st \in Stamps |-> [t \in Threads |-> 0]],
     stampincr |-> 0, ent |-> [e \in Entries |-> UnusedEntry],
     capacity |-> Capacity, strict |-> StrictCapacityLimit,
     lowPri |-> 0, highPriUsage |-> 0, ratio |-> HighPriPoolRatio,
     highPriCapacity |-> HighPriPoolCapacity(Capacity, HighPriPoolRatio)]

Ch(s, e) == s.ent[e].charge

Live(e) == sh.ent[e].allocated /\ sh.ent[e].frees = 0

Holders(e) == SumFunctionOnSet([t \in Threads |-> held[t][e]], Threads)

HeldCount(t) == SumFunction(held[t])

-----------------------------------------------------------------------------
(* Helpers of the shard, each a function of the shard state.               *)

\* LRUHandleTable::Insert (lines 76-90): e replaces any entry of its key;
\* Resize only rebuilds the buckets.
TableInsert(s, e) == [s EXCEPT !.table[s.ent[e].key] = e]

\* LRUHandleTable::Remove (lines 92-100): unlink whatever entry holds key k.
TableRemove(s, k) == [s EXCEPT !.table[k] = NoEntry]

(***************************************************************************)
(* The LRU list runs from Head (lru_.next, the eviction end) to Last       *)
(* (lru_.prev).  lowPri is the position of lru_low_pri_ (0: the sentinel): *)
(* positions 1..lowPri are the low-priority pool, the rest the high one.   *)
(***************************************************************************)
\* The position of e on the list.
LRUPos(s, e) == SelectInSeq(s.lru, LAMBDA x : x = e)

\* LRU_Remove (lines 447-465): a no-op for an entry not on the list.  The
\* boundary steps back when e is lru_low_pri_ or lies below it.
LRU_Remove(s, e) ==
    LET i == LRUPos(s, e) IN
    IF i = 0 THEN s
    ELSE [s EXCEPT !.lru          = RemoveAt(@, i),
                   !.lowPri       = IF i <= @ THEN @ - 1 ELSE @,
                   !.highPriUsage = IF s.ent[e].inHighPool THEN @ - Ch(s, e) ELSE @]

\* Variant for the mutation runs: the demoted entry keeps its pool flag.
RECURSIVE MaintainPoolSizeKeepsFlag(_)
MaintainPoolSizeKeepsFlag(s) ==
    IF s.highPriUsage > s.highPriCapacity /\ s.lowPri < Len(s.lru)
    THEN LET x == s.lru[s.lowPri + 1]
         IN  MaintainPoolSizeKeepsFlag([s EXCEPT !.lowPri = @ + 1,
                                                 !.highPriUsage = @ - Ch(s, x)])
    ELSE s

\* MaintainPoolSize (lines 495-506): move the boundary toward Last,
\* demoting the entry crossed, until the high pool fits.  The code asserts
\* that the boundary never reaches the sentinel; the model stops there,
\* and PoolsPartitioned shows the pool is empty by then.
RECURSIVE MaintainPoolSize(_)
MaintainPoolSize(s) ==
    IF s.highPriUsage > s.highPriCapacity /\ s.lowPri < Len(s.lru)
    THEN LET x == s.lru[s.lowPri + 1]
         IN  MaintainPoolSize([s EXCEPT !.lowPri = @ + 1,
                                        !.ent[x].inHighPool = FALSE,
                                        !.highPriUsage = @ - Ch(s, x)])
    ELSE s

\* Does LRU_Insert put e in the high-priority pool (line 473)?
ToHighPool(s, e) == s.ratio > 0 /\ (s.ent[e].highPri \/ s.ent[e].hit)

\* Variant for the mutation runs: the high pool is not trimmed.
LRU_InsertNoMaintain(s, e) ==
    IF Contains(s.lru, e) THEN s
    ELSE IF ToHighPool(s, e)
         THEN [s EXCEPT !.lru = Append(@, e), !.ent[e].inHighPool = TRUE,
                        !.highPriUsage = @ + Ch(s, e)]
         ELSE [s EXCEPT !.lru = InsertAt(@, s.lowPri + 1, e),
                        !.ent[e].inHighPool = FALSE, !.lowPri = @ + 1]

\* LRU_Insert (lines 467-493): a no-op for an entry already on the list;
\* a high-priority or hit entry goes to Last, in the high pool, which is
\* then trimmed; any other goes right after lru_low_pri_ and becomes it.
LRU_Insert(s, e) ==
    IF Contains(s.lru, e) THEN s
    ELSE IF ToHighPool(s, e)
         THEN MaintainPoolSize([s EXCEPT !.lru = Append(@, e), !.ent[e].inHighPool = TRUE,
                                         !.highPriUsage = @ + Ch(s, e)])
         ELSE [s EXCEPT !.lru = InsertAt(@, s.lowPri + 1, e),
                        !.ent[e].inHighPool = FALSE, !.lowPri = @ + 1]

\* Entry::Free for every entry of a last_reference_list.
Free(s, D) ==
    [s EXCEPT !.ent = [e \in DOMAIN @ |->
                         IF e \in D THEN [@[e] EXCEPT !.frees = @ + 1] ELSE @[e]]]

\* EvictFromLRU (lines 508-534), returning <<state, evicted entries>>.
RECURSIVE EvictFromLRU(_, _, _)
EvictFromLRU(s, charge, D) ==
    IF s.usage + charge > s.capacity /\ s.lru # <<>>
    THEN LET old == Head(s.lru)
             k   == s.ent[old].key
             s1  == LRU_Remove(s, old)
             s2  == IF DCAOn /\ s1.ent[old].indca THEN CBHT_Remove(s1, k, FALSE)[1] ELSE s1
             s3  == [TableRemove(s2, k) EXCEPT !.ent[old].inCache = FALSE,
                                               !.usage = @ - Ch(s, old)]
         IN  EvictFromLRU(s3, charge, D \cup {old})
    ELSE <<s, D>>

\* EraseUnRefEntries (lines 350-383): the same drain down to an empty LRU.
RECURSIVE DrainLRU(_, _)
DrainLRU(s, D) ==
    IF s.lru = <<>> THEN <<s, D>>
    ELSE LET old == Head(s.lru)
             k   == s.ent[old].key
             s1  == TableRemove(LRU_Remove(s, old), k)
             s2  == IF DCAOn /\ s1.ent[old].indca THEN CBHT_Remove(s1, k, FALSE)[1] ELSE s1
         IN  DrainLRU([s2 EXCEPT !.ent[old].inCache = FALSE, !.usage = @ - Ch(s, old)],
                      D \cup {old})

\* The entry old that e displaces from the table leaves the cache (lines
\* 599-620): if unreferenced it leaves the LRU and is uncharged; if it was
\* in the hot index, e takes its place there.
\* Variant for the mutation runs: uncharges old even while it is referenced.
DisplaceUnrefIgnoringRefs(s, old) == [LRU_Remove(s, old) EXCEPT !.usage = @ - Ch(s, old)]
DisplaceUnref(s, old) ==
    IF s.ent[old].refs = 0 THEN [LRU_Remove(s, old) EXCEPT !.usage = @ - Ch(s, old)]
    ELSE s
DisplaceHot(s, old, e, t) ==
    IF DCAOn /\ s.ent[old].indca THEN CBHT_Insert(s, e, t)[1] ELSE s
Displace(s, old, e, t) ==
    IF old = NoEntry THEN s
    ELSE DisplaceHot(DisplaceUnref([s EXCEPT !.ent[old].inCache = FALSE], old), old, e, t)

\* The new entry is handed out with a reference, or parked on the LRU,
\* unless the hot index now holds it (lines 622-627).
HandOut(s, e, withHandle) ==
    IF s.ent[e].indca THEN s
    ELSE IF withHandle THEN [s EXCEPT !.ent[e].refs = @ + 1]
    ELSE LRU_Insert(s, e)

\* InsertItem after EvictFromLRU (lines 579-628), with the eviction's
\* last_reference_list D, returning <<state, last_reference_list, status>>.
\* An entry refused for capacity is freed (handle == nullptr: as if evicted
\* at once; otherwise deleted with Incomplete).
\* Variant for the mutation runs: the strict limit is not consulted.
RefusedIgnoringStrict(s, e, withHandle) ==
    s.usage + Ch(s, e) > s.capacity /\ ~withHandle

\* The admission test after eviction (lines 585-586): no room, and either
\* the limit is strict or the caller wants no handle.
Refused(s, e, withHandle) ==
    s.usage + Ch(s, e) > s.capacity /\ (s.strict \/ ~withHandle)

AdmitOrRefuse(s, D, e, withHandle, t) ==
    LET k   == s.ent[e].key
        old == s.table[k]
    IN  IF Refused(s, e, withHandle)
        THEN << [s EXCEPT !.ent[e].inCache = FALSE], D \cup {e},
                IF withHandle THEN "Incomplete" ELSE "Ok" >>
        ELSE << HandOut(Displace([TableInsert(s, e) EXCEPT !.usage = @ + Ch(s, e)],
                                 old, e, t), e, withHandle),
                IF old # NoEntry /\ s.ent[old].refs = 0 THEN D \cup {old} ELSE D,
                IF old # NoEntry THEN "OkOverwritten" ELSE "Ok" >>

\* InsertItem (lines 564-643) for a fresh entry e: evict, then admit; the
\* caller frees the last_reference_list.
InsertItem(s, e, withHandle, t) ==
    LET ev == EvictFromLRU(s, Ch(s, e), {}) IN AdmitOrRefuse(ev[1], ev[2], e, withHandle, t)

(***************************************************************************)
(* The adaptive decision of a slow-path hit on e (lines 787-895), under    *)
(* the write lock: an optional full flush of the hot index back onto the   *)
(* LRU, the promotion of e, then the refill from the MRU end of the LRU    *)
(* while the table is not half full.                                       *)
(***************************************************************************)
RECURSIVE FlushDCA(_, _, _)
FlushDCA(s, t, fuel) ==
    LET ev == EvictFIFO(s, t) IN
    IF fuel = 0 \/ ev[2] = NoEntry THEN ev[1]
    ELSE FlushDCA(LRU_Insert(ev[1], ev[2]), t, fuel - 1)

RECURSIVE Refill(_, _)
Refill(s, t) ==
    IF ~IsTableFull(s) /\ s.lru # <<>>
    THEN LET temp == Last(s.lru)      \* temp = lru_.prev, then temp->prev
         IN  Refill(LRU_Remove(CBHT_Insert(s, temp, t)[1], temp), t)
    ELSE s

Promote(s, e, t, flush) ==
    LET s1 == IF flush THEN FlushDCA(s, t, AuxCap) ELSE s
    IN  Refill(CBHT_Insert(s1, e, t)[1], t)

(* Variants of the helpers below, each with one defect a plausible edit   *)
(* of the code would introduce; the mutation runs substitute one of them   *)
(* for the helper and expect a property to fail.                          *)
LookupHitNoRef(s, e) == [LRU_Remove(s, e) EXCEPT !.ent[e].hit = TRUE]
LookupHitStaysOnLRU(s, e) ==
    IF s.ent[e].indca THEN [s EXCEPT !.ent[e].hit = TRUE]
    ELSE [s EXCEPT !.ent[e].refs = @ + 1, !.ent[e].hit = TRUE]

\* A hit of the vanilla path (lines 762-782): off the LRU, a reference
\* taken unless the entry is in the hot index, and SetHit.
LookupHit(s, e) ==
    LET s1 == [LRU_Remove(s, e) EXCEPT !.ent[e].hit = TRUE]
    IN  IF s.ent[e].indca THEN s1 ELSE [s1 EXCEPT !.ent[e].refs = @ + 1]

ReleaseKeepsIgnoringUsage(s, force_erase) == ~force_erase

\* Release keeps an unreferenced entry cached unless the shard is over
\* capacity or the caller forces the erase (line 1009).
ReleaseKeeps(s, force_erase) == ~(s.usage > s.capacity \/ force_erase)

LastReferenceNotReset(s, e, keep) == s.ent[e].refs - 1 = 0
LastReferenceWhileCached(s, e, keep) ==
    s.ent[e].refs - 1 = 0 /\ s.ent[e].inCache /\ ~keep

\* last_reference of Release: e->Unref() dropped the count to 0, and the
\* entry was not put back on the LRU (lines 1005-1022).
LastReference(s, e, keep) == s.ent[e].refs - 1 = 0 /\ ~(s.ent[e].inCache /\ keep)

ReleaseEvictKeepsLink(s, e) == [s EXCEPT !.ent[e].inCache = FALSE]

\* Release of the last reference over capacity: out of the table (1013-1016).
ReleaseEvict(s, e) == [TableRemove(s, s.ent[e].key) EXCEPT !.ent[e].inCache = FALSE]

EraseUnlinkIgnoringRefs(s, e) ==
    << [LRU_Remove(s, e) EXCEPT !.usage = @ - Ch(s, e)], TRUE >>
EraseUnlinkNoUncharge(s, e) ==
    IF s.ent[e].refs = 0 THEN << LRU_Remove(s, e), TRUE >> ELSE << s, FALSE >>

\* Erase of an entry nobody references (lines 1091-1099): off the LRU and
\* uncharged, returning <<state, last_reference>>.  refs # 0 is HasRefs().
EraseUnlink(s, e) ==
    IF s.ent[e].refs = 0
    THEN << [LRU_Remove(s, e) EXCEPT !.usage = @ - Ch(s, e)], TRUE >>
    ELSE << s, FALSE >>

-----------------------------------------------------------------------------
(* Thread steps.                                                           *)

CanHold(t) == HeldCount(t) < MaxHeld

Hold(t, e) == held' = [held EXCEPT ![t][e] = @ + 1]

\* The thread's operation returns; its locals are dead.
Return(t) == /\ pc' = [pc EXCEPT ![t] = "idle"]
             /\ arg' = [arg EXCEPT ![t] = NoEntry]
             /\ stampRd' = [stampRd EXCEPT ![t] = NoStamp]
             /\ cellRd' = [cellRd EXCEPT ![t] = 0]
Drop(t, e) == held' = [held EXCEPT ![t][e] = @ - 1]

\* Memory new char[] returns (line 1053): an allocation of Entries not used
\* before.  Freed memory is not handed out again, so a handle or link that
\* outlives a Free() stays visible to the properties.
Allocatable(e) == ~sh.ent[e].allocated

\* LRUCacheShard::Insert (lines 1044-1077): allocate e with priority p,
\* then InsertItem.
Insert(t, k, c, withHandle, p) ==
    /\ pc[t] = "idle"
    /\ \E e \in Entries : Allocatable(e)
    /\ withHandle => CanHold(t)
    /\ LET e  == CHOOSE x \in Entries : Allocatable(x)
           s0 == [sh EXCEPT !.ent[e] = [UnusedEntry EXCEPT !.key = k, !.charge = c,
                                        !.inCache = TRUE, !.allocated = TRUE,
                                        !.highPri = p]]
           r  == InsertItem(s0, e, withHandle, t)
       IN  /\ sh' = Free(r[1], r[2])
           /\ IF withHandle /\ r[3] # "Incomplete" THEN Hold(t, e) ELSE UNCHANGED held
    /\ UNCHANGED <<pc, arg, stampRd, cellRd, N, CBHTState>>

\* Lookup, fast path (lines 727-754): the unlocked negative check on the
\* primary table, then the hot index under the read lock.  A key absent
\* from the primary table returns nullptr and changes nothing: that is a
\* stuttering step, so only Lookups of present keys are actions.
LookupFast(t, k) ==
    /\ pc[t] = "idle" /\ DCAOn /\ CanHold(t)
    /\ sh.table[k] # NoEntry
    /\ LET e  == sh.chain[k]
           on == CBHTState \/ CBHTturnoff = 100
       IN
       \/ /\ on /\ e # NoEntry                          \* hot hit
          /\ sh' = CBHT_Lookup(sh, k, t)
          /\ Hold(t, e)
          /\ UNCHANGED <<pc, arg, stampRd, cellRd, N, CBHTState>>
       \/ /\ on /\ e = NoEntry                          \* hot miss
          /\ CBHTState' \in IF CBHTturnoff # 100 THEN {CBHTState, FALSE} ELSE {CBHTState}
          /\ pc' = [pc EXCEPT ![t] = "lookup_slow"] /\ arg' = [arg EXCEPT ![t] = k]
          /\ UNCHANGED <<sh, stampRd, cellRd, held, N>>
       \/ /\ ~on                                        \* fast path off
          /\ pc' = [pc EXCEPT ![t] = "lookup_slow"] /\ arg' = [arg EXCEPT ![t] = k]
          /\ UNCHANGED <<sh, stampRd, cellRd, held, N, CBHTState>>

\* Lookup, vanilla path under mutex_ (lines 757-897).  With the hot index
\* disabled a Lookup starts here.
LookupSlow(t, k) ==
    /\ \/ pc[t] = "lookup_slow" /\ arg[t] = k
       \/ pc[t] = "idle" /\ ~DCAOn /\ CanHold(t)
    /\ Return(t)
    /\ LET e  == sh.table[k]
           s2 == LookupHit(sh, e)
       IN
       \/ /\ e = NoEntry
          /\ UNCHANGED <<sh, held, N, CBHTState>>
       \/ /\ e # NoEntry /\ ~(DCAOn /\ N + 1 > NLIMIT)
          /\ sh' = s2
          /\ N' = IF DCAOn THEN N + 1 ELSE N
          /\ Hold(t, e)
          /\ UNCHANGED CBHTState
       \/ /\ e # NoEntry /\ DCAOn /\ N + 1 > NLIMIT
          /\ \E flush \in IF DCAflush # 0 THEN BOOLEAN ELSE {FALSE} :
                sh' = Promote(s2, e, t, flush)
          /\ N' = 0
          /\ CBHTState' \in {CBHTState, TRUE}
          /\ Hold(t, e)

\* Release, first unlocked step (lines 988-993): read e->indca.
ReleaseCheck(t, e) ==
    /\ pc[t] = "idle" /\ held[t][e] > 0
    /\ pc' = [pc EXCEPT ![t] = IF DCAOn /\ sh.ent[e].indca THEN "unref_stamp"
                                                          ELSE "release_locked"]
    /\ arg' = [arg EXCEPT ![t] = e]
    /\ UNCHANGED <<sh, stampRd, cellRd, held, N, CBHTState>>

\* CBHTable::Unref, unlocked: read e->DCAstamp ...
UnrefReadStamp(t) ==
    /\ pc[t] = "unref_stamp"
    /\ stampRd' = [stampRd EXCEPT ![t] = sh.ent[arg[t]].stamp]
    /\ pc' = [pc EXCEPT ![t] = "unref_dec"]
    /\ UNCHANGED <<sh, arg, cellRd, held, N, CBHTState>>

\* ... then DCA_ref_pool[stamptmp_tc + getmytid()]-- on a plain int: a
\* load of the cell ...
UnrefLoad(t) ==
    /\ pc[t] = "unref_dec"
    /\ IF ValidStamp(stampRd[t])
       THEN /\ cellRd' = [cellRd EXCEPT ![t] = sh.pool[stampRd[t]][getmytid(t)]]
            /\ pc' = [pc EXCEPT ![t] = "unref_store"]
            /\ UNCHANGED <<sh, arg, stampRd, held>>
       ELSE /\ Drop(t, arg[t]) /\ Return(t) /\ UNCHANGED sh
    /\ UNCHANGED <<N, CBHTState>>

\* ... and a store of the loaded value minus one, over whatever another
\* thread of the same tid, or Remove, wrote in between; Release returns.
UnrefDecrement(t) ==
    /\ pc[t] = "unref_store"
    /\ sh' = [sh EXCEPT !.pool[stampRd[t]][getmytid(t)] = cellRd[t] - 1]
    /\ Drop(t, arg[t])
    /\ Return(t)
    /\ UNCHANGED <<N, CBHTState>>

\* Release under mutex_ (lines 994-1041).  refs is a uint32_t; the model
\* keeps its 32-bit two's-complement view (as the (int) cast of line 255
\* does), so a decrement at 0 gives -1, i.e. 0xFFFFFFFF, and HasRefs().
ReleaseLocked(t, force_erase) ==
    /\ pc[t] = "release_locked"
    /\ Return(t)
    /\ Drop(t, arg[t])
    /\ LET e    == arg[t]
           st   == sh.ent[e].stamp
           keep == ReleaseKeeps(sh, force_erase)
           s1   == [sh EXCEPT !.ent[e].refs = @ - 1]
           s2   == IF s1.ent[e].refs = 0 /\ sh.ent[e].inCache
                   THEN IF keep THEN LRU_Insert(s1, e) ELSE ReleaseEvict(s1, e)
                   ELSE s1
       IN  IF DCAOn /\ sh.ent[e].indca
           THEN sh' = IF ValidStamp(st) THEN [sh EXCEPT !.pool[st][getmytid(t)] = @ - 1] ELSE sh
           ELSE sh' = IF LastReference(sh, e, keep)
                      THEN Free([s2 EXCEPT !.usage = @ - Ch(sh, e)], {e}) ELSE s2
    /\ UNCHANGED <<N, CBHTState>>

\* LRUCacheShard::Erase (lines 1079-1118).  Erase of a key not in the
\* table (e == nullptr) changes nothing, and is always possible.
Erase(t, k) ==
    /\ pc[t] = "idle"
    /\ LET e   == sh.table[k]
           u   == EraseUnlink([TableRemove(sh, k) EXCEPT !.ent[e].inCache = FALSE], e)
           dca == DCAOn /\ sh.ent[e].indca
           s3  == IF dca THEN CBHT_Remove(u[1], k, FALSE)[1] ELSE u[1]
       IN  sh' = IF e = NoEntry THEN sh
                 ELSE IF u[2] \/ dca THEN Free(s3, {e}) ELSE s3
    /\ UNCHANGED <<pc, arg, stampRd, cellRd, held, N, CBHTState>>

\* LRUCacheShard::EraseUnRefEntries (lines 350-383).
EraseUnRefEntries(t) ==
    /\ pc[t] = "idle"
    /\ sh.lru # <<>>
    /\ LET r == DrainLRU(sh, {}) IN sh' = Free(r[1], r[2])
    /\ UNCHANGED <<pc, arg, stampRd, cellRd, held, N, CBHTState>>

\* LRUCacheShard::Ref (lines 964-972): another reference to a handle the
\* caller holds.  The assert(e->HasRefs()) is compiled out of a release
\* build; RefAssertHolds states it.
Ref(t, e) ==
    /\ pc[t] = "idle" /\ held[t][e] > 0 /\ CanHold(t)
    /\ sh' = [sh EXCEPT !.ent[e].refs = @ + 1]
    /\ Hold(t, e)
    /\ UNCHANGED <<pc, arg, stampRd, cellRd, N, CBHTState>>

\* Variant for the mutation runs: the new capacity is set but nothing is
\* evicted.
ReconfiguredNoEvict(s, c) ==
    << [s EXCEPT !.capacity = c, !.highPriCapacity = HighPriPoolCapacity(c, s.ratio)], {} >>

\* The locked part of SetCapacity (lines 540-545): set capacity_ and the
\* high pool's capacity (without MaintainPoolSize), then EvictFromLRU(0),
\* returning <<state, last_reference_list>>.
Reconfigured(s, c) ==
    EvictFromLRU([s EXCEPT !.capacity = c,
                           !.highPriCapacity = HighPriPoolCapacity(c, s.ratio)], 0, {})

\* LRUCacheShard::SetCapacity (lines 536-556): the evicted entries are
\* freed after the mutex is released.
SetCapacity(t, c) ==
    /\ pc[t] = "idle"
    /\ LET r == Reconfigured(sh, c) IN sh' = Free(r[1], r[2])
    /\ UNCHANGED <<pc, arg, stampRd, cellRd, held, N, CBHTState>>

\* LRUCacheShard::SetStrictCapacityLimit (lines 558-562).
SetStrictCapacityLimit(t, b) ==
    /\ pc[t] = "idle"
    /\ sh' = [sh EXCEPT !.strict = b]
    /\ UNCHANGED <<pc, arg, stampRd, cellRd, held, N, CBHTState>>

\* LRUCacheShard::SetHighPriorityPoolRatio (lines 974-980).
SetHighPriorityPoolRatio(t, r) ==
    /\ pc[t] = "idle"
    /\ sh' = MaintainPoolSize([sh EXCEPT !.ratio = r,
                                         !.highPriCapacity = HighPriPoolCapacity(sh.capacity, r)])
    /\ UNCHANGED <<pc, arg, stampRd, cellRd, held, N, CBHTState>>

-----------------------------------------------------------------------------
Init ==
    /\ sh = EmptyShard
    /\ pc = [t \in Threads |-> "idle"]
    /\ arg = [t \in Threads |-> NoEntry]
    /\ stampRd = [t \in Threads |-> NoStamp]
    /\ cellRd = [t \in Threads |-> 0]
    /\ held = [t \in Threads |-> [e \in Entries |-> 0]]
    /\ N = 0
    /\ CBHTState = FALSE

Next ==
    \E t \in Threads :
        \/ \E k \in Keys, c \in Charges, h \in BOOLEAN, p \in Priorities :
              Insert(t, k, c, h, p)
        \/ \E k \in Keys : LookupFast(t, k) \/ LookupSlow(t, k) \/ Erase(t, k)
        \/ \E e \in Entries : ReleaseCheck(t, e)
        \/ UnrefReadStamp(t) \/ UnrefLoad(t) \/ UnrefDecrement(t)
        \/ \E f \in BOOLEAN : ReleaseLocked(t, f)
        \/ EraseUnRefEntries(t)
        \/ \E e \in Entries : Ref(t, e)
        \/ \E c \in Capacities : SetCapacity(t, c)
        \/ \E b \in StrictSettings : SetStrictCapacityLimit(t, b)
        \/ \E r \in Ratios : SetHighPriorityPoolRatio(t, r)

Spec == Init /\ [][Next]_vars

\* A thread inside Release finishes it: mutex_ is a blocking lock every
\* holder releases, and the unlocked Unref steps wait on nothing.  (A
\* thread inside the slow path of Lookup holds no handle yet in the
\* liveness runs, so its progress is not assumed.)
Fairness ==
    \A t \in Threads :
        /\ WF_vars(UnrefReadStamp(t)) /\ WF_vars(UnrefLoad(t))
        /\ WF_vars(UnrefDecrement(t))
        /\ WF_vars(\E f \in BOOLEAN : ReleaseLocked(t, f))

\* The caller's side of the handle contract: a thread holding a handle
\* eventually releases it.  Weak fairness says so when the thread cannot
\* take another handle meanwhile (MaxHeld = 1 in the liveness runs);
\* with more, a caller could Ref and Release forever and never let go.
CallerFairness ==
    \A t \in Threads, e \in Entries : WF_vars(ReleaseCheck(t, e))

FairSpec == Spec /\ Fairness /\ CallerFairness

-----------------------------------------------------------------------------
(* Properties.                                                             *)

TypeOK ==
    /\ sh.table \in [Keys -> Entries \cup {NoEntry}]
    /\ sh.chain \in [Keys -> Entries \cup {NoEntry}]
    /\ sh.lru \in Seq(Entries) /\ sh.fifo \in Seq(Keys)
    /\ sh.usage \in Nat /\ sh.stampincr \in Stamps      \* usage_ is a size_t
    /\ sh.capacity \in Nat /\ sh.strict \in BOOLEAN
    /\ sh.lowPri \in Nat /\ sh.highPriUsage \in Nat          \* a size_t
    /\ sh.ratio \in 0 .. 100 /\ sh.highPriCapacity \in Nat
    /\ sh.avail \in [Stamps -> {0, 1}]
    /\ sh.pool \in [Stamps -> [Threads -> Int]]
    /\ sh.ent \in [Entries -> EntryRec]
    /\ pc \in [Threads -> {"idle", "lookup_slow", "unref_stamp", "unref_dec",
                           "unref_store", "release_locked"}]
    /\ arg \in [Threads -> Keys \cup Entries \cup {NoEntry}]
    /\ stampRd \in [Threads -> Int] /\ cellRd \in [Threads -> Int]
    /\ held \in [Threads -> [Entries -> Nat]]
    /\ N \in Nat /\ CBHTState \in BOOLEAN

\* No entry is freed while a thread holds a handle to it, or while the
\* primary table, the LRU list or the hot index still links it: Free() runs
\* only when the last reference goes (Release, Erase, eviction).
NoUseAfterFree ==
    \A e \in Entries : sh.ent[e].frees > 0 =>
        /\ Holders(e) = 0
        /\ e \notin Range(sh.table) \cup Range(sh.chain) \cup ToSet(sh.lru)

\* An entry is freed at most once.
NoDoubleFree == \A e \in Entries : sh.ent[e].frees <= 1

\* The references of a live entry (its refs, plus the net tally of its
\* stamp while it is in the hot index) are exactly the handles threads
\* hold to it: every Lookup/Insert handle adds one, every Release drops one
\* (spec P8: Remove restores the net count; S5: nothing net-positive left).
RefCountExact ==
    \A e \in Entries : Live(e) =>
        sh.ent[e].refs
          + (IF sh.ent[e].indca /\ ValidStamp(sh.ent[e].stamp)
             THEN TallySum(sh, sh.ent[e].stamp) ELSE 0)
          = Holders(e)

\* Spec P2: a live entry is on the LRU list iff it is in the cache, has no
\* references and is not in the hot index; so every unreferenced cached
\* entry can still be evicted.
LRUIffEvictable ==
    \A e \in Entries : Live(e) =>
        (Contains(sh.lru, e) <=> sh.ent[e].inCache /\ sh.ent[e].refs = 0
                                 /\ ~sh.ent[e].indca)

\* usage_ is the charge of the entries allocated and not yet freed: it is
\* decremented exactly when an entry's last reference goes.
UsageAccounting ==
    sh.usage = SumFunctionOnSet([e \in Entries |-> Ch(sh, e)],
                                {e \in Entries : Live(e)})

\* Spec P1/P7: the shard is over capacity only while nothing is evictable.
OverCapacityOnlyWhenPinned == sh.usage > sh.capacity => sh.lru = <<>>

\* Under a strict capacity limit no step takes usage_ above capacity_, or
\* raises it while it is above: Insert refuses what does not fit after
\* EvictFromLRU (spec I3, Status::Incomplete), whatever SetCapacity and
\* SetStrictCapacityLimit did before.
StrictNeverGrowsOverCapacity ==
    [][sh'.strict /\ sh'.usage > sh'.capacity => sh'.usage <= sh.usage]_vars

\* The assert(e->HasRefs()) of Ref (line 968): a handle a thread holds,
\* however it got it, carries an external reference when it is Ref'd.
RefAssertHolds ==
    [][\A t \in Threads, e \in Entries : Ref(t, e) => sh.ent[e].refs > 0]_vars

\* An entry that has left the cache (erased, overwritten, or dropped by an
\* over-capacity Release) is freed once its holders let go of it: the
\* deleter runs for every displaced value (spec S2), nothing leaks.
TombstonesFreed ==
    \A e \in Entries : (Live(e) /\ ~sh.ent[e].inCache) ~> ~Live(e)

\* Every key chained in the hot index is still queued in hashkeylist, so
\* EvictFIFO can reach it: EvictFIFO pops a key and must push it back when
\* Remove refuses it (line 306), Insert queues each key it chains (line 206).
HotKeysQueued == \A k \in Keys : sh.chain[k] # NoEntry => Contains(sh.fifo, k)

\* Every entry the primary table links is allocated, not freed, marked in
\* cache and filed under its own key: eviction, Erase, overwrite and the
\* over-capacity Release unlink an entry before its InCache flag drops.
TableEntriesCached ==
    \A k \in Keys : sh.table[k] # NoEntry =>
        LET e == sh.table[k] IN Live(e) /\ sh.ent[e].inCache /\ sh.ent[e].key = k

\* Two entries in the hot index never share a stamp, so each tally cell
\* counts the handles of one entry (spec I5; the stamp search of Insert,
\* lines 209-228).
HotStampsDistinct ==
    \A ka, kb \in Keys :
        ka # kb /\ sh.chain[ka] # NoEntry /\ sh.chain[kb] # NoEntry
          => sh.ent[sh.chain[ka]].stamp # sh.ent[sh.chain[kb]].stamp

\* A stamp slot marked free has a zero tally, so the next entry given that
\* stamp starts with no phantom references (Remove zeroes the cells, lines
\* 243-250; Unref in Release decrements a cell without any lock, 273-280).
FreedStampClean == \A st \in Stamps : sh.avail[st] = 0 => TallySum(sh, st) = 0

\* The hot index serves the entry the primary table holds for the key: an
\* overwriting Insert replaces the displaced entry there with the new one
\* (lines 612-620, spec 4.4 step 4), so a fast-path Lookup never returns an
\* entry that was erased or overwritten.
HotIndexCurrent ==
    \A k \in Keys : sh.chain[k] # NoEntry => sh.table[k] = sh.chain[k]

\* The two pools partition the LRU list at lru_low_pri_ (spec 4.3): the
\* entries up to the boundary are flagged low, those after it high, and
\* high_pri_pool_usage_ is the charge of the high ones.  Every removal
\* (eviction, hit, Erase, refill from Last) must move the boundary and the
\* usage with it; the assert of MaintainPoolSize (line 499) rests on it.
PoolsPartitioned ==
    /\ sh.lowPri <= Len(sh.lru)
    /\ \A i \in 1 .. Len(sh.lru) : sh.ent[sh.lru[i]].inHighPool <=> i > sh.lowPri
    /\ sh.highPriUsage = SumFunctionOnSet([e \in Entries |-> Ch(sh, e)],
                            {e \in ToSet(sh.lru) : sh.ent[e].inHighPool})

\* Spec I5: the high-priority pool never grows past its capacity, nor
\* while it is over it, and a change of the ratio leaves it within its
\* capacity (both run MaintainPoolSize).  SetCapacity does not run it, so
\* a smaller capacity may leave the pool over until the next high insert.
HighPoolWithinCapacity ==
    [][sh'.highPriUsage > sh'.highPriCapacity =>
          sh'.highPriUsage <= sh.highPriUsage /\ sh'.ratio = sh.ratio]_vars

\* The unlocked DCA_ref_pool[..]-- of Unref (line 278) loses no update:
\* between its load and its store the cell is written by nobody but a
\* Remove that zeroes it, so no Lookup increment of another thread is
\* overwritten.  That needs every thread to own its tid column (line 171).
UnrefStoreLosesNoUpdate ==
    [][\A t \in Threads :
         UnrefDecrement(t) =>
            sh.pool[stampRd[t]][getmytid(t)] \in {cellRd[t], 0}]_vars

-----------------------------------------------------------------------------
(* Refinement: the shard implements the abstract cache of KeyValueCache.   *)
(* The abstract map is the primary table, the handles are the ones threads *)
(* hold, and an entry is freed once Free() has run on it.                  *)
KVC == INSTANCE KeyValueCache WITH
          map   <- sh.table,
          holds <- held,
          freed <- {e \in Entries : sh.ent[e].frees > 0},
          used  <- {e \in Entries : sh.ent[e].allocated}

\* Every step of the shard is a step of the abstract cache (or leaves its
\* state alone): no held entry is evicted, nothing is freed while mapped
\* or held, and everything unmapped and unheld is freed at once.
CacheRefinement == KVC!ASpec

=============================================================================
