----------------------------- MODULE ShardedCache -----------------------------
(***************************************************************************)
(* The LRUCache facade of src/cache/lru_cache.cc (lines 1158-1310) over    *)
(* the adaptive controller: NewLRUCache validates its arguments and        *)
(* constructs 2^num_shard_bits shards of ceil(capacity / num_shards)       *)
(* capacity each; a lookup is routed by its hash to one shard, whose       *)
(* controller counts it in the cells hashshard = Shard(hash) * PADDING of  *)
(* the process-wide arrays (AdaptiveController); DisownData drops the      *)
(* shards at shutdown.                                                     *)
(*                                                                         *)
(* The routing of ShardedCache (sharded_cache.cc) is not in the            *)
(* repository; it is modelled from spec 4.5 as hash & (num_shards - 1),    *)
(* the same mask as the file's own Shard (lines 50-53), whose shard bits   *)
(* numshardbits are a constant of lru_cache.h.  The shards' cache state is *)
(* LRUCacheShard's and is not composed here: a shard is its capacity.      *)
(* Capacities are size_t: SizeWidth bits, arithmetic modulo 2^SizeWidth.   *)
(***************************************************************************)
EXTENDS Integers, Bitwise

CONSTANTS
    numshardbits,    \* shard bits of the process-wide arrays (lru_cache.h)
    PADDING, NLIMIT, CBHTturnoff, DCAflush, CountBound,
    Capacities,      \* capacity arguments of NewLRUCache
    ShardBits,       \* num_shard_bits arguments of NewLRUCache
    PoolRatios,      \* high_pri_pool_ratio arguments, in percent
    Hashes,          \* hashes of the looked-up keys
    SizeWidth,       \* bits of size_t
    Null

ASSUME /\ numshardbits \in 0 .. 19 /\ SizeWidth \in Nat \ {0}
       /\ Capacities \subseteq 0 .. 2^SizeWidth - 1
       /\ ShardBits \subseteq Nat /\ PoolRatios \subseteq Int
       /\ Hashes \subseteq Nat

VARIABLES
    cache,   \* Null, or the constructed LRUCache
    totalhit, nohit, virtual_totalhit, virtual_nohit, N, hitrate, sortarr,
    DCAskip_hit, DCAflush_hit, Nsupple, CBHTState, flushed, decided

ctl == <<totalhit, nohit, virtual_totalhit, virtual_nohit, N, hitrate, sortarr,
         DCAskip_hit, DCAflush_hit, Nsupple, CBHTState, flushed, decided>>
vars == <<cache, ctl>>

AC == INSTANCE AdaptiveController WITH shardnumlimit <- 2^numshardbits

(* Shard (lines 50-53): the low numshardbits bits of the hash.             *)
Shard(hash) == hash & (2^numshardbits - 1)

(* The per-shard capacity (line 1169), in size_t.                          *)
PerShardCapacity(capacity, num_shards) ==
    ((capacity + (num_shards - 1)) % 2^SizeWidth) \div num_shards

(* The LRUCache constructor (lines 1158-1177): 2^num_shard_bits shards,    *)
(* each constructed with the per-shard capacity and the pool ratio.        *)
LRUCacheCtor(capacity, num_shard_bits, high_pri_pool_ratio) ==
    [capacity   |-> capacity,
     num_shards |-> 2^num_shard_bits,
     per_shard  |-> PerShardCapacity(capacity, 2^num_shard_bits),
     ratio      |-> high_pri_pool_ratio]

(* NewLRUCache (lines 1272-1310): num_shard_bits of 20 or more, or a ratio *)
(* outside [0, 1], gives nullptr.  A null result leaves the caller without *)
(* a cache, and it may try again.                                          *)
NewLRUCache(capacity, num_shard_bits, high_pri_pool_ratio) ==
    /\ cache = Null
    /\ cache' =
         IF num_shard_bits >= 20 \/ high_pri_pool_ratio < 0 \/ high_pri_pool_ratio > 100
         THEN Null
         ELSE LRUCacheCtor(capacity, num_shard_bits, high_pri_pool_ratio)
    /\ UNCHANGED ctl

(* A Lookup through the facade: routed to the shard of its hash (spec      *)
(* 4.5), whose controller step is AdaptiveController's Lookup.             *)
Lookup(hash) ==
    /\ cache # Null /\ cache.num_shards > 0
    /\ \E fastHit, present, inDCA \in BOOLEAN :
          AC!Lookup(Shard(hash), fastHit, present, inDCA)
    /\ UNCHANGED cache

(* DisownData (lines 1218-1224): at shutdown the shards are dropped        *)
(* without being destroyed; no call follows it.                            *)
DisownData ==
    /\ cache # Null /\ cache.num_shards > 0
    /\ cache' = [cache EXCEPT !.num_shards = 0]
    /\ UNCHANGED ctl

Init == cache = Null /\ AC!Init

Next ==
    \/ \E c \in Capacities, b \in ShardBits, r \in PoolRatios : NewLRUCache(c, b, r)
    \/ \E hash \in Hashes : Lookup(hash)
    \/ DisownData

Spec == Init /\ [][Next]_vars

-----------------------------------------------------------------------------
TypeOK ==
    /\ \/ cache = Null
       \/ /\ cache.capacity \in Capacities /\ cache.num_shards \in Nat
          /\ cache.per_shard \in 0 .. 2^SizeWidth - 1 /\ cache.ratio \in 0 .. 100
    /\ AC!TypeOK

(* The controller of every shard stores as its skip median the median of   *)
(* all shards' hit rates (spec 4.6 b-c), across the lookups of all shards. *)
ControllerMedianIsPercentile == AC!SkipMedianIsPercentile

CountersBounded == AC!CountersBounded
=============================================================================
