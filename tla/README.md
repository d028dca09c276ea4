# TLA+ models of the LRU cache shard with a hot index

This directory holds TLA+ models of `src/cache/lru_cache.cc`. That file is a RocksDB LRU cache extended with an auxiliary hot index (`CBHTable`, called "DCA" in the code and the spec). The modules model one cache shard as used by concurrent threads. TLC configurations check them, and `PROJECT.json` lists the components, runs, mutants, the definition-to-source map, the findings and the hazards.

## The system

`lru_cache.cc` has these parts:

| Part | Lines | Role |
|---|---|---|
| `LRUHandleTable` | 55-145 | The primary hash table: key → `LRUHandle`. |
| `CBHTable` | 147-322 | The hot index: a second hash table of 2^B buckets. Each entry in it carries a *stamp* (`DCAstamp`), a slot of `DCA_ref_pool`, which holds one tally cell per thread id. A hot-index Lookup increments the caller's cell rather than `refs`. `Remove` adds the sum of the cells back into `refs`. `hashkeylist` is a FIFO of the chained keys. `EvictFIFO` pops keys from it and removes the first one whose tally sum is 0. |
| LRU list | 385-534 | A doubly linked list of entries that are in cache, unreferenced and not in the hot index. `EvictFromLRU` frees from its head. |
| `LRUCacheShard` | 324-1156 | The handlers. They hold `mutex_`, and take `rwmutex_` for writing inside it when they touch the hot index. |
| Adaptive controller | 683-895 | Inside `Lookup`, slow path. Its counters are process-wide arrays indexed `Shard(hash) * PADDING`, and `sortarr` is one shared scratch array. Every NLIMIT slow hits it compares hit rates across shards. It may flush the hot index back onto the LRU, promotes the hit entry, refills the hot index from the MRU end of the LRU, and switches the fast path (`CBHTState`) on. |
| `LRUCache` / `ShardedCache` | 1158-1310 | The facade that routes calls to shards. `NewLRUCache` validates the arguments. The constructor gives each of the 2^num_shard_bits shards capacity ceil(capacity/N), computed in `size_t`. `DisownData` drops the shards at shutdown. |

Lookup has two paths:
- **Fast path (727-754):** an unlocked probe of the primary table, then the hot index under the read lock.
- **Slow path (757-897):** runs under `mutex_`.

Release also has two parts:
- **Unlocked part (988-993):** if `e->indca`, it runs `CBHTable::Unref`, which reads `DCAstamp` and decrements a tally cell, with no lock at all.
- **Locked part:** otherwise the usual RocksDB release under `mutex_`.

## Modules

### `CBHTable.tla` — the hot index

Every operation is a pure operator from a shard state record to a new record, plus a result. This lets a locked handler compose several calls in one atomic step.

| Definition | Code | What it models |
|---|---|---|
| `CBHT_Lookup` | 164-175 | Returns the chained entry and increments the caller's tally. |
| `CBHT_Remove(s, k, dontforce)` | 234-271 | Refuses when dontforce is set and the tally sum is non-zero. Otherwise it zeroes the cells when forced, adds the sum into `refs` clamped at 0, releases the stamp and unchains the entry. |
| `EvictLoop` / `EvictFIFO` | 292-315 | RECURSIVE. At most 2^B pops. A key that is still chained is probed with Lookup and removed without force. A refused key is re-queued. |
| `FreeStamp` | 209-225 | The wrap-around search from `stampincr`. |
| `CBHT_Insert` | 178-232 | One EvictFIFO when the table is half full; the result of that EvictFIFO is discarded. It refuses if the table is still half full. When no slot is free, the stamp is 0. |
| `IsTableFull`, `Elems`, `TallySum`, `ValidStamp` | — | The counters and checks of the code. |

Buckets are abstracted to one chain per key. The code's `FindPointer` compares hash and key, and lengths are bounded by the table's own limit, so this loses no behaviour.

### `LRUCacheShard.tla` — one shard

**State.**
- `sh`: one record with the fields `table`, `lru`, `usage`, `chain`, `fifo`, `avail`, `pool`, `stampincr` and `ent`. `ent` maps each allocation to its `LRUHandle` fields: key, charge, refs, inCache, indca, stamp, allocated, and `frees`, the number of `Free()` calls.
- Per thread: `pc`, `arg`, `stampRd` (the stamp Unref read), `cellRd` (the tally cell value Unref loaded), and `held` (the handles it holds).
- The constant `Tid` (in `CBHTable`) is `getmytid` (41-48): the tally column of each thread. `TidOwn` gives every thread its own column (all registered); `TidShared` puts both on column 0, as for threads that never registered.
- The controller's `N` and `CBHTState`.

**Helpers.** Each is a function of the shard state:
- Table and LRU: `TableInsert`, `TableRemove`, `LRU_Insert`, `LRU_Remove`, `MaintainPoolSize`, `ToHighPool`.
- Freeing: `Free`, `EvictFromLRU`, `DrainLRU`.
- Insert: `Displace`, `HandOut`, `AdmitOrRefuse`, `InsertItem`.
- Promotion: `FlushDCA`, `Refill`, `Promote`.
- Lookup, Release and Erase: `LookupHit`, `ReleaseKeeps`, `LastReference`, `ReleaseEvict`, `EraseUnlink`.

**Actions.** One per handler, with each unlocked step of Release as a step of its own:

| Action | Code | |
|---|---|---|
| `Insert(t, k, c, withHandle)` | 1044-1077, 564-643 | Allocation, then `InsertItem` with its eviction, overwrite, hot-index replacement and the strict or non-strict refusal. |
| `LookupFast(t, k)` | 727-754 | Hot hit; hot miss (may switch `CBHTState` off); fast path off. |
| `LookupSlow(t, k)` | 757-897 | Miss; hit; hit with adaptive decision (optional flush, promotion, refill). |
| `ReleaseCheck` → `UnrefReadStamp` → `UnrefLoad` → `UnrefDecrement` | 988-993, 273-280 | The unlocked Release of a hot entry: read the stamp, load the `int` cell, store it minus one. |
| `ReleaseCheck` → `ReleaseLocked(t, force_erase)` | 994-1041 | Release under `mutex_`. |
| `Erase(t, k)` | 1079-1118 | |
| `EraseUnRefEntries(t)` | 350-383 | |
| `Ref(t, e)` | 964-972 | Another reference to a handle the thread holds. |
| `SetCapacity(t, c)` | 536-556 | Sets `capacity_`, then `EvictFromLRU(0)` and frees what it evicted. |
| `SetStrictCapacityLimit(t, b)` | 558-562 | |
| `SetHighPriorityPoolRatio(t, r)` | 974-980 | Sets the ratio and the high pool's capacity, then `MaintainPoolSize`. |

**Atomicity.** Every writer of the table, the LRU, the hot index and the entry flags holds `mutex_`, so each locked handler is one step. The fast path holds `rwmutex_` for reading, which excludes every hot-index writer, so it is one step too. Only the unlocked parts of Release interleave with other threads inside a handler, and they are split into their reads and writes. The `++` of a fast-path Lookup stays one step; two Lookups of one tid racing on a cell are not split, so the lost updates the model shows are those of an Unref.

**Data abstraction.**
- The hit-rate and median arithmetic of the controller is replaced by a free choice of its outcomes: flush or not, and re-enable the fast path or not. `CBHTturnoff = 100` pins the fast path on, as the code does.
- **The LRU and its two pools.** The list is a sequence: `Head` is `lru_.next`, the eviction end. The field `lowPri` is the position of `lru_low_pri_`, where 0 stands for the sentinel.
  - Positions `1..lowPri` form the low-priority pool; the rest form the high-priority pool.
  - `LRU_Remove` steps the boundary back when it removes the boundary entry or one below it, as the pointer semantics imply.
  - `highPriUsage`, `ratio` (in percent) and `highPriCapacity` are fields of `sh`.
  - `highPriCapacity` is `capacity * ratio`, floored, as the code's double-to-`size_t` conversion does. The ratios used (0, 50, 100) are exact binary fractions.
  - Entries carry `highPri` (from `Insert`'s priority), `hit` (`SetHit` on a slow-path hit) and `inHighPool`.
- **`VIEW NoPoolView` in the runs with the ratio 0 throughout.** `LRU_Insert` then never reads `highPri` or `hit`. Those runs therefore identify states that differ only in those two flags, and the state counts are unchanged from before the flags existed.
- `refs` is kept in its 32-bit two's-complement view, so a decrement at 0 shows as −1 and `HasRefs()` is then true.
- `capacity_` and `strict_capacity_limit_` are fields of `sh`. `Capacities` and `StrictSettings` are the values the reconfiguring calls may pass; they are empty in the runs that do not reconfigure.
- Allocations come from a finite set `Entries` and are never reused. A freed entry stays visible, so a use after `Free()` or a second `Free()` can be detected.

### `KeyValueCache.tla` — what a shard promises

`KeyValueCache` is the abstract cache, written from the spec's lifecycle (section 3) and the contracts of section 4.4, with capacity abstracted away.

**State.** A map from key to entry, the handles each thread holds, the freed entries and the allocated entries.

**Actions:**
- `Put`: evict any set of unheld entries, then refuse the insert or admit it, optionally with a handle.
- `Get`: take a handle to the mapped entry.
- `Dup`: Ref a handle already held.
- `Release`.
- `Erase`.
- `Evict`: drop unheld entries outside an Insert.

An entry is freed exactly at the step that leaves it neither mapped nor held. `LRUCacheShard` maps onto it with `KVC == INSTANCE KeyValueCache WITH map <- sh.table, holds <- held, freed <- {e : Free() ran}, used <- {e : allocated}`. `CacheRefinement == KVC!ASpec` is checked as a property.

### `AdaptiveController.tla` — the controller across shards

`LRUCacheShard` replaces the controller's arithmetic with a free choice of its outcomes. This module keeps that arithmetic, for `shardnumlimit` shards, on process-wide arrays of `shardnumlimit * PADDING` cells indexed `hashshard = Shard(hash) * PADDING`. Those arrays and both constants are declared in `lru_cache.h`, which is not in the repository. They are modelled as zero-initialised global ints, as the code indexes them.
- **State:** `totalhit`, `nohit`, `virtual_totalhit`, `virtual_nohit`, `N`, `hitrate`, `sortarr`, `DCAskip_hit`, `DCAflush_hit`, `Nsupple` and `CBHTState`, named as in the code. `flushed` holds the flush verdict of a shard's last decision, and `decided` holds the shard that decided in the last step.
- **`Lookup(s, fastHit, present, inDCA)`:** one lookup of a key the primary table holds, as one step, covering lines 725-892. The shard's contents are abstracted into three choices:
  - `fastHit`: the fast path finds the key in the hot index;
  - `present`: the key is still in the table on the slow path;
  - `inDCA`: the entry found there is in the hot index.
  A fast miss counts in `nohit` and switches the fast path off past `Nsupple`. A slow hit counts in the virtual counters. Past `NLIMIT` hits it runs `Decide`.
- **`Decide`:** the hit rate (`HitRate`), `copyAndSort`, the two medians (`Median`), their averages over the first `shardnumlimit` cells (`AvgFirst`), `Nsupple`, the flush verdict, re-enabling the fast path, and the counter resets.
- **`RateAtRank`:** the reference. It gives the value of a rank among all shards' hit rates by counting, without a sort. `SkipMedianIsPercentile` compares the stored median with it.
- **Not composed with `LRUCacheShard`.** The verdicts' effect on the cache is `Promote` there.
- **Hit counters bounded by `CountBound`.** This is the state constraint `CountersBounded`. In the code the counters are unbounded between two decisions.
- **Mutants.** `copyAndSortNoSort` and `MedianNoHalf` are the variants of `copyAndSort` and `Median` used for the mutants.

### `ShardedCache.tla` — the facade over the controller

This module composes `AdaptiveController` as `AC == INSTANCE AdaptiveController WITH shardnumlimit <- 2^numshardbits`. It adds the facade's state, `cache`: `Null`, or the constructed cache with its capacity, number of shards, per-shard capacity and pool ratio.
- **`NewLRUCache(capacity, num_shard_bits, ratio)`:** gives `Null` for 20 or more shard bits, or for a ratio outside [0, 1]. Otherwise it builds `LRUCacheCtor`, whose per-shard capacity `PerShardCapacity` wraps modulo 2^`SizeWidth` as `size_t` does. A caller left with `Null` may try again.
- **`Lookup(hash)`:** routes to `Shard(hash) = hash & (2^numshardbits - 1)`, the file's `Shard` (lines 50-53), and runs `AC!Lookup` there. The facade's own routing is in `sharded_cache.cc`, which is not in the repository. Spec 4.5 gives it the same mask, and the model takes `num_shard_bits = numshardbits`.
- **`DisownData`:** sets the number of shards to 0. No call follows it, so a run that includes it stops there.

### `MC_LRUCacheShard.tla` — the instance for TLC

- Two threads, two keys, and 2 or 3 allocations as model values.
- A state constraint `StateBound` bounds:
  - tally cells and `refs` to `±TallyBound`;
  - `hashkeylist` to `FifoBound`;
  - `usage_` to `±UsageBound`;
  - frees per entry to `FreeBound` = 2.
  These counters are unbounded in the code, because leaked tallies and re-queued keys grow without limit.
- Symmetry over threads and keys is sound while `Tid` is `TidOwn`: no action or property names a particular thread or key. With `TidShared` only the keys are symmetric.

## Runs

| Run | cfg | Expect | Properties | Shows |
|---|---|---|---|---|
| `classic` | `MC_classic.cfg` | pass | TypeOK, NoUseAfterFree, NoDoubleFree, RefCountExact, LRUIffEvictable, UsageAccounting, OverCapacityOnlyWhenPinned, StrictNeverGrowsOverCapacity, CacheRefinement | With the hot index off (`CBHTturnoff = 0`), and `SetCapacity` (to 1 or 3) and `SetStrictCapacityLimit` callable between any operations: reference counting, LRU membership, freeing and capacity accounting are correct; the shard is over capacity only while nothing is evictable; under a strict limit no step grows `usage_` past `capacity_`; and every step is a step of `KeyValueCache`. The run uses 3 allocations, charges 1 and 2, capacity 2, and two threads each holding up to 2 handles. About 134k states. |
| `hot_index` | `MC_hot.cfg` | pass | HotKeysQueued, TableEntriesCached, UnrefStoreLosesNoUpdate | With the hot index on, flushes allowed and the fast path switching, every chained key stays reachable by EvictFIFO, and the primary table links only live, cached entries under their key. With every thread registered, no update is lost between the load and the store of Unref's decrement. About 1.7M states, about 70 s. |
| `pools_and_no_leak` | `MC_liveness.cfg` | pass | PoolsPartitioned, HighPoolWithinCapacity, TombstonesFreed | With the hot index off, `high_pri_pool_ratio` 50 (0.5 of capacity 2, so a high pool of 1) that `SetHighPriorityPoolRatio` may change to 0 or 100, and inserts of both priorities: `lru_low_pri_` splits the LRU exactly into the two pools, `high_pri_pool_usage_` is the charge of the high one, and that pool never grows past its capacity (spec I5). With callers that release what they hold, every erased, overwritten or over-capacity entry is eventually freed. Two allocations, no symmetry and no state constraint; about 29k states. |
| `ref_without_reference` | `MC_hot_ref_assert.cfg` | violation | RefAssertHolds | The `assert(e->HasRefs())` in `Ref` fails on a handle `Insert` gave out. |
| `overwritten_hot_entry_leaks` | `MC_hot_leak.cfg` | violation | TombstonesFreed | An overwritten entry is never freed, and its charge stays in `usage_`. |
| `erase_frees_held_hot_entry` | `MC_hot_erase_held.cfg` | violation | NoUseAfterFree | Erase frees a hot entry a thread holds. |
| `flush_then_promote` | `MC_hot_flush_lru.cfg` | violation | LRUIffEvictable | The flush puts a held entry on the LRU, and promotion chains it again. |
| `unref_after_remove` | `MC_hot_unref_race.cfg` | violation | FreedStampClean | Release's unlocked Unref decrements a cell after a forced Remove freed the stamp. |
| `stale_hot_entry` | `MC_hot_stale_hot.cfg` | violation | HotIndexCurrent | An overwrite while the hot index is full leaves the old entry chained and served. |
| `controller_across_shards` | `ShardedCache_controller.cfg` | pass | TypeOK, ControllerMedianIsPercentile | Through the facade, with valid and rejected `NewLRUCache` calls and the lookups of two shards interleaved, and with `PADDING = 1`: every decision stores as its skip median the median of all shards' hit rates. Hit rates and medians stay in 0..100. About 775k states, about 65 s. |
| `controller_padding` | `AdaptiveController_padding.cfg` | violation | SkipMedianIsPercentile | With `PADDING = 2` and three shards, a decision's stored skip median is not the median of the shards' hit rates. The run has 222 states, and the trace is 5 steps. |
| `tid_shared_lost_update` | `MC_hot_tid_shared.cfg` | violation | UnrefStoreLosesNoUpdate | With no thread registered (all on tid 0), another thread's fast-path `++` between Unref's load and store is lost. No thread symmetry here. |

**Why the safety runs check different properties.** With the hot index on, the properties of `classic` fail (see the findings). `hot_index` checks what still holds there.

**Mutants.** Every property of the passing runs has a mutant in `PROJECT.json`. The mutant is a variant helper defined just before the real one, with one plausible defect: a reference not taken, an uncharge skipped, a refused key not re-queued, a tally cell of the wrong thread, and so on. Replacing the helper with it makes TLC report the property violated.

### Findings

Each violation run is a disagreement between the code and the spec (`spec.md`) or the code's own comments. `PROJECT.json` gives each one with its source line. In brief:

1. **`Erase` frees a held hot entry.** At line 1105 it sets `last_reference = true` for any entry with `indca` set.
2. **`EvictFIFO` leaks tally references.** Its probe `Lookup` (line 301) increments the caller's tally cell, and nothing ever decrements it. This has no run of its own: it is one step of finding 8's trace (`overwritten_hot_entry_leaks`).
3. **A flush can put a held entry on the LRU.** It puts every entry it evicts on the LRU, even one with `refs` 1 (line 836). Promotion and refill then re-chain it (868), so a held entry sits on the LRU and in the hot index. `EvictFromLRU`, or the assert in `EraseUnRefEntries` (line 358), can then act on it.
4. **The unlocked `Unref` races `Remove`.** Because it runs without a lock (988-993, 273-280), it can decrement a freed stamp's cell.
5. **The controller's sort and averages ignore the padding.** The arrays are written at `Shard(hash) * PADDING` (725). `copyAndSort` copies every PADDING-th cell (689-690) but sorts the first `shardnumlimit` cells (693). The averages sum `DCAskip_hit[0..shardnumlimit-1]` (816-827). With `PADDING > 1` a decision's medians and `Nsupple` come from unwritten cells and a subset of the shards. Spec §4.6 b-d says all shards. The stamp leak and the stamp-0 collision (210, 227) are not a run: spec §9 already records them as a latent bug, and `HotStampsDistinct` states them.
6. **An overwrite can leave the old entry in the hot index.** The hot-index replacement on overwrite (617) is refused when the index is full, so the old entry stays chained.
7. **Insert can hand out a handle with no reference.** When it overwrites a key in the hot index, the handle carries no reference (`if(!e->indca) e->Ref()`, line 626). A later `Ref` of that handle fails its assert (968).
8. **An overwritten entry can leak.** A promoted entry keeps the `refs` 1 of the slow-path hit while its Release goes through `Unref`. An overwriting Insert therefore does not free it (603). EvictFIFO's probe then cancels the tally, and the entry is unchained with `refs` 1. Nothing links, holds or frees it ever again.
9. **Threads that never registered lose tally updates.** `getmytid` returns 0 for them (line 44), and Unref's `DCA_ref_pool[..]--` (278) is a plain load and store without a lock. Another thread's fast-path `++` (171) on the same cell between them is overwritten. The spec calls the sharing an acceptable under-count (line 194), but the tally is not a statistic: it is the sum Remove tests for zero and adds back to `refs`.

## Bounds

- **The liveness runs drop the symmetry** (TLC's symmetry reduction is unsound for liveness). `pools_and_no_leak` also drops the state constraint: with one handle per thread and two allocations, every counter is bounded. Two allocations of charge 1 under capacity 2 are enough to fill the high pool and demote an entry. With three allocations and pools, the run without symmetry takes minutes.
- **`classic` uses `UsageBound` 6,** so that pinned entries of charge 2 may overfill capacity 1 after `SetCapacity`.

- **B = 1 (2 stamps, table half full at one entry) in most violation runs.** With this setting EvictFIFO and the refusal paths already happen after one promotion. `flush_then_promote` needs B = 1: with a larger table, Refill re-chains the flushed entry and hides the LRU membership.
- **`controller_across_shards`: 2 shards, `NLIMIT` 3, `CountBound` 4.** These bounds let `Nsupple = NLIMIT*avg/100` reach 1 and 2, so the fast path tolerates misses and its counters count. ACTIVATE_PCTL 50 reads the lower of the two hit rates, and FLUSH_PCTL 100 reads the upper. Four shards did not finish in 15 minutes. Hashes 0 and 2 reach shard 0 and hash 1 reaches shard 1. The facade branches are: a rejected ratio, rejected shard bits, a valid cache, and `DisownData`.
- **`controller_padding`: 3 shards, `NLIMIT` 1, `CountBound` 3.** Three shards make the 50th percentile a real median (rank 1), so a mix-up of cells changes it. With `NLIMIT` 1, a decision follows every two slow hits. The hit counters reach 3, enough for the hit rates 0, 33, 50, 66 and 100.
- **B = 2 with 3 allocations for the passing runs.** This gives overwrite, eviction, flush, refill and over-capacity states.
- **Bounds on the counters.** `TallyBound` 1-2, `FifoBound` 2-3 and `UsageBound` 3 allow leaks of one or two counts, which are enough to break the properties that can break.
- **The constraint is pruning, not a change of behaviour.** TLC checks invariants on the states just past the constraint too.

## Fairness

`FairSpec == Spec /\ Fairness /\ CallerFairness` is used only by the liveness runs.

**`Fairness`: weak fairness of the steps inside Release** (`UnrefReadStamp`, `UnrefLoad`, `UnrefDecrement`, `ReleaseLocked`). `mutex_` is a blocking lock that every holder releases, and the unlocked Unref steps wait on nothing, so a thread inside Release finishes it. The progress of a thread inside the slow path of Lookup is not assumed. Such a thread holds no handle in these runs, so the result holds without that assumption.

**`CallerFairness`: the caller's side of the contract.** A thread holding a handle eventually releases it (weak fairness of `ReleaseCheck`). The liveness runs set `MaxHeld` to 1, so a thread holding a handle cannot take another or leave idle. There, weak fairness says exactly "releases it eventually". With more handles, a caller could alternate `Ref` and Release forever and never let go, and TLC finds that loop.

## Not modelled, and why

- **`LRUHandleTable::Resize`** only rebuilds buckets. The unlocked fast-path probe (line 730) is one step with the read-locked index lookup: its only own outcome is a nullptr for a key read as absent, which is the atomic Lookup at that moment, so splitting it adds no behaviour over keys and entries. A torn read of the bucket array while Resize deletes it is memory-level, below this model.
- **Registration in the tid registry.** `tids` is filled before the workers start, so `Tid` is a constant, not an action.
- **The secondary cache, `Promote` (645-680) and `WaitAll`.** These are external collaborators.
- **The rest of the `LRUCache` / `ShardedCache` facade.** The destructor only frees memory. `WaitAll` belongs to the secondary cache, and the accessors read without writing. The facade's shards are not composed with `LRUCacheShard`: the two models together are far beyond TLC. A shard in `ShardedCache` is its capacity and its controller cells.
- **`size_t` wrap of the per-shard capacity** (line 1169). It is modelled in `PerShardCapacity`, but no run checks a property of it.
- **The agreement of `numshardbits` (lru_cache.h) with `num_shard_bits`.** The header is not in the repository, so there is nothing to check the agreement against.
- **Concurrent `qsort` of the shared `sortarr`** (line 693). Its intermediate orders are below the model's granularity.
- **Statistics, timing and printing.**
- **The `LRUHandle` header (`lru_cache.h`).** It is not in the repository, so its field semantics come from the spec (`EntryRec`, marked spec-modelled).

## Plan for later sittings

Done so far:
- `Ref`, `SetCapacity` and `SetStrictCapacityLimit`.
- The abstract cache and its refinement. It holds with the hot index off; findings 1 and 8 show it does not hold with the index on.
- Liveness of freeing.
- Threads sharing tid 0, with the lost tally update (finding 9).
- The high/low-priority pools, `MaintainPoolSize` and `SetHighPriorityPoolRatio`.

- The controller's arithmetic across shards (`AdaptiveController`, finding 5).

- The facade composed with the controller, with a passing run (`ShardedCache`, `controller_across_shards`).

Remaining:
1. The pools with the hot index on, where the flush puts hit entries back into the high pool.
