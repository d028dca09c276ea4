------------------------------ MODULE CBHTable ------------------------------
(***************************************************************************)
(* The auxiliary hot index of a shard ("CBHT" / "DCA" in the code):        *)
(* CBHTable in src/cache/lru_cache.cc, lines 147-322.                      *)
(*                                                                         *)
(* The table borrows entries owned by the shard, and its operations change *)
(* fields of those entries (indca, DCAstamp, refs).  So every operator     *)
(* here is a pure function from a shard state s to a new shard state      *)
(* (and a result), where s is a record with at least the fields           *)
(*   chain     : Keys -> Entries \cup {NoEntry}   the bucket chains,       *)
(*               keyed by key (FindPointer compares (hash, key))           *)
(*   fifo      : Seq(Keys)       hashkeylist, the admission queue          *)
(*   avail     : Stamps -> {0,1} the slot-availability part of DCA_ref_pool*)
(*   pool      : Stamps -> [Threads -> Int]   the per-tid tally columns,   *)
(*               each column named by a thread that getmytid() maps to it  *)
(*   stampincr : Stamps          where the next stamp search starts        *)
(*   ent       : Entries -> entry records (key, refs, indca, stamp, ...)   *)
(* Sequential calls inside one locked section of the shard are then        *)
(* function composition, and a whole handler stays one atomic step.        *)
(***************************************************************************)
EXTENDS Integers, Sequences, FiniteSets, SequencesExt, FiniteSetsExt, Functions

CONSTANTS
    Keys,           \* the keys (hash and key bytes are abstracted together)
    Threads,        \* worker threads
    Tid,            \* thread -> the column getmytid() returns for it
    CBHTbitlength,  \* B: the table has 2^B buckets and 2^B stamps
    NoEntry         \* nullptr

ASSUME CBHTbitlength \in Nat \ {0}
ASSUME Tid \in [Threads -> Threads]

\* getmytid (lines 41-48): the tid a thread registered in tids, and tid 0
\* for a thread that never registered, so unregistered threads share one
\* column.  The registry is filled before the workers start; Tid is fixed.
getmytid(t) == Tid[t]

AuxCap == 2 ^ CBHTbitlength              \* size_t{1} << CBHTbitlength
Stamps == 0 .. AuxCap - 1
NoStamp == -1                            \* DCAstamp of an entry not in the table

\* The sanity check on a stamp read without the write lock (lines 170, 242, 277).
ValidStamp(st) == st > -1 /\ st < AuxCap

\* elems_: Insert counts only a new key, Remove uncounts what it unlinks.
Elems(s) == Cardinality({k \in Keys : s.chain[k] # NoEntry})

\* IsTableFull and the guards of Insert: (elems_ >> (length_bits_ - 1)) > 0.
IsTableFull(s) == Elems(s) >= AuxCap \div 2

\* Sum over tids of the tally cells of one stamp (Remove, lines 243-247).
TallySum(s, st) == SumFunction(s.pool[st])

(***************************************************************************)
(* Lookup (lines 164-175): the entry chained under k; if its stamp is     *)
(* valid, the calling thread's tally cell for that stamp is incremented    *)
(* (one step: a Lookup racing another on the same cell is not split).      *)
(* It returns the new state; the entry found is s.chain[k].                *)
(***************************************************************************)
\* Variant for the mutation runs: the cell index is off by one column.
CBHT_LookupNextColumn(s, k, t) ==
    LET e == s.chain[k] IN
    IF e # NoEntry /\ ValidStamp(s.ent[e].stamp)
    THEN [s EXCEPT !.pool[s.ent[e].stamp][CHOOSE u \in Threads : u # getmytid(t)] = @ + 1]
    ELSE s

CBHT_Lookup(s, k, t) ==
    LET e == s.chain[k] IN
    IF e # NoEntry /\ ValidStamp(s.ent[e].stamp)
    THEN [s EXCEPT !.pool[s.ent[e].stamp][getmytid(t)] = @ + 1]
    ELSE s

(***************************************************************************)
(* Remove (lines 234-271), returning <<state, result>>.  With dontforce a  *)
(* nonzero tally sum refuses the removal; otherwise the cells are zeroed,  *)
(* the sum is added to refs (clamped at 0), the stamp is released and the  *)
(* entry unchained.  An entry whose stamp is not valid is returned but not *)
(* unchained.                                                              *)
(***************************************************************************)
CBHT_Remove(s, k, dontforce) ==
    LET r       == s.chain[k]
        st      == s.ent[r].stamp
        refstmp == TallySum(s, st)
    IN  IF r = NoEntry \/ ~ValidStamp(st) THEN <<s, r>>
        ELSE IF dontforce /\ refstmp # 0 THEN <<s, NoEntry>>
        ELSE << [s EXCEPT
                   !.pool[st]    = IF dontforce THEN @ ELSE [t \in Threads |-> 0],
                   !.ent[r].refs = IF @ + refstmp < 0 THEN 0 ELSE @ + refstmp,
                   !.ent[r].stamp = NoStamp,
                   !.avail[st]   = 0,
                   !.ent[r].indca = FALSE,
                   !.chain[k]    = NoEntry],
                r >>

(***************************************************************************)
(* Unref (lines 273-280) is not a state function: Release runs it without  *)
(* any lock, as three steps of the calling thread (see LRUCacheShard).     *)
(***************************************************************************)

(***************************************************************************)
(* EvictFIFO (lines 292-315), returning <<state, evicted-or-NoEntry>>.     *)
(* Pops keys off hashkeylist, at most 2^B times; a key still chained is    *)
(* looked up (which bumps the caller's tally) and removed without force;  *)
(* a refused key goes back to the tail.  Stops at the first removal.       *)
(***************************************************************************)
\* A variant of EvictLoop that drops a refused key instead of requeueing it
\* (the mutation runs substitute it for EvictLoop).
RECURSIVE EvictLoopNoRequeue(_, _, _)
EvictLoopNoRequeue(s, t, hardlimit) ==
    IF s.fifo = <<>> \/ hardlimit = 0 THEN <<s, NoEntry>>
    ELSE
      LET k   == Head(s.fifo)
          s1  == CBHT_Lookup([s EXCEPT !.fifo = Tail(@)], k, t)
          rm  == CBHT_Remove(s1, k, TRUE)
      IN  IF s1.chain[k] = NoEntry \/ rm[2] = NoEntry
          THEN EvictLoopNoRequeue(rm[1], t, hardlimit - 1)
          ELSE rm

RECURSIVE EvictLoop(_, _, _)
EvictLoop(s, t, hardlimit) ==
    IF s.fifo = <<>> \/ hardlimit = 0 THEN <<s, NoEntry>>
    ELSE
      LET k   == Head(s.fifo)
          s1  == CBHT_Lookup([s EXCEPT !.fifo = Tail(@)], k, t)
          rm  == CBHT_Remove(s1, k, TRUE)
      IN  IF s1.chain[k] = NoEntry THEN EvictLoop(s1, t, hardlimit - 1)
          ELSE IF rm[2] = NoEntry
               THEN EvictLoop([rm[1] EXCEPT !.fifo = Append(@, k)], t, hardlimit - 1)
               ELSE rm

EvictFIFO(s, t) == EvictLoop(s, t, AuxCap)

(***************************************************************************)
(* The stamp search of Insert (lines 209-225): the first free slot after   *)
(* stampincr, wrapping around; NoStamp if every slot is taken.             *)
(***************************************************************************)
FreeStamp(s) ==
    LET d == {i \in 1 .. AuxCap : s.avail[(s.stampincr + i) % AuxCap] = 0}
    IN  IF d = {} THEN NoStamp ELSE (s.stampincr + Min(d)) % AuxCap

(***************************************************************************)
(* Insert (lines 178-232), returning <<state, result>>: the displaced      *)
(* entry of the same key (or NoEntry), or h itself if the table is still   *)
(* half full after one EvictFIFO.  The entry EvictFIFO evicted is dropped  *)
(* here.  When no slot is free the stamp is 0 (stamptmp's initial value)   *)
(* and no slot is marked.                                                  *)
(***************************************************************************)
CBHT_Insert(s, h, t) ==
    LET s1  == IF IsTableFull(s) THEN EvictFIFO(s, t)[1] ELSE s
        k   == s1.ent[h].key
        fs  == FreeStamp(s1)
    IN  IF IsTableFull(s1) THEN <<s1, h>>
        ELSE << [s1 EXCEPT
                   !.chain[k]      = h,
                   !.fifo          = Append(@, k),
                   !.ent[h].indca  = TRUE,
                   !.avail         = IF fs = NoStamp THEN @ ELSE [@ EXCEPT ![fs] = 1],
                   !.stampincr     = IF fs = NoStamp THEN @ ELSE fs,
                   !.ent[h].stamp  = IF fs = NoStamp THEN 0 ELSE fs],
                s1.chain[k] >>

=============================================================================
