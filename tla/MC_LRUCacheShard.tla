------------------------- MODULE MC_LRUCacheShard --------------------------
(***************************************************************************)
(* Model-checking instance of LRUCacheShard: two threads, two keys and a   *)
(* few allocations.  The tally cells, refs and hashkeylist are unbounded   *)
(* in the code (the hot index can leak counts and re-queue keys), so a     *)
(* state constraint bounds them with the named bounds below.               *)
(***************************************************************************)
EXTENDS LRUCacheShard, TLC

CONSTANTS t1, t2, k1, k2, e1, e2, e3

CONSTANTS
    TallyBound,   \* |tally cell| and refs explored
    FifoBound,    \* length of hashkeylist explored
    UsageBound    \* |usage_| explored: usage_ drifts when the hot index
                  \* frees an entry without uncharging it

MCThreads  == {t1, t2}
MCKeys     == {k1, k2}
MCEntries2 == {e1, e2}
MCEntries3 == {e1, e2, e3}

\* Frees of one allocation explored: a second Free is already a double
\* free; further ones add nothing.
FreeBound == 2

StateBound ==
    /\ \A st \in Stamps, t \in Threads : sh.pool[st][t] \in -TallyBound .. TallyBound
    /\ \A e \in Entries : sh.ent[e].refs \in -TallyBound .. TallyBound
    /\ Len(sh.fifo) <= FifoBound
    /\ \A e \in Entries : sh.ent[e].frees <= FreeBound
    /\ sh.usage \in -UsageBound .. UsageBound

\* Every thread registered (its own column), or none (all share tid 0).
TidOwn    == [t \in MCThreads |-> t]
TidShared == [t \in MCThreads |-> t1]

\* With the ratio 0 throughout (HighPriPoolRatio = 0, Ratios = {}),
\* LRU_Insert never reads highPri or hit, so states that differ only in
\* them behave alike: the runs without pools identify them.
NoPoolView ==
    << [sh EXCEPT !.ent = [e \in Entries |-> [sh.ent[e] EXCEPT !.hit = FALSE,
                                                              !.highPri = FALSE]]],
       pc, arg, stampRd, cellRd, held, N, CBHTState >>

\* Thread symmetry is sound only while each thread owns its column.
Symmetry     == Permutations(MCThreads) \cup Permutations(MCKeys)
KeySymmetry  == Permutations(MCKeys)
=============================================================================
