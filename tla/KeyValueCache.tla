---------------------------- MODULE KeyValueCache ----------------------------
(***************************************************************************)
(* What a cache shard promises its callers, whatever its eviction policy,  *)
(* capacity rule or index: a key maps to at most one entry; a caller can   *)
(* take handles only to a mapped entry (or one it already holds, or the    *)
(* one it inserts); an entry is dropped from the map only by overwrite,    *)
(* Erase or eviction, and eviction takes only entries nobody holds; an     *)
(* entry is freed exactly when it is neither mapped nor held, at the step  *)
(* that makes it so.  Capacity is abstracted away: any Insert may be       *)
(* refused, any unheld entry may be evicted.                               *)
(***************************************************************************)
EXTENDS Naturals, FiniteSets, Functions, FiniteSetsExt

CONSTANTS Keys, Threads, Entries, NoEntry

VARIABLES
    map,      \* key -> the entry the cache holds for it, or NoEntry
    holds,    \* thread -> entry -> handles held
    freed,    \* entries whose value has been deleted
    used      \* entries ever allocated

avars == <<map, holds, freed, used>>

Held(e) == \E t \in Threads : holds[t][e] > 0

Mapped(e) == e \in Range(map)

\* Keys whose entries may be evicted: mapped and held by nobody.
Evictable == {k \in Keys : map[k] # NoEntry /\ ~Held(map[k])}

\* map without the keys V.
Unmap(m, V) == [k \in Keys |-> IF k \in V THEN NoEntry ELSE m[k]]

AInit ==
    /\ map = [k \in Keys |-> NoEntry]
    /\ holds = [t \in Threads |-> [e \in Entries |-> 0]]
    /\ freed = {}
    /\ used = {}

\* Insert of a fresh entry e under k, after evicting the keys V; refused
\* (e freed at once) or admitted (e replaces the old entry, which is freed
\* if nobody holds it), with a handle for t if asked and admitted.
Put(t, k, e, withHandle) ==
    /\ e \notin used
    /\ used' = used \cup {e}
    /\ \E V \in SUBSET Evictable :
         LET m   == Unmap(map, V)
             old == m[k]
         IN  \/ /\ map' = m
                /\ freed' = freed \cup {map[v] : v \in V} \cup {e}
                /\ UNCHANGED holds
             \/ /\ map' = [m EXCEPT ![k] = e]
                /\ freed' = freed \cup {map[v] : v \in V}
                              \cup (IF old # NoEntry /\ ~Held(old) THEN {old} ELSE {})
                /\ holds' = IF withHandle THEN [holds EXCEPT ![t][e] = @ + 1]
                            ELSE holds

\* A Lookup hit, or a Ref of a handle already held.
Get(t, k) ==
    /\ map[k] # NoEntry
    /\ holds' = [holds EXCEPT ![t][map[k]] = @ + 1]
    /\ UNCHANGED <<map, freed, used>>

Dup(t, e) ==
    /\ holds[t][e] > 0
    /\ holds' = [holds EXCEPT ![t][e] = @ + 1]
    /\ UNCHANGED <<map, freed, used>>

\* Release of one handle.  The last handle of an unmapped entry frees it;
\* the last handle of a mapped one may also drop it from the map.
Release(t, e) ==
    /\ holds[t][e] > 0
    /\ holds' = [holds EXCEPT ![t][e] = @ - 1]
    /\ LET last == \A u \in Threads : holds'[u][e] = 0
       IN  \/ /\ UNCHANGED map
              /\ freed' = IF last /\ ~Mapped(e) THEN freed \cup {e} ELSE freed
           \/ /\ last /\ Mapped(e)
              /\ map' = [k \in Keys |-> IF map[k] = e THEN NoEntry ELSE map[k]]
              /\ freed' = freed \cup {e}
    /\ UNCHANGED used

\* Erase of a mapped key: freed now if nobody holds it.
Erase(k) ==
    /\ map[k] # NoEntry
    /\ map' = [map EXCEPT ![k] = NoEntry]
    /\ freed' = IF Held(map[k]) THEN freed ELSE freed \cup {map[k]}
    /\ UNCHANGED <<holds, used>>

\* Eviction of unheld entries outside an Insert (SetCapacity, EraseUnRef).
Evict ==
    \E V \in SUBSET Evictable :
        /\ V # {}
        /\ map' = Unmap(map, V)
        /\ freed' = freed \cup {map[v] : v \in V}
        /\ UNCHANGED <<holds, used>>

ANext ==
    \/ \E t \in Threads, k \in Keys, e \in Entries, h \in BOOLEAN : Put(t, k, e, h)
    \/ \E t \in Threads, k \in Keys : Get(t, k)
    \/ \E t \in Threads, e \in Entries : Dup(t, e) \/ Release(t, e)
    \/ \E k \in Keys : Erase(k)
    \/ Evict

ASpec == AInit /\ [][ANext]_avars

=============================================================================
