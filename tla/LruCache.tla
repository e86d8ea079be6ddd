------------------------------- MODULE LruCache -------------------------------
(***************************************************************************)
(* The in-memory cache of internal/api/cache.go: a map for the lookups and *)
(* a doubly linked list, most recently used first, for the eviction order. *)
(* Every method holds c.mu for its whole body, so each is one step.  The   *)
(* code keeps the two structures in step by hand in five places.           *)
(*                                                                         *)
(* expiresAt is represented by the time left until it: an entry expires    *)
(* when time.Now() is after expiresAt, that is when left is negative.      *)
(***************************************************************************)
EXTENDS Integers, Sequences, FiniteSets

CONSTANTS
    Keys,               \* cache keys
    MaxEntries          \* CacheConfig.MaxEntries

ASSUME CacheAssumption == MaxEntries \in Nat \ {0}

VARIABLES
    entries,            \* c.entries: key -> value and time left
    eviction            \* c.eviction, front first

cacheVars == <<entries, eviction>>

CacheInit ==
    /\ entries = <<>>
    /\ eviction = <<>>

-----------------------------------------------------------------------------
(* Helpers.                                                                *)

Cached == DOMAIN entries
Listed == {eviction[i] : i \in DOMAIN eviction}

\* Seeded fault: the expiry time is not compared.
Live_Forever(k) == k \in Cached

Live(k) == k \in Cached /\ entries[k].left >= 0

\* The list without the elements of the keys in ks, the others in their order
\* (SelectSeq, in a form that can be reasoned about): what comes n-th is the
\* element that is kept with n - 1 such before it.
Unlinked(ks) ==
    LET kept    == {i \in DOMAIN eviction : eviction[i] \notin ks}
        Rank(i) == Cardinality({j \in kept : j <= i})
    IN  [n \in 1 .. Cardinality(kept) |-> eviction[CHOOSE i \in kept : Rank(i) = n]]

\* The map without the keys in ks.
Deleted(ks) == [k \in Cached \ ks |-> entries[k]]

\* The key evictLRU drops to make room, if the cache is at capacity.
Victims ==
    IF Len(eviction) >= MaxEntries THEN {eviction[Len(eviction)]} ELSE {}

-----------------------------------------------------------------------------
(* Get has three outcomes.                                                 *)

\* Seeded fault: a hit does not count as a use.
GetHit_NoPromotion(k) ==
    /\ Live(k)
    /\ UNCHANGED cacheVars

\* Seeded fault: a hit on an entry about to expire gives it another unit.
GetHit_Renews(k) ==
    /\ Live(k)
    /\ eviction' = <<k>> \o Unlinked({k})
    /\ entries' = [entries EXCEPT ![k].left = IF @ = 0 THEN 1 ELSE @]

GetHit(k) ==
    /\ Live(k)
    /\ eviction' = <<k>> \o Unlinked({k})
    /\ UNCHANGED entries

\* Seeded fault: the lazy expiry leaves the list element behind.
GetExpired_LeavesElement(k) ==
    /\ k \in Cached
    /\ ~Live(k)
    /\ entries' = Deleted({k})
    /\ UNCHANGED eviction

\* The lazy expiry: an expired entry is dropped by the Get that finds it.
GetExpired(k) ==
    /\ k \in Cached
    /\ ~Live(k)
    /\ entries' = Deleted({k})
    /\ eviction' = Unlinked({k})

GetAbsent(k) ==
    /\ k \notin Cached
    /\ UNCHANGED cacheVars

GetMiss(k) == GetExpired(k) \/ GetAbsent(k)

\* Seeded fault: the entry's value is not replaced.
Overwrite_KeepsValue(k, v, ttl) ==
    /\ k \in Cached
    /\ entries' = [entries EXCEPT ![k].left = ttl]
    /\ eviction' = <<k>> \o Unlinked({k})

\* Set over an existing key, live or expired: no eviction.
Overwrite(k, v, ttl) ==
    /\ k \in Cached
    /\ entries' = [entries EXCEPT ![k] = [value |-> v, left |-> ttl]]
    /\ eviction' = <<k>> \o Unlinked({k})

\* Seeded fault: the capacity is compared with > instead of >=.
Insert_OffByOne(k, v, ttl) ==
    LET out == IF Len(eviction) > MaxEntries THEN {eviction[Len(eviction)]} ELSE {}
    IN  /\ k \notin Cached
        /\ entries' = [j \in (Cached \ out) \cup {k} |->
                          IF j = k THEN [value |-> v, left |-> ttl] ELSE entries[j]]
        /\ eviction' = <<k>> \o Unlinked(out)

\* Set of a new key, after evictLRU when the cache is full.
Insert(k, v, ttl) ==
    /\ k \notin Cached
    /\ entries' = [j \in (Cached \ Victims) \cup {k} |->
                      IF j = k THEN [value |-> v, left |-> ttl] ELSE entries[j]]
    /\ eviction' = <<k>> \o Unlinked(Victims)

Set(k, v, ttl) == Overwrite(k, v, ttl) \/ Insert(k, v, ttl)

\* Invalidate (one key) and InvalidatePrefix (every key with the prefix).
Invalidate(ks) ==
    /\ entries' = Deleted(ks)
    /\ eviction' = Unlinked(ks)

\* One unit of time passes; an expired entry stays where it is.
CacheTick ==
    /\ entries' = [k \in Cached |->
                     [value |-> entries[k].value,
                      left  |-> IF Live(k) THEN entries[k].left - 1
                                           ELSE entries[k].left]]
    /\ UNCHANGED eviction

-----------------------------------------------------------------------------
\* The map and the list hold the same keys, each once, and never more than
\* MaxEntries, whatever mix of insertions, overwrites, expiries, evictions and
\* invalidations happens.  The code updates them separately in Get, Set,
\* evictLRU, Invalidate and InvalidatePrefix; a key in one and not in the
\* other is a leak, or an eviction of nothing.
MapMatchesList ==
    /\ Cached = Listed
    /\ \A i, j \in DOMAIN eviction : eviction[i] = eviction[j] => i = j

Coherent == MapMatchesList /\ Len(eviction) <= MaxEntries

=============================================================================
