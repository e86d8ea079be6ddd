------------------------------- MODULE LruPolicy -------------------------------
(***************************************************************************)
(* The cache alone, driven by arbitrary calls, with two history variables  *)
(* that state its promises without its data structures: what was last set  *)
(* under a key, and which keys were used since.                            *)
(***************************************************************************)
EXTENDS LruCache

CONSTANTS
    Values,
    Ttls,               \* the TTLs callers pass, in time units
    NoValue             \* "nothing set, or invalidated since"

ASSUME PolicyAssumption ==
    /\ IsFiniteSet(Keys)
    /\ Ttls \subseteq Nat \ {0}
    /\ NoValue \notin Values

VARIABLES
    lastSet,            \* history: the value last set under each key
    usedSince           \* history: keys used since each key's last use

policyVars == <<entries, eviction, lastSet, usedSince>>

PolicyInit ==
    /\ CacheInit
    /\ lastSet = [k \in Keys |-> NoValue]
    /\ usedSince = [k \in Keys |-> {}]

\* k is used: it becomes the most recent of all.
Use(k) == usedSince' = [j \in Keys |-> IF j = k THEN {} ELSE usedSince[j] \cup {k}]

Get(k) ==
    /\ UNCHANGED lastSet
    /\ \/ GetHit(k) /\ Use(k)
       \/ GetMiss(k) /\ UNCHANGED usedSince

Put(k, v, ttl) ==
    /\ Set(k, v, ttl)
    /\ Use(k)
    /\ lastSet' = [lastSet EXCEPT ![k] = v]

Drop(ks) ==
    /\ Invalidate(ks)
    /\ lastSet' = [k \in Keys |-> IF k \in ks THEN NoValue ELSE lastSet[k]]
    /\ UNCHANGED usedSince

PolicyTick == CacheTick /\ UNCHANGED <<lastSet, usedSince>>

PolicyNext ==
    \/ \E k \in Keys : Get(k)
    \/ \E k \in Keys, v \in Values, ttl \in Ttls : Put(k, v, ttl)
    \/ \E ks \in SUBSET Keys : Drop(ks)
    \/ PolicyTick

PolicySpec == PolicyInit /\ [][PolicyNext]_policyVars

-----------------------------------------------------------------------------
\* Whatever a Get may answer is what was last set under its key and not
\* invalidated since: no eviction, expiry or promotion mixes entries up.
HitsAreLastSet == \A k \in Cached : entries[k].value = lastSet[k]

\* A live entry is lost only by an invalidation, or by the insertion of
\* another key while the cache is full and every key that stays was used
\* after the one that goes.  A sequence of Gets, overwrites and expiries in
\* between must not change who the victim is.
EvictsLeastRecentlyUsed ==
    [][\A k \in Keys :
         Live(k) /\ k \notin Cached' /\ lastSet'[k] # NoValue =>
            /\ Len(eviction) = MaxEntries
            /\ \A j \in Cached \ {k} : j \in usedSince[k]]_policyVars

=============================================================================
