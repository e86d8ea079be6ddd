------------------------------ MODULE CacheProofs ------------------------------
(***************************************************************************)
(* Proofs about the cache, alone (LruPolicy) and under the calls of the    *)
(* cached services (ReadThrough), for every size of the cache and any      *)
(* keys, values, times to live, callers and tables of methods.  What the   *)
(* two share is the map and the list, which the first part is about.       *)
(***************************************************************************)
EXTENDS LruPolicy, ReadThrough, FiniteSetTheorems, SequenceTheorems,
        WellFoundedInduction, TLAPS

Places == 1 .. Len(eviction)

\* What is in front of an element was used after it.
InOrderOfUse ==
    \A i, j \in Places : i < j => eviction[i] \in usedSince[eviction[j]]

-----------------------------------------------------------------------------
(* The list without some of its elements.                                  *)

\* It is what is left of the list, in its order.
LEMMA UnlinkedKeepsOrder ==
  ASSUME NEW ks, eviction \in Seq(Keys)
  PROVE  /\ Unlinked(ks) \in Seq(Keys)
         /\ \E place \in [1 .. Len(Unlinked(ks)) -> Places] :
               /\ \A n \in 1 .. Len(Unlinked(ks)) :
                     /\ Unlinked(ks)[n] = eviction[place[n]]
                     /\ eviction[place[n]] \notin ks
               /\ \A m, n \in 1 .. Len(Unlinked(ks)) : m < n => place[m] < place[n]
               /\ \A i \in Places :
                     eviction[i] \notin ks => \E n \in 1 .. Len(Unlinked(ks)) : place[n] = i
         /\ Len(Unlinked(ks)) <= Len(eviction)
         /\ (\E i \in Places : eviction[i] \in ks) => Len(Unlinked(ks)) < Len(eviction)
<1> DEFINE kept    == {i \in DOMAIN eviction : eviction[i] \notin ks}
           Rank(i) == Cardinality({j \in kept : j <= i})
           K       == Cardinality(kept)
           rank    == [i \in kept |-> Rank(i)]
           pos     == [n \in 1 .. K |-> CHOOSE i \in kept : Rank(i) = n]
<1> HIDE DEF kept, Rank, K, rank, pos
<1>1. Len(eviction) \in Nat /\ DOMAIN eviction = Places
  BY LenProperties DEF Places
<1>2. \A i \in Places : eviction[i] \in Keys
  BY ElementOfSeq DEF Places
<1>3. IsFiniteSet(Places) /\ Cardinality(Places) = Len(eviction)
  BY <1>1, FS_Interval DEF Places
<1>4. kept \in SUBSET Places /\ \A i \in Places : i \in kept <=> eviction[i] \notin ks
  BY <1>1 DEF kept
<1>5. IsFiniteSet(kept) /\ K \in Nat /\ K <= Len(eviction)
  BY <1>3, <1>4, FS_Subset, FS_CardinalityType DEF K
<1>6. \A i \in kept : i \in Int
  BY <1>1, <1>4 DEF Places
<1>7. \A i \in kept : Rank(i) \in 1 .. K
  <2> SUFFICES ASSUME NEW i \in kept
               PROVE  Rank(i) \in 1 .. K
    OBVIOUS
  <2> DEFINE T == {j \in kept : j <= i}
  <2>1. T \in SUBSET kept /\ i \in T
    BY <1>6
  <2> HIDE DEF T
  <2>2. IsFiniteSet(T) /\ Cardinality(T) <= K
    BY <1>5, <2>1, FS_Subset DEF K
  <2>3. Cardinality(T) \in Nat /\ Cardinality(T) # 0
    BY <2>1, <2>2, FS_CardinalityType, FS_EmptySet
  <2>4. Rank(i) = Cardinality(T)
    BY DEF Rank, T
  <2>5. QED
    BY <1>5, <2>2, <2>3, <2>4
<1>8. \A i, j \in kept : i < j => Rank(i) < Rank(j)
  <2> SUFFICES ASSUME NEW i \in kept, NEW j \in kept, i < j
               PROVE  Rank(i) < Rank(j)
    OBVIOUS
  <2> DEFINE T == {h \in kept : h <= i}
             R == {h \in kept : h <= j}
  <2>1. T \in SUBSET R /\ R \in SUBSET kept /\ j \in R /\ j \notin T
    BY <1>6
  <2>2. Rank(i) = Cardinality(T) /\ Rank(j) = Cardinality(R)
    BY DEF Rank
  <2> HIDE DEF T, R
  <2>3. IsFiniteSet(R)
    BY <1>5, <2>1, FS_Subset
  <2>4. Cardinality(T) <= Cardinality(R) /\ Cardinality(R) # Cardinality(T)
    BY <2>1, <2>3, FS_Subset
  <2>5. Rank(i) \in Int /\ Rank(j) \in Int
    BY <1>5, <1>7
  <2>6. QED
    BY <2>2, <2>4, <2>5
<1>9. \A i, j \in kept : Rank(i) = Rank(j) => i = j
  <2> SUFFICES ASSUME NEW i \in kept, NEW j \in kept, Rank(i) = Rank(j), i # j
               PROVE  FALSE
    OBVIOUS
  <2>1. i < j \/ j < i
    BY <1>6
  <2>2. Rank(i) \in Int
    BY <1>5, <1>7
  <2>3. QED
    BY <1>8, <2>1, <2>2
<1>10. \A n \in 1 .. K : \E i \in kept : Rank(i) = n
  <2>1. rank \in [kept -> 1 .. K] /\ \A i \in kept : rank[i] = Rank(i)
    BY <1>7 DEF rank
  <2>2. rank \in Injection(kept, 1 .. K)
    BY <1>9, <2>1 DEF Injection, IsInjective
  <2>3. IsFiniteSet(1 .. K) /\ Cardinality(1 .. K) = K
    BY <1>5, FS_Interval
  <2>4. rank \in Surjection(kept, 1 .. K)
    BY <2>2, <2>3, FS_Injection DEF K
  <2>5. QED
    BY <2>1, <2>4 DEF Surjection
<1>11. \A n \in 1 .. K : pos[n] \in kept /\ Rank(pos[n]) = n
  BY <1>10 DEF pos
<1>12. Unlinked(ks) = [n \in 1 .. K |-> eviction[pos[n]]]
  BY DEF Unlinked, pos, K, Rank, kept
<1>13. \A n \in 1 .. K : /\ Unlinked(ks)[n] = eviction[pos[n]]
                         /\ eviction[pos[n]] \notin ks
  BY <1>4, <1>11, <1>12
<1>14. \A n \in 1 .. K : eviction[pos[n]] \in Keys
  BY <1>2, <1>4, <1>11
<1>15. Unlinked(ks) \in Seq(Keys) /\ Len(Unlinked(ks)) = K
  BY <1>5, <1>12, <1>14
<1>16. pos \in [1 .. Len(Unlinked(ks)) -> Places]
  BY <1>4, <1>11, <1>15 DEF pos
<1>17. \A m, n \in 1 .. K : m < n => pos[m] < pos[n]
  <2> SUFFICES ASSUME NEW m \in 1 .. K, NEW n \in 1 .. K, m < n, ~(pos[m] < pos[n])
               PROVE  FALSE
    OBVIOUS
  <2>1. pos[m] \in kept /\ pos[n] \in kept /\ Rank(pos[m]) = m /\ Rank(pos[n]) = n
    BY <1>11
  <2>2. pos[n] < pos[m] \/ pos[n] = pos[m]
    BY <1>6, <2>1
  <2>3. QED
    BY <1>5, <1>8, <2>1, <2>2
<1>18. \A i \in Places : eviction[i] \notin ks => \E n \in 1 .. K : pos[n] = i
  <2> SUFFICES ASSUME NEW i \in kept
               PROVE  \E n \in 1 .. K : pos[n] = i
    BY <1>4
  <2>1. Rank(i) \in 1 .. K
    BY <1>7
  <2>2. pos[Rank(i)] = i
    BY <1>9, <1>11, <2>1
  <2>3. QED
    BY <2>1, <2>2
<1>19. ASSUME NEW i \in Places, eviction[i] \in ks
       PROVE  K < Len(eviction)
  <2>1. kept # Places
    BY <1>4, <1>19
  <2>2. K # Len(eviction)
    BY <1>3, <1>4, <2>1, FS_Subset DEF K
  <2>3. QED
    BY <1>1, <1>5, <2>2
<1>20. QED
  BY <1>5, <1>13, <1>15, <1>16, <1>17, <1>18, <1>19

\* Hence its keys are those of the list that are not taken out, each once and
\* in order of use if they were so in the list.
LEMMA UnlinkedIsTheRest ==
  ASSUME NEW ks, eviction \in Seq(Keys)
  PROVE  /\ {Unlinked(ks)[n] : n \in 1 .. Len(Unlinked(ks))} = Listed \ ks
         /\ MapMatchesList =>
               \A m, n \in 1 .. Len(Unlinked(ks)) :
                  Unlinked(ks)[m] = Unlinked(ks)[n] => m = n
         /\ InOrderOfUse =>
               \A m, n \in 1 .. Len(Unlinked(ks)) :
                  m < n => Unlinked(ks)[m] \in usedSince[Unlinked(ks)[n]]
<1> DEFINE u == Unlinked(ks)
           Here == 1 .. Len(u)
<1>1. u \in Seq(Keys)
  BY UnlinkedKeepsOrder
<1> HIDE DEF u
<1>2. PICK place \in [Here -> Places] :
         /\ \A n \in Here : u[n] = eviction[place[n]] /\ eviction[place[n]] \notin ks
         /\ \A m, n \in Here : m < n => place[m] < place[n]
         /\ \A i \in Places : eviction[i] \notin ks => \E n \in Here : place[n] = i
  BY UnlinkedKeepsOrder DEF u
<1>3. DOMAIN eviction = Places /\ Len(eviction) \in Nat /\ Len(u) \in Nat
  BY <1>1, LenProperties DEF Places
<1>4. \A n \in Here : place[n] \in Places /\ place[n] \in Int /\ n \in Int
  <2>1. \A n \in Here : n \in Int
    BY <1>3
  <2>2. \A i \in Places : i \in Int
    BY <1>3 DEF Places
  <2> HIDE DEF Here
  <2>3. QED
    BY <2>1, <2>2
<1> HIDE DEF Here
<1>5. {u[n] : n \in Here} = Listed \ ks
  <2>1. \A n \in Here : u[n] \in Listed \ ks
    BY <1>2, <1>3, <1>4 DEF Listed
  <2>2. \A key \in Listed \ ks : \E n \in Here : u[n] = key
    BY <1>2, <1>3 DEF Listed
  <2>3. QED
    BY <2>1, <2>2
<1>6. ASSUME MapMatchesList, NEW m \in Here, NEW n \in Here, u[m] = u[n], m # n
      PROVE  FALSE
  <2>1. place[m] = place[n]
    BY <1>2, <1>3, <1>4, <1>6 DEF MapMatchesList
  <2>2. m < n \/ n < m
    BY <1>4, <1>6
  <2>3. place[m] < place[n] \/ place[n] < place[m]
    BY <1>2, <2>2
  <2>4. QED
    BY <1>4, <2>1, <2>3
<1>7. ASSUME InOrderOfUse, NEW m \in Here, NEW n \in Here, m < n
      PROVE  u[m] \in usedSince[u[n]]
  BY <1>2, <1>4, <1>7 DEF InOrderOfUse
<1>8. QED
  BY <1>5, <1>6, <1>7 DEF u, Here

-----------------------------------------------------------------------------
(* The map and the list together.                                          *)

ListOK == Cached \subseteq Keys /\ eviction \in Seq(Keys) /\ Coherent

LEMMA InitListOK == CacheInit => ListOK
<1> SUFFICES ASSUME CacheInit
             PROVE  ListOK
  OBVIOUS
<1>1. entries = <<>> /\ eviction = <<>>
  BY DEF CacheInit
<1>2. eviction \in Seq(Keys) /\ Len(eviction) = 0 /\ DOMAIN eviction = {} /\ Cached = {}
  BY <1>1 DEF Cached
<1>3. QED
  BY <1>2, CacheAssumption DEF ListOK, Coherent, MapMatchesList, Listed

\* A step that only takes keys out of the list.
LEMMA TakenOut ==
  ASSUME NEW ks, ListOK, eviction' = Unlinked(ks)
  PROVE  /\ eviction' \in Seq(Keys)
         /\ Listed' = Listed \ ks
         /\ (\A i, j \in DOMAIN eviction : eviction[i] = eviction[j] => i = j)'
         /\ Len(eviction') <= MaxEntries
         /\ InOrderOfUse /\ usedSince' = usedSince => InOrderOfUse'
<1>1. eviction \in Seq(Keys) /\ MapMatchesList /\ Len(eviction) <= MaxEntries
  BY DEF ListOK, Coherent
<1>2. /\ eviction' \in Seq(Keys)
      /\ Len(eviction') <= Len(eviction)
  BY <1>1, UnlinkedKeepsOrder
<1>3. /\ DOMAIN eviction' = 1 .. Len(eviction')
      /\ Len(eviction') \in Nat
      /\ Len(eviction) \in Nat
  BY <1>1, <1>2, LenProperties
<1>4. /\ {eviction'[n] : n \in 1 .. Len(eviction')} = Listed \ ks
      /\ \A m, n \in 1 .. Len(eviction') : eviction'[m] = eviction'[n] => m = n
      /\ InOrderOfUse =>
            \A m, n \in 1 .. Len(eviction') :
               m < n => eviction'[m] \in usedSince[eviction'[n]]
  BY <1>1, UnlinkedIsTheRest
<1>5. Listed' = Listed \ ks
  BY <1>3, <1>4 DEF Listed
<1>6. Len(eviction') <= MaxEntries
  BY <1>1, <1>2, <1>3, CacheAssumption
<1>7. (\A i, j \in DOMAIN eviction : eviction[i] = eviction[j] => i = j)'
  BY <1>3, <1>4
<1>8. InOrderOfUse /\ usedSince' = usedSince => InOrderOfUse'
  BY <1>4 DEF InOrderOfUse, Places
<1>9. QED
  BY <1>2, <1>5, <1>6, <1>7, <1>8

\* A step that takes keys out and puts a key in front that is not among the
\* rest; the list stays in order of use if that is a use of the key.
LEMMA PutInFront ==
  ASSUME NEW ks, NEW k \in Keys, ListOK, k \in ks \/ k \notin Listed,
         eviction' = <<k>> \o Unlinked(ks)
  PROVE  /\ eviction' \in Seq(Keys)
         /\ Listed' = (Listed \ ks) \cup {k}
         /\ (\A i, j \in DOMAIN eviction : eviction[i] = eviction[j] => i = j)'
         /\ Len(eviction') = Len(Unlinked(ks)) + 1
         /\ InOrderOfUse /\ Use(k) => InOrderOfUse'
<1> DEFINE u == Unlinked(ks)
<1>1. eviction \in Seq(Keys) /\ MapMatchesList
  BY DEF ListOK, Coherent
<1>2. /\ {u[n] : n \in 1 .. Len(u)} = Listed \ ks
      /\ \A m, n \in 1 .. Len(u) : u[m] = u[n] => m = n
      /\ InOrderOfUse => \A m, n \in 1 .. Len(u) : m < n => u[m] \in usedSince[u[n]]
  BY <1>1, UnlinkedIsTheRest
<1>3. u \in Seq(Keys)
  BY <1>1, UnlinkedKeepsOrder
<1> HIDE DEF u
<1>4. eviction' = <<k>> \o u /\ <<k>> \in Seq(Keys) /\ Len(<<k>>) = 1 /\ <<k>>[1] = k
  BY DEF u
<1>5. Len(u) \in Nat
  BY <1>3, LenProperties
<1>6. /\ eviction' \in Seq(Keys)
      /\ Len(eviction') = Len(u) + 1
      /\ \A i \in 1 .. Len(u) + 1 : eviction'[i] = IF i <= 1 THEN k ELSE u[i - 1]
  <2>1. /\ <<k>> \o u \in Seq(Keys)
        /\ Len(<<k>> \o u) = 1 + Len(u)
        /\ \A i \in 1 .. 1 + Len(u) : (<<k>> \o u)[i] = IF i <= 1 THEN <<k>>[i] ELSE u[i - 1]
    BY <1>3, <1>4, ConcatProperties
  <2>2. \A i \in 1 .. 1 + Len(u) : i <= 1 => i = 1
    BY <1>5
  <2>3. 1 + Len(u) = Len(u) + 1
    BY <1>5
  <2>4. QED
    BY <1>4, <2>1, <2>2, <2>3
<1>7. DOMAIN eviction' = 1 .. Len(u) + 1
  BY <1>6, LenProperties
<1>8. /\ eviction'[1] = k
      /\ \A i \in 1 .. Len(u) + 1 : i # 1 =>
            i > 1 /\ i - 1 \in 1 .. Len(u) /\ eviction'[i] = u[i - 1]
  <2>1. 1 \in 1 .. Len(u) + 1 /\ 1 <= 1
    BY <1>5
  <2>2. ASSUME NEW i \in 1 .. Len(u) + 1, i # 1
        PROVE  i > 1 /\ i - 1 \in 1 .. Len(u) /\ ~(i <= 1)
    BY <1>5, <2>2
  <2>3. QED
    BY <1>6, <2>1, <2>2
<1>9. \A n \in 1 .. Len(u) : u[n] # k /\ u[n] \in Keys
  BY <1>2, <1>3, ElementOfSeq
<1>10. Listed' = (Listed \ ks) \cup {k}
  <2>1. \A i \in 1 .. Len(u) + 1 : eviction'[i] \in (Listed \ ks) \cup {k}
    BY <1>2, <1>8
  <2>2. ASSUME NEW n \in 1 .. Len(u)
        PROVE  n + 1 \in 1 .. Len(u) + 1 /\ eviction'[n + 1] = u[n]
    <3>1. n + 1 \in 1 .. Len(u) + 1 /\ n + 1 # 1 /\ (n + 1) - 1 = n
      BY <1>5
    <3>2. eviction'[n + 1] = u[(n + 1) - 1]
      BY <1>8, <3>1
    <3>3. QED
      BY <3>1, <3>2
  <2>3. 1 \in 1 .. Len(u) + 1 /\ eviction'[1] = k
    <3>1. 1 \in 1 .. Len(u) + 1
      BY <1>5
    <3>2. QED
      BY <1>8, <3>1
  <2>4. \A key \in (Listed \ ks) \cup {k} : \E i \in 1 .. Len(u) + 1 : eviction'[i] = key
    <3> SUFFICES ASSUME NEW key \in Listed \ ks
                 PROVE  \E i \in 1 .. Len(u) + 1 : eviction'[i] = key
      BY <2>3
    <3>1. PICK n \in 1 .. Len(u) : u[n] = key
      BY <1>2
    <3>2. QED
      BY <2>2, <3>1
  <2>5. QED
    BY <1>7, <2>1, <2>4 DEF Listed
<1>11. (\A i, j \in DOMAIN eviction : eviction[i] = eviction[j] => i = j)'
  <2> SUFFICES ASSUME NEW i \in 1 .. Len(u) + 1, NEW j \in 1 .. Len(u) + 1,
                      eviction'[i] = eviction'[j]
               PROVE  i = j
    BY <1>7
  <2>1. CASE i = 1 \/ j = 1
    BY <1>8, <1>9, <2>1
  <2>2. CASE i # 1 /\ j # 1
    <3>1. /\ i - 1 \in 1 .. Len(u) /\ eviction'[i] = u[i - 1]
          /\ j - 1 \in 1 .. Len(u) /\ eviction'[j] = u[j - 1]
      BY <1>8, <2>2
    <3>2. i - 1 = j - 1
      BY <1>2, <3>1
    <3>3. i \in Int /\ j \in Int
      BY <1>5
    <3>4. QED
      BY <3>2, <3>3
  <2>3. QED
    BY <2>1, <2>2
<1>12. ASSUME InOrderOfUse, Use(k)
       PROVE  InOrderOfUse'
  <2> SUFFICES ASSUME NEW i \in 1 .. Len(u) + 1, NEW j \in 1 .. Len(u) + 1, i < j
               PROVE  eviction'[i] \in usedSince'[eviction'[j]]
    BY <1>6 DEF InOrderOfUse, Places
  <2> i \in Int /\ j \in Int /\ i >= 1
    BY <1>5
  <2>1. j - 1 \in 1 .. Len(u) /\ eviction'[j] = u[j - 1]
    <3>1. j # 1
      OBVIOUS
    <3>2. QED
      BY <1>8, <3>1
  <2>2. usedSince'[eviction'[j]] = usedSince[u[j - 1]] \cup {k}
    BY <1>9, <1>12, <2>1 DEF Use
  <2>3. CASE i = 1
    BY <1>8, <2>2, <2>3
  <2>4. CASE i # 1
    <3>1. i - 1 \in 1 .. Len(u) /\ eviction'[i] = u[i - 1]
      BY <1>8, <2>4
    <3>2. i - 1 < j - 1
      OBVIOUS
    <3>3. u[i - 1] \in usedSince[u[j - 1]]
      BY <1>2, <1>12, <2>1, <3>1, <3>2
    <3>4. QED
      BY <2>2, <3>1, <3>3
  <2>5. QED
    BY <2>3, <2>4
<1>13. QED
  BY <1>6, <1>10, <1>11, <1>12 DEF u

\* The key evictLRU drops is in the list, and its going makes room.
LEMMA VictimsMakeRoom ==
  ASSUME ListOK
  PROVE  /\ Victims \subseteq Listed
         /\ Len(Unlinked(Victims)) + 1 <= MaxEntries
<1>1. /\ eviction \in Seq(Keys) /\ Len(eviction) <= MaxEntries
  BY DEF ListOK, Coherent
<1>2. /\ Len(eviction) \in Nat /\ DOMAIN eviction = Places
  BY <1>1, LenProperties DEF Places
<1>3. /\ Unlinked(Victims) \in Seq(Keys)
      /\ Len(Unlinked(Victims)) <= Len(eviction)
      /\ (\E i \in Places : eviction[i] \in Victims) => Len(Unlinked(Victims)) < Len(eviction)
  BY <1>1, UnlinkedKeepsOrder
<1>4. Len(Unlinked(Victims)) \in Nat
  BY <1>3, LenProperties
<1>5. CASE Len(eviction) >= MaxEntries
  <2>1. Victims = {eviction[Len(eviction)]} /\ Len(eviction) \in Places
    BY <1>2, <1>5, CacheAssumption DEF Victims, Places
  <2>2. Len(Unlinked(Victims)) < Len(eviction)
    BY <1>3, <2>1
  <2>3. Victims \subseteq Listed
    BY <1>2, <2>1 DEF Listed
  <2>4. QED
    BY <1>1, <1>2, <1>4, <2>2, <2>3, CacheAssumption
<1>6. CASE ~(Len(eviction) >= MaxEntries)
  <2>1. Victims = {}
    BY <1>6 DEF Victims
  <2>2. QED
    BY <1>2, <1>3, <1>4, <1>6, <2>1, CacheAssumption
<1>7. QED
  BY <1>5, <1>6

\* The five places that update the map and the list leave them one structure:
\* Get's lazy expiry and the two invalidations take keys out of both,
LEMMA RemovalKeepsList ==
  ASSUME NEW ks, ListOK, entries' = Deleted(ks), eviction' = Unlinked(ks)
  PROVE  /\ ListOK'
         /\ Cached' = Cached \ ks
         /\ InOrderOfUse /\ usedSince' = usedSince => InOrderOfUse'
<1>1. Cached \subseteq Keys /\ Cached = Listed
  BY DEF ListOK, Coherent, MapMatchesList
<1>2. /\ eviction' \in Seq(Keys)
      /\ Listed' = Listed \ ks
      /\ (\A i, j \in DOMAIN eviction : eviction[i] = eviction[j] => i = j)'
      /\ Len(eviction') <= MaxEntries
      /\ InOrderOfUse /\ usedSince' = usedSince => InOrderOfUse'
  BY TakenOut
<1>3. Cached' = Cached \ ks
  BY DEF Cached, Deleted
<1>4. ListOK'
  BY <1>1, <1>2, <1>3 DEF ListOK, Coherent, MapMatchesList
<1>5. QED
  BY <1>2, <1>3, <1>4

\* a hit and an overwrite move a key to the front,
LEMMA PromotionKeepsList ==
  ASSUME ListOK, NEW k \in Cached, Cached' = Cached, eviction' = <<k>> \o Unlinked({k})
  PROVE  /\ ListOK'
         /\ InOrderOfUse /\ Use(k) => InOrderOfUse'
<1>1. /\ Cached \subseteq Keys /\ Cached = Listed /\ k \in Keys
      /\ eviction \in Seq(Keys) /\ Len(eviction) <= MaxEntries
  BY DEF ListOK, Coherent, MapMatchesList
<1>2. /\ eviction' \in Seq(Keys)
      /\ Listed' = (Listed \ {k}) \cup {k}
      /\ (\A i, j \in DOMAIN eviction : eviction[i] = eviction[j] => i = j)'
      /\ Len(eviction') = Len(Unlinked({k})) + 1
      /\ InOrderOfUse /\ Use(k) => InOrderOfUse'
  BY <1>1, PutInFront
<1>3. Len(eviction') <= MaxEntries
  <2>1. \E i \in Places : eviction[i] \in {k}
    BY <1>1, LenProperties DEF Listed, Places
  <2>2. Len(Unlinked({k})) < Len(eviction) /\ Unlinked({k}) \in Seq(Keys)
    BY <1>1, <2>1, UnlinkedKeepsOrder
  <2>3. Len(Unlinked({k})) \in Nat /\ Len(eviction) \in Nat
    BY <1>1, <2>2, LenProperties
  <2> DEFINE a == Len(Unlinked({k}))
             b == Len(eviction)
  <2> HIDE DEF a, b
  <2>4. Len(eviction') <= Len(eviction) /\ Len(eviction') \in Nat
    <3>1. a \in Nat /\ b \in Nat /\ a < b
      BY <2>2, <2>3 DEF a, b
    <3>2. a + 1 <= b /\ a + 1 \in Nat
      BY <3>1
    <3>3. QED
      BY <1>2, <3>2 DEF a, b
  <2>5. QED
    BY <1>1, <2>3, <2>4, CacheAssumption
<1>4. Cached' = Listed'
  BY <1>1, <1>2
<1>5. ListOK'
  BY <1>1, <1>2, <1>3, <1>4 DEF ListOK, Coherent, MapMatchesList
<1>6. QED
  BY <1>2, <1>5

\* and an insertion drops the victim and puts the new key in front.
LEMMA InsertionKeepsList ==
  ASSUME ListOK, NEW k \in Keys, k \notin Cached, Cached' = (Cached \ Victims) \cup {k},
         eviction' = <<k>> \o Unlinked(Victims)
  PROVE  /\ ListOK'
         /\ InOrderOfUse /\ Use(k) => InOrderOfUse'
<1>1. Cached \subseteq Keys /\ Cached = Listed
  BY DEF ListOK, Coherent, MapMatchesList
<1>2. /\ eviction' \in Seq(Keys)
      /\ Listed' = (Listed \ Victims) \cup {k}
      /\ (\A i, j \in DOMAIN eviction : eviction[i] = eviction[j] => i = j)'
      /\ Len(eviction') = Len(Unlinked(Victims)) + 1
      /\ InOrderOfUse /\ Use(k) => InOrderOfUse'
  BY <1>1, PutInFront
<1>3. Len(eviction') <= MaxEntries
  BY <1>2, VictimsMakeRoom
<1>4. ListOK'
  BY <1>1, <1>2, <1>3 DEF ListOK, Coherent, MapMatchesList
<1>5. QED
  BY <1>2, <1>4

\* Hence a lookup, a Set and the passing of time do so too.
LEMMA LookupKeepsList ==
  ASSUME ListOK, NEW k, GetHit(k) \/ GetMiss(k)
  PROVE  ListOK'
<1>1. CASE GetHit(k)
  BY <1>1, PromotionKeepsList DEF GetHit, Live, Cached
<1>2. CASE GetExpired(k)
  BY <1>2, RemovalKeepsList DEF GetExpired
<1>3. CASE GetAbsent(k)
  BY <1>3 DEF GetAbsent, cacheVars, ListOK, Coherent, MapMatchesList, Cached, Listed
<1>4. QED
  BY <1>1, <1>2, <1>3 DEF GetMiss

LEMMA SetKeepsList ==
  ASSUME ListOK, NEW k \in Keys, NEW v, NEW ttl, Set(k, v, ttl)
  PROVE  ListOK'
<1>1. CASE Overwrite(k, v, ttl)
  <2>1. k \in Cached /\ Cached' = Cached /\ eviction' = <<k>> \o Unlinked({k})
    BY <1>1 DEF Overwrite, Cached
  <2>2. QED
    BY <2>1, PromotionKeepsList
<1>2. CASE Insert(k, v, ttl)
  <2>1. /\ k \notin Cached /\ Cached' = (Cached \ Victims) \cup {k}
        /\ eviction' = <<k>> \o Unlinked(Victims)
    BY <1>2 DEF Insert, Cached
  <2>2. QED
    BY <2>1, InsertionKeepsList
<1>3. QED
  BY <1>1, <1>2 DEF Set

LEMMA TickKeepsList ==
  ASSUME ListOK, CacheTick
  PROVE  ListOK' /\ Cached' = Cached
<1>1. Cached' = Cached /\ eviction' = eviction
  BY DEF CacheTick, Cached
<1>2. QED
  BY <1>1 DEF ListOK, Coherent, MapMatchesList, Listed, Cached

-----------------------------------------------------------------------------
(* The cache alone: the invariant.                                         *)

\* The entries and the history.
PolicyTypes ==
    /\ entries \in [Cached -> [value : Values, left : Int]]
    /\ lastSet \in [Keys -> Values \cup {NoValue}]
    /\ usedSince \in [Keys -> SUBSET Keys]

PolicyInv == ListOK /\ PolicyTypes /\ HitsAreLastSet /\ InOrderOfUse

LEMMA InitPolicyInv == PolicyInit => PolicyInv
<1> SUFFICES ASSUME PolicyInit
             PROVE  PolicyInv
  OBVIOUS
<1>1. entries = <<>> /\ eviction = <<>> /\ ListOK
  BY InitListOK DEF PolicyInit, CacheInit
<1>2. Cached = {} /\ Len(eviction) = 0 /\ entries \in [Cached -> [value : Values, left : Int]]
  BY <1>1 DEF Cached
<1>3. PolicyTypes
  BY <1>2 DEF PolicyTypes, PolicyInit
<1>4. HitsAreLastSet /\ InOrderOfUse
  BY <1>2 DEF HitsAreLastSet, InOrderOfUse, Places
<1>5. QED
  BY <1>1, <1>3, <1>4 DEF PolicyInv

\* What a use records has the type of the history.
LEMMA UseType ==
  ASSUME PolicyInv, NEW k \in Keys, Use(k)
  PROVE  usedSince' \in [Keys -> SUBSET Keys]
<1>1. usedSince \in [Keys -> SUBSET Keys]
  BY DEF PolicyInv, PolicyTypes
<1>2. \A j \in Keys : (IF j = k THEN {} ELSE usedSince[j] \cup {k}) \in SUBSET Keys
  BY <1>1
<1>3. QED
  BY <1>2 DEF Use

\* The map and the list after a step: the keys that stay are live or stale as
\* they were, with the value last set.
LEMMA HitKeeps ==
  ASSUME PolicyInv, NEW k \in Keys, GetHit(k), Use(k), UNCHANGED lastSet
  PROVE  PolicyInv'
<1>1. /\ k \in Cached /\ eviction' = <<k>> \o Unlinked({k})
      /\ entries' = entries /\ lastSet' = lastSet /\ Cached' = Cached
  BY DEF GetHit, Live, Cached
<1>2. ListOK' /\ InOrderOfUse'
  BY <1>1, PromotionKeepsList DEF PolicyInv
<1>3. usedSince' \in [Keys -> SUBSET Keys]
  BY UseType
<1>4. PolicyTypes'
  BY <1>1, <1>3 DEF PolicyInv, PolicyTypes
<1>5. HitsAreLastSet'
  BY <1>1 DEF PolicyInv, HitsAreLastSet
<1>6. QED
  BY <1>2, <1>4, <1>5 DEF PolicyInv

LEMMA OverwriteKeeps ==
  ASSUME PolicyInv, NEW k \in Keys, NEW v \in Values, NEW ttl \in Ttls, Overwrite(k, v, ttl),
         Use(k), lastSet' = [lastSet EXCEPT ![k] = v]
  PROVE  PolicyInv' /\ Cached' = Cached
<1>1. /\ k \in Cached /\ eviction' = <<k>> \o Unlinked({k})
      /\ entries' = [entries EXCEPT ![k] = [value |-> v, left |-> ttl]]
      /\ Cached' = Cached
  BY DEF Overwrite, Cached
<1>2. /\ Cached \subseteq Keys /\ entries \in [Cached -> [value : Values, left : Int]]
      /\ lastSet \in [Keys -> Values \cup {NoValue}]
      /\ HitsAreLastSet
  BY DEF PolicyInv, ListOK, PolicyTypes
<1>3. ListOK' /\ InOrderOfUse'
  BY <1>1, PromotionKeepsList DEF PolicyInv
<1>4. usedSince' \in [Keys -> SUBSET Keys]
  BY UseType
<1>5. entries' \in [Cached -> [value : Values, left : Int]]
  <2>1. [value |-> v, left |-> ttl] \in [value : Values, left : Int]
    BY PolicyAssumption
  <2>2. QED
    BY <1>1, <1>2, <2>1
<1>6. lastSet' \in [Keys -> Values \cup {NoValue}]
  BY <1>2
<1>7. PolicyTypes'
  BY <1>1, <1>4, <1>5, <1>6 DEF PolicyTypes
<1>8. HitsAreLastSet'
  <2> SUFFICES ASSUME NEW j \in Cached
               PROVE  entries'[j].value = lastSet'[j]
    BY <1>1 DEF HitsAreLastSet
  <2>1. j \in Keys /\ entries[j].value = lastSet[j]
    BY <1>2 DEF HitsAreLastSet
  <2>2. CASE j = k
    BY <1>1, <1>2, <2>2
  <2>3. CASE j # k
    BY <1>1, <1>2, <2>1, <2>3
  <2>4. QED
    BY <2>2, <2>3
<1>9. QED
  BY <1>1, <1>3, <1>7, <1>8 DEF PolicyInv

LEMMA InsertKeeps ==
  ASSUME PolicyInv, NEW k \in Keys, NEW v \in Values, NEW ttl \in Ttls, Insert(k, v, ttl),
         Use(k), lastSet' = [lastSet EXCEPT ![k] = v]
  PROVE  PolicyInv' /\ Cached' = (Cached \ Victims) \cup {k}
<1>1. /\ k \notin Cached /\ eviction' = <<k>> \o Unlinked(Victims)
      /\ entries' = [j \in (Cached \ Victims) \cup {k} |->
                        IF j = k THEN [value |-> v, left |-> ttl] ELSE entries[j]]
  BY DEF Insert
<1>2. /\ Cached \subseteq Keys /\ entries \in [Cached -> [value : Values, left : Int]]
      /\ lastSet \in [Keys -> Values \cup {NoValue}]
      /\ HitsAreLastSet
  BY DEF PolicyInv, ListOK, PolicyTypes
<1>3. Cached' = (Cached \ Victims) \cup {k}
  BY <1>1 DEF Cached
<1>4. ListOK' /\ InOrderOfUse'
  BY <1>1, <1>3, InsertionKeepsList DEF PolicyInv
<1>5. usedSince' \in [Keys -> SUBSET Keys]
  BY UseType
<1>6. entries' \in [Cached' -> [value : Values, left : Int]]
  <2>1. [value |-> v, left |-> ttl] \in [value : Values, left : Int]
    BY PolicyAssumption
  <2>2. \A j \in (Cached \ Victims) \cup {k} :
           (IF j = k THEN [value |-> v, left |-> ttl] ELSE entries[j])
              \in [value : Values, left : Int]
    BY <1>2, <2>1
  <2>3. QED
    BY <1>1, <1>3, <2>2
<1>7. lastSet' \in [Keys -> Values \cup {NoValue}]
  BY <1>2
<1>8. PolicyTypes'
  BY <1>5, <1>6, <1>7 DEF PolicyTypes
<1>9. HitsAreLastSet'
  <2> SUFFICES ASSUME NEW j \in (Cached \ Victims) \cup {k}
               PROVE  entries'[j].value = lastSet'[j]
    BY <1>3 DEF HitsAreLastSet
  <2>1. CASE j = k
    BY <1>1, <1>2, <2>1
  <2>2. CASE j # k
    <3>1. j \in Keys /\ entries[j].value = lastSet[j]
      BY <1>2, <2>2 DEF HitsAreLastSet
    <3>2. entries'[j] = entries[j] /\ lastSet'[j] = lastSet[j]
      BY <1>1, <1>2, <2>2, <3>1
    <3>3. QED
      BY <3>1, <3>2
  <2>3. QED
    BY <2>1, <2>2
<1>10. QED
  BY <1>3, <1>4, <1>8, <1>9 DEF PolicyInv

\* The expiry found by a Get and the invalidations: keys leave both structures.
LEMMA InvalidateKeeps ==
  ASSUME PolicyInv, NEW ks \in SUBSET Keys, entries' = Deleted(ks), eviction' = Unlinked(ks),
         usedSince' = usedSince,
         \A k \in Keys \ ks : lastSet'[k] = lastSet[k],
         lastSet' \in [Keys -> Values \cup {NoValue}]
  PROVE  PolicyInv' /\ Cached' = Cached \ ks
<1>1. /\ Cached \subseteq Keys /\ entries \in [Cached -> [value : Values, left : Int]]
      /\ usedSince \in [Keys -> SUBSET Keys]
      /\ HitsAreLastSet
  BY DEF PolicyInv, ListOK, PolicyTypes
<1>2. ListOK' /\ Cached' = Cached \ ks /\ InOrderOfUse'
  BY RemovalKeepsList DEF PolicyInv
<1>3. /\ \A k \in Cached \ ks : entries'[k] = entries[k]
      /\ entries' \in [Cached \ ks -> [value : Values, left : Int]]
  BY <1>1 DEF Cached, Deleted
<1>4. PolicyTypes'
  BY <1>1, <1>2, <1>3 DEF PolicyTypes
<1>5. HitsAreLastSet'
  BY <1>1, <1>2, <1>3 DEF HitsAreLastSet
<1>6. QED
  BY <1>2, <1>4, <1>5 DEF PolicyInv

LEMMA PolicyTickKeeps ==
  ASSUME PolicyInv, PolicyTick
  PROVE  PolicyInv' /\ Cached' = Cached
<1>1. /\ entries' = [k \in Cached |->
                       [value |-> entries[k].value,
                        left  |-> IF Live(k) THEN entries[k].left - 1 ELSE entries[k].left]]
      /\ eviction' = eviction /\ lastSet' = lastSet /\ usedSince' = usedSince
      /\ CacheTick
  BY DEF PolicyTick, CacheTick
<1>2. entries \in [Cached -> [value : Values, left : Int]]
  BY DEF PolicyInv, PolicyTypes
<1>3. ListOK' /\ Cached' = Cached
  BY <1>1, TickKeepsList DEF PolicyInv
<1>4. entries' \in [Cached' -> [value : Values, left : Int]]
  BY <1>1, <1>2, <1>3
<1>5. PolicyTypes'
  BY <1>1, <1>3, <1>4 DEF PolicyInv, PolicyTypes
<1>6. HitsAreLastSet'
  BY <1>1, <1>3 DEF PolicyInv, HitsAreLastSet
<1>7. InOrderOfUse'
  BY <1>1 DEF PolicyInv, InOrderOfUse, Places
<1>8. QED
  BY <1>3, <1>5, <1>6, <1>7 DEF PolicyInv

-----------------------------------------------------------------------------
(* The steps and the theorems.                                             *)

\* Every step keeps the invariant.  A key leaves the map by an invalidation,
\* by the eviction of an insertion, or by the expiry a Get finds, and then it
\* was not live.
LEMMA PolicyNextKeepsInv ==
  ASSUME PolicyInv, PolicyNext
  PROVE  /\ PolicyInv'
         /\ \A j \in Cached \ Cached' :
               \/ lastSet'[j] = NoValue
               \/ ~Live(j)
               \/ /\ j \in Victims
                  /\ Len(eviction) >= MaxEntries
<1> lastSet \in [Keys -> Values \cup {NoValue}] /\ Cached \subseteq Keys
  BY DEF PolicyInv, ListOK, PolicyTypes
<1>1. ASSUME NEW k \in Keys, Get(k)
      PROVE  PolicyInv' /\ \A j \in Cached \ Cached' : ~Live(j)
  <2>1. CASE GetHit(k) /\ Use(k)
    <3>1. PolicyInv'
      BY <1>1, <2>1, HitKeeps DEF Get
    <3>2. Cached' = Cached
      BY <2>1 DEF GetHit, Cached
    <3>3. QED
      BY <3>1, <3>2
  <2>2. CASE GetExpired(k) /\ UNCHANGED usedSince
    <3>1. /\ entries' = Deleted({k}) /\ eviction' = Unlinked({k})
          /\ usedSince' = usedSince /\ lastSet' = lastSet /\ {k} \in SUBSET Keys
          /\ ~Live(k)
      BY <1>1, <2>2 DEF GetExpired, Get
    <3>2. PolicyInv' /\ Cached' = Cached \ {k}
      BY <3>1, InvalidateKeeps
    <3>3. QED
      BY <3>1, <3>2
  <2>3. CASE GetAbsent(k) /\ UNCHANGED usedSince
    <3>1. UNCHANGED policyVars
      BY <1>1, <2>3 DEF GetAbsent, Get, cacheVars, policyVars
    <3>2. PolicyInv' /\ Cached' = Cached
      BY <3>1 DEF PolicyInv, ListOK, PolicyTypes, Coherent, MapMatchesList, HitsAreLastSet, InOrderOfUse,
                  Places, Cached, Listed, policyVars
    <3>3. QED
      BY <3>2
  <2>4. QED
    BY <1>1, <2>1, <2>2, <2>3 DEF Get, GetMiss
<1>2. ASSUME NEW k \in Keys, NEW v \in Values, NEW ttl \in Ttls, Put(k, v, ttl)
      PROVE  /\ PolicyInv'
             /\ \A j \in Cached \ Cached' : j \in Victims /\ Len(eviction) >= MaxEntries
  <2>1. Use(k) /\ lastSet' = [lastSet EXCEPT ![k] = v]
    BY <1>2 DEF Put
  <2>2. CASE Overwrite(k, v, ttl)
    <3>1. PolicyInv' /\ Cached' = Cached
      BY <2>1, <2>2, OverwriteKeeps
    <3>2. QED
      BY <3>1
  <2>3. CASE Insert(k, v, ttl)
    <3>1. PolicyInv' /\ Cached' = (Cached \ Victims) \cup {k}
      BY <2>1, <2>3, InsertKeeps
    <3>2. \A j \in Victims : Len(eviction) >= MaxEntries
      BY DEF Victims
    <3>3. QED
      BY <3>1, <3>2
  <2>4. QED
    BY <1>2, <2>2, <2>3 DEF Put, Set
<1>3. ASSUME NEW ks \in SUBSET Keys, Drop(ks)
      PROVE  PolicyInv' /\ \A j \in Cached \ Cached' : lastSet'[j] = NoValue
  <2>1. /\ entries' = Deleted(ks) /\ eviction' = Unlinked(ks) /\ usedSince' = usedSince
        /\ lastSet' = [k \in Keys |-> IF k \in ks THEN NoValue ELSE lastSet[k]]
    BY <1>3 DEF Drop, Invalidate
  <2>2. /\ \A k \in Keys \ ks : lastSet'[k] = lastSet[k]
        /\ \A k \in ks : lastSet'[k] = NoValue
        /\ lastSet' \in [Keys -> Values \cup {NoValue}]
    BY <2>1
  <2>3. PolicyInv' /\ Cached' = Cached \ ks
    BY <2>1, <2>2, InvalidateKeeps
  <2>4. QED
    BY <2>2, <2>3
<1>4. ASSUME PolicyTick
      PROVE  PolicyInv' /\ \A j \in Cached \ Cached' : FALSE
  BY <1>4, PolicyTickKeeps
<1>5. QED
  BY <1>1, <1>2, <1>3, <1>4 DEF PolicyNext

\* Nothing changes the invariant when nothing changes.
LEMMA StutterKeepsPolicyInv == PolicyInv /\ UNCHANGED policyVars => PolicyInv'
BY DEF PolicyInv, ListOK, PolicyTypes, Coherent, MapMatchesList, HitsAreLastSet, InOrderOfUse,
       Places, Cached, Listed, policyVars

\* The invariant holds in every reachable state.
THEOREM PolicyInvariance == PolicySpec => []PolicyInv
<1>1. PolicyInv /\ [PolicyNext]_policyVars => PolicyInv'
  BY PolicyNextKeepsInv, StutterKeepsPolicyInv
<1>2. QED
  BY InitPolicyInv, <1>1, PTL DEF PolicySpec

\* The map and the list always hold the same keys, each once, and never more
\* than MaxEntries: none of the five places in cache.go that update them by
\* hand leaves a key in one and not in the other.
THEOREM AlwaysCoherent == PolicySpec => []Coherent
<1>1. PolicyInv => Coherent
  BY DEF PolicyInv, ListOK
<1>2. QED
  BY PolicyInvariance, <1>1, PTL

\* A value in the cache is always the one last set under its key and not
\* invalidated since.
THEOREM AlwaysHitsLastSet == PolicySpec => []HitsAreLastSet
<1>1. PolicyInv => HitsAreLastSet
  BY DEF PolicyInv, ListOK
<1>2. QED
  BY PolicyInvariance, <1>1, PTL

\* A live entry leaves the cache only when it is invalidated, or when another
\* key comes in while the cache is full and every other key was used after
\* it: what evictLRU drops is the least recently used, for any capacity.
THEOREM OnlyLeastRecentlyUsedIsEvicted == PolicySpec => EvictsLeastRecentlyUsed
<1> DEFINE Lost(k) == Live(k) /\ k \notin Cached' /\ lastSet'[k] # NoValue
           Spares ==
             \A k \in Keys :
                      Live(k) /\ k \notin Cached' /\ lastSet'[k] # NoValue =>
                         /\ Len(eviction) = MaxEntries
                         /\ \A j \in Cached \ {k} : j \in usedSince[k]
<1>1. ASSUME PolicyInv, PolicyNext, NEW k \in Keys, Lost(k)
      PROVE  /\ Len(eviction) = MaxEntries
             /\ \A j \in Cached \ {k} : j \in usedSince[k]
  <2>1. /\ Cached = Listed /\ eviction \in Seq(Keys) /\ Len(eviction) <= MaxEntries
        /\ InOrderOfUse
    BY <1>1 DEF PolicyInv, ListOK, PolicyTypes, Coherent, MapMatchesList
  <2>2. /\ Len(eviction) \in Nat /\ DOMAIN eviction = Places
        /\ \A i \in Places : i \in Int /\ i <= Len(eviction)
    BY <2>1, LenProperties DEF Places
  <2>3. k \in Victims /\ Len(eviction) >= MaxEntries
    BY <1>1, PolicyNextKeepsInv DEF Live
  <2>4. Len(eviction) = MaxEntries
    BY <2>1, <2>2, <2>3, CacheAssumption
  <2>5. k = eviction[Len(eviction)] /\ Len(eviction) \in Places
    BY <2>2, <2>3, <2>4, CacheAssumption DEF Victims, Places
  <2>6. ASSUME NEW j \in Cached \ {k}
        PROVE  j \in usedSince[k]
    <3>1. PICK i \in Places : eviction[i] = j
      BY <2>1, <2>2 DEF Listed
    <3>2. i < Len(eviction)
      BY <2>2, <2>5, <3>1
    <3>3. QED
      BY <2>1, <2>5, <3>1, <3>2 DEF InOrderOfUse
  <2>7. QED
    BY <2>4, <2>6
<1>2. PolicyInv /\ UNCHANGED policyVars => Spares
  BY DEF Live, Cached, policyVars
<1>3. PolicyInv /\ [PolicyNext]_policyVars => [Spares]_policyVars
  BY <1>1, <1>2
<1>4. QED
  BY PolicyInvariance, <1>3, PTL DEF PolicySpec, EvictsLeastRecentlyUsed

-----------------------------------------------------------------------------

\* A step that puts nothing into the cache and acknowledges no clearing.
OnlyRemoves ==
    /\ Cached' \subseteq Cached
    /\ \A k \in Cached' : entries'[k].value = entries[k].value
    /\ cleared' = cleared

\* A step that only removes entries makes nothing stale.
LEMMA RemovalKeepsFreshness ==
  ASSUME OnlyRemoves, NEW k \in Keys, Stale(k)'
  PROVE  Stale(k)
BY DEF OnlyRemoves, Stale, Outdated, Cached

\* A lookup that hits or misses only removes entries.
LEMMA LookupOnlyRemoves ==
  ASSUME NEW k, GetHit(k) \/ GetMiss(k)
  PROVE  Cached' \subseteq Cached /\ \A j \in Cached' : entries'[j].value = entries[j].value
BY DEF GetHit, GetMiss, GetExpired, GetAbsent, Deleted, Cached, cacheVars

LEMMA TickOnlyRemoves ==
  ASSUME CacheTick
  PROVE  Cached' \subseteq Cached /\ \A j \in Cached' : entries'[j].value = entries[j].value
BY DEF CacheTick, Cached

\* Set of one key changes the value of no other.
LEMMA SetChangesOneKey ==
  ASSUME NEW k, NEW v, NEW ttl, Set(k, v, ttl), NEW j \in Cached', j # k
  PROVE  j \in Cached /\ entries'[j] = entries[j]
BY DEF Set, Overwrite, Insert, Cached

-----------------------------------------------------------------------------
\* The ghost cleared stays a function on the services.
ClearedType == DOMAIN cleared = Services

\* Every step either only removes entries, or is the end of a read or write.
LEMMA StepKinds ==
  ASSUME [Next]_vars
  PROVE  OnlyRemoves \/ \E c \in Callers : FinishRead(c) \/ FinishWrite(c)
<1>1. CASE Tick
  BY <1>1, TickOnlyRemoves DEF Tick, OnlyRemoves
<1>2. ASSUME NEW c \in Callers, NEW m \in Calls, Begin(c, m)
      PROVE  OnlyRemoves
  BY <1>2 DEF Begin, OnlyRemoves, Cached
<1>3. ASSUME NEW c \in Callers, Hit(c)
      PROVE  OnlyRemoves
  BY <1>3, LookupOnlyRemoves DEF Hit, OnlyRemoves
<1>4. ASSUME NEW c \in Callers, Miss(c)
      PROVE  OnlyRemoves
  <2>1. cleared' = cleared
    BY <1>4 DEF Miss
  <2>2. CASE UNCHANGED cacheVars
    BY <2>1, <2>2 DEF cacheVars, OnlyRemoves, Cached
  <2>3. CASE \E k \in Method(c).looks : GetMiss(k)
    BY <2>1, <2>3, LookupOnlyRemoves DEF OnlyRemoves
  <2>4. QED
    BY <1>4, <2>2, <2>3 DEF Miss
<1>5. ASSUME NEW c \in Callers, CallInner(c) \/ RemoteRead(c) \/ RemoteWrite(c) \/ Fail(c)
      PROVE  OnlyRemoves
  BY <1>5 DEF CallInner, RemoteRead, RemoteWrite, Fail, OnlyRemoves, Cached
<1>6. CASE UNCHANGED vars
  BY <1>6 DEF vars, OnlyRemoves, Cached
<1>7. QED
  BY <1>1, <1>2, <1>3, <1>4, <1>5, <1>6 DEF Next, Step

LEMMA ClearedTypeInvariant == Spec => []ClearedType
<1>1. Init => ClearedType
  BY DEF Init, ClearedType
<1>2. ClearedType /\ [Next]_vars => ClearedType'
  <2> SUFFICES ASSUME ClearedType, [Next]_vars
               PROVE  ClearedType'
    OBVIOUS
  <2>1. CASE OnlyRemoves
    BY <2>1 DEF OnlyRemoves, ClearedType
  <2>2. ASSUME NEW c \in Callers, FinishRead(c)
        PROVE  ClearedType'
    BY <2>2 DEF FinishRead, ClearedType
  <2>3. ASSUME NEW c \in Callers, FinishWrite(c)
        PROVE  ClearedType'
    BY <2>3 DEF FinishWrite, ClearedType
  <2>4. QED
    BY <2>1, <2>2, <2>3, StepKinds
<1>3. QED
  BY <1>1, <1>2, PTL DEF Spec

\* The acknowledgement of a write makes nothing stale: it removes every key
\* of the service whose version it raises.
LEMMA WritesClearWhatTheyOutdate ==
  ASSUME ClearedType, NEW c \in Callers, FinishWrite(c), NEW k \in Keys, Stale(k)'
  PROVE  Stale(k)
<1> DEFINE s == Method(c).service
<1>1. CASE ~Method(c).clears
  BY <1>1 DEF FinishWrite, Stale, Outdated, Cached
<1>2. CASE Method(c).clears
  <2>1. Invalidate(Prefixed(s)) /\ cleared' = [cleared EXCEPT ![s] = Max(@, Top(c).held.ver)]
    BY <1>2 DEF FinishWrite
  <2>2. /\ Cached' = Cached \ Prefixed(s)
        /\ \A j \in Cached' : entries'[j] = entries[j]
    BY <2>1 DEF Invalidate, Deleted, Cached
  <2>3. PICK t \in Services :
           k \in Prefixed(t) /\ k \in Cached' /\ entries'[k].value.ver < cleared'[t]
    BY DEF Stale, Outdated
  <2>4. t # s
    BY <2>2, <2>3
  <2>5. cleared'[t] = cleared[t]
    BY <2>1, <2>4 DEF ClearedType
  <2>6. QED
    BY <2>2, <2>3, <2>5 DEF Stale, Outdated
<1>3. QED
  BY <1>1, <1>2

\* The end of a read makes stale at most the key it fills, and only when the
\* data it holds is already outdated.
LEMMA ReadsOnlyFillLate ==
  ASSUME NEW c \in Callers, FinishRead(c), NEW k \in Keys, Stale(k)', ~Stale(k)
  PROVE  At(c, "finish") /\ k \in Method(c).fills /\ Outdated(k, Top(c).held)
<1>1. cleared' = cleared /\ At(c, "finish")
  BY DEF FinishRead
<1>2. k \in Cached' /\ Outdated(k, entries'[k].value)
  BY <1>1 DEF Stale, Outdated
<1>3. Method(c).fills # {}
  <2> SUFFICES ASSUME Method(c).fills = {} PROVE FALSE
    OBVIOUS
  <2>1. entries' = entries
    BY DEF FinishRead, cacheVars
  <2>2. QED
    BY <1>2, <2>1 DEF Stale, Cached
<1>4. PICK j \in Method(c).fills : Set(j, Top(c).held, Method(c).ttl \div Unit)
  BY <1>3 DEF FinishRead
<1>5. k = j
  <2> SUFFICES ASSUME k # j PROVE FALSE
    OBVIOUS
  <2>1. k \in Cached /\ entries'[k] = entries[k]
    BY <1>2, <1>4, SetChangesOneKey
  <2>2. QED
    BY <1>2, <2>1 DEF Stale
<1>6. entries'[k].value = Top(c).held
  BY <1>4, <1>5 DEF Set, Overwrite, Insert, Cached
<1>7. QED
  BY <1>1, <1>2, <1>4, <1>5, <1>6

-----------------------------------------------------------------------------
\* Stale data enters the cache only by a read that finishes after the write
\* that outdated it cleared the service's keys: no lookup, no other read, no
\* acknowledgement and no passing of time makes a cached result stale.
THEOREM StaleEntersLate == Spec => StaleOnlyByLateFill
<1>1. ClearedType /\ [Next]_vars =>
        [\A k \in Keys : Stale(k)' /\ ~Stale(k) =>
            \E c \in Callers :
               At(c, "finish") /\ k \in Method(c).fills /\ Outdated(k, Top(c).held)]_vars
  <2> SUFFICES ASSUME ClearedType, [Next]_vars, NEW k \in Keys, Stale(k)', ~Stale(k)
               PROVE  \E c \in Callers :
                         At(c, "finish") /\ k \in Method(c).fills /\ Outdated(k, Top(c).held)
    OBVIOUS
  <2>1. ~OnlyRemoves
    BY RemovalKeepsFreshness
  <2>2. PICK c \in Callers : FinishRead(c) \/ FinishWrite(c)
    BY <2>1, StepKinds
  <2>3. FinishRead(c)
    BY <2>2, WritesClearWhatTheyOutdate
  <2>4. QED
    BY <2>3, ReadsOnlyFillLate
<1>2. QED
  BY <1>1, ClearedTypeInvariant, PTL DEF Spec, StaleOnlyByLateFill

-----------------------------------------------------------------------------
(* The times to live along a chain of methods.                             *)

InnerTtl(m) == LongestInner(m, ChainTtl)

\* A nonempty set of naturals has a least element.
LEMMA LeastOfNaturals ==
  ASSUME NEW T \in SUBSET Nat, T # {}
  PROVE  \E x \in T : \A y \in T : x <= y
<1>1. \E x \in T : \A y \in T : <<y, x>> \notin OpToRel(<, Nat)
  BY NatLessThanWellFounded, WFMin
<1>2. \A x, y \in Nat : <<y, x>> \notin OpToRel(<, Nat) => x <= y
  BY DEF OpToRel
<1>3. QED
  BY <1>1, <1>2

\* The elements of a finite sequence of naturals have a bound.
LEMMA SequenceHasBound ==
  ASSUME NEW n \in Nat, NEW f \in [1 .. n -> Nat]
  PROVE  \E b \in Nat : \A i \in 1 .. n : f[i] <= b
<1> DEFINE Bounded(h) == \E b \in Nat : \A i \in 1 .. h : i <= n => f[i] <= b
           bad == {h \in Nat : ~Bounded(h)}
<1>1. SUFFICES bad = {}
  <2>1. Bounded(n)
    BY <1>1
  <2>2. QED
    BY <2>1
<1>2. SUFFICES ASSUME bad # {}
               PROVE  FALSE
  OBVIOUS
<1>3. PICK h \in bad : \A y \in bad : h <= y
  <2> HIDE DEF Bounded
  <2>1. bad \in SUBSET Nat
    OBVIOUS
  <2> HIDE DEF bad
  <2>2. QED
    BY <1>2, <2>1, LeastOfNaturals
<1>4. h \in Nat /\ ~Bounded(h)
  OBVIOUS
<1> HIDE DEF bad
<1>5. h # 0
  <2>1. Bounded(0)
    <3>1. \A i \in 1 .. 0 : i <= n => f[i] <= 0
      OBVIOUS
    <3>2. QED
      BY <3>1
  <2>2. QED
    BY <1>4, <2>1
<1>6. Bounded(h - 1)
  <2> HIDE DEF Bounded
  <2>1. h - 1 \in Nat /\ ~(h <= h - 1)
    BY <1>4, <1>5
  <2>2. h - 1 \notin bad
    BY <1>3, <2>1
  <2>3. QED
    BY <2>1, <2>2 DEF bad
<1>7. PICK b \in Nat : \A i \in 1 .. h - 1 : i <= n => f[i] <= b
  BY <1>6
<1>8. CASE h <= n
  <2>1. h \in 1 .. n /\ f[h] \in Nat
    BY <1>4, <1>5, <1>8
  <2>2. PICK d \in Nat : b <= d /\ f[h] <= d
    <3>1. CASE b <= f[h]
      BY <2>1, <3>1
    <3>2. CASE ~(b <= f[h])
      BY <2>1, <3>2
    <3>3. QED
      BY <3>1, <3>2
  <2>3. ASSUME NEW i \in 1 .. h, i <= n
        PROVE  f[i] <= d
    <3>1. i \in 1 .. n /\ f[i] \in Nat
      <4>1. h \in Nat
        BY <1>4
      <4>2. i \in 1 .. n
        BY <2>3, <4>1
      <4>3. QED
        BY <4>2
    <3>2. CASE i = h
      BY <2>2, <3>2
    <3>3. CASE i # h
      <4>1. i \in 1 .. h - 1
        BY <1>4, <3>3
      <4>2. f[i] <= b
        BY <1>7, <2>3, <4>1
      <4>3. QED
        BY <2>2, <3>1, <4>2
    <3>4. QED
      BY <3>2, <3>3
  <2>4. Bounded(h)
    BY <2>3
  <2>5. QED
    BY <1>4, <2>4
<1>9. CASE ~(h <= n)
  <2>1. \A i \in 1 .. h : i <= n => i \in 1 .. h - 1
    BY <1>4, <1>5, <1>9
  <2>2. Bounded(h)
    BY <1>7, <2>1
  <2>3. QED
    BY <1>4, <2>2
<1>10. QED
  BY <1>8, <1>9

\* LongestInner is the maximum it is meant to be.
LEMMA InnerTtlBounds ==
  ASSUME NEW m \in DOMAIN Methods
  PROVE  /\ InnerTtl(m) \in Nat
         /\ \A i \in 1 .. Len(Methods[m].inner) :
               ChainTtl[Methods[m].inner[i]] <= InnerTtl(m)
         /\ ChainTtl[m] \in Nat
         /\ ChainTtl[m] = Methods[m].ttl \div Unit + InnerTtl(m)
<1> DEFINE calls == Methods[m].inner
           n     == Len(calls)
           f     == [i \in 1 .. n |-> ChainTtl[calls[i]]]
           inner == {ChainTtl[calls[i]] : i \in DOMAIN calls}
<1>1. calls \in Seq(DOMAIN Methods)
  BY MethodsAssumption
<1>2. n \in Nat /\ DOMAIN calls = 1 .. n /\ \A i \in 1 .. n : calls[i] \in DOMAIN Methods
  BY <1>1, LenProperties, ElementOfSeq
<1>3. \A k \in DOMAIN Methods : ChainTtl[k] \in Nat
  BY ChainAssumption
<1> HIDE DEF calls, n
<1>4. f \in [1 .. n -> Nat] /\ \A i \in 1 .. n : f[i] = ChainTtl[calls[i]]
  BY <1>2, <1>3
<1>5. inner = {f[i] : i \in 1 .. n}
  BY <1>2, <1>4
<1> HIDE DEF f
<1>6. InnerTtl(m) = IF inner = {} THEN 0 ELSE CHOOSE t \in inner : \A u \in inner : u <= t
  BY DEF InnerTtl, LongestInner, calls
<1> HIDE DEF inner
<1>7. InnerTtl(m) \in Nat /\ \A u \in inner : u <= InnerTtl(m)
  <2>1. CASE inner = {}
    BY <1>6, <2>1
  <2>2. CASE inner # {}
    <3>1. \E t \in inner : \A u \in inner : u <= t
      <4> DEFINE bounds == {b \in Nat : \A i \in 1 .. n : f[i] <= b}
      <4>1. bounds \in SUBSET Nat /\ bounds # {}
        BY <1>2, <1>4, SequenceHasBound
      <4>2. PICK b \in bounds : \A y \in bounds : b <= y
        <5> HIDE DEF bounds
        <5>1. QED
          BY <4>1, LeastOfNaturals
      <4>3. b \in Nat /\ \A i \in 1 .. n : f[i] <= b
        OBVIOUS
      <4>4. ASSUME \A i \in 1 .. n : f[i] # b
            PROVE  FALSE
        <5>1. PICK i \in 1 .. n : TRUE
          BY <1>5, <2>2
        <5>2. \A j \in 1 .. n : f[j] \in Nat /\ f[j] <= b - 1
          BY <1>4, <4>3, <4>4
        <5>3. b - 1 \in Nat
          BY <4>3, <5>1, <5>2
        <5>4. b - 1 \in bounds
          BY <5>2, <5>3
        <5>5. b <= b - 1
          BY <4>2, <5>4
        <5>6. QED
          BY <4>3, <5>5
      <4>5. QED
        BY <1>5, <4>3, <4>4
    <3>2. InnerTtl(m) \in inner /\ \A u \in inner : u <= InnerTtl(m)
      BY <1>6, <2>2, <3>1
    <3>3. QED
      BY <1>4, <1>5, <3>2
  <2>3. QED
    BY <2>1, <2>2
<1>8. \A i \in 1 .. n : ChainTtl[calls[i]] <= InnerTtl(m)
  BY <1>4, <1>5, <1>7
<1>9. ChainTtl[m] \in Nat /\ ChainTtl[m] = Methods[m].ttl \div Unit + InnerTtl(m)
  BY ChainAssumption DEF InnerTtl
<1>10. QED
  BY <1>7, <1>8, <1>9 DEF calls, n

LEMMA InnerWithinChain ==
  ASSUME NEW m \in DOMAIN Methods
  PROVE  InnerTtl(m) <= ChainTtl[m]
<1>1. /\ InnerTtl(m) \in Nat /\ ChainTtl[m] \in Nat
      /\ ChainTtl[m] = Methods[m].ttl \div Unit + InnerTtl(m)
  BY InnerTtlBounds
<1>2. \A a \in Nat, b \in Nat \ {0} : a \div b \in Nat
  OBVIOUS
<1>3. Methods[m].ttl \div Unit \in Nat
  BY <1>2, MethodsAssumption, ReadThroughAssumption
<1> DEFINE t == Methods[m].ttl \div Unit
<1>4. t \in Nat /\ ChainTtl[m] = t + InnerTtl(m)
  BY <1>1, <1>3
<1> HIDE DEF t
<1>5. QED
  BY <1>1, <1>4

-----------------------------------------------------------------------------
(* The age of data.  A frame holds data no older than what the methods it  *)
(* calls may return, and so does the entry it sets; an entry adds at most  *)
(* its own TTL.  That a frame returns to one that expects its method is    *)
(* the invariant of the stacks.                                            *)

Frames == [method : DOMAIN Methods, at : {"enter", "body", "finish"},
           called : Nat, held : Data]

FrameOK(f) ==
    /\ f.called <= Len(Methods[f.method].inner)
    /\ f.held.age <= InnerTtl(f.method)

\* g is the frame of the method that f is calling.
Calling(f, g) ==
    /\ f.at = "body"
    /\ f.called < Len(Methods[f.method].inner)
    /\ g.method = Methods[f.method].inner[f.called + 1]

StackOK(s) ==
    /\ s \in Seq(Frames)
    /\ \A i \in 1 .. Len(s) : FrameOK(s[i])
    /\ \A i \in 1 .. Len(s) - 1 : Calling(s[i], s[i + 1])

\* e is what a method that fills k may have set, some time ago.
EntryOK(k, e) ==
    /\ e \in [value : Data, left : Int]
    /\ \E m \in DOMAIN Methods :
          /\ k \in Methods[m].fills
          /\ e.value.age <= InnerTtl(m)
          /\ e.left <= Methods[m].ttl \div Unit

EntriesOK == \A k \in Cached : EntryOK(k, entries[k])

StacksOK == DOMAIN stack = Callers /\ \A c \in Callers : StackOK(stack[c])

VersionType == version \in [Services -> 0 .. MaxWrites]

AgeInv == EntriesOK /\ StacksOK /\ VersionType

\* Data, and what is combined of it.
LEMMA DataFacts ==
  /\ Newest \in Data /\ Newest.age = 0
  /\ \A a, b \in Data : /\ Combine(a, b) \in Data
                        /\ \A n \in Nat : a.age <= n /\ b.age <= n => Combine(a, b).age <= n
<1>1. MaxWrites \in Nat
  BY ReadThroughAssumption
<1>2. Newest \in Data /\ Newest.age = 0
  BY <1>1 DEF Newest, Data
<1>3. ASSUME NEW a \in Data, NEW b \in Data
      PROVE  /\ Combine(a, b) \in Data
             /\ \A n \in Nat : a.age <= n /\ b.age <= n => Combine(a, b).age <= n
  <2>1. /\ a.ver \in 0 .. MaxWrites /\ b.ver \in 0 .. MaxWrites
        /\ a.age \in Nat /\ b.age \in Nat
    BY DEF Data
  <2>2. Min(a.ver, b.ver) \in 0 .. MaxWrites /\ Max(a.age, b.age) \in Nat
    BY <2>1 DEF Min, Max
  <2>3. \A n \in Nat : a.age <= n /\ b.age <= n => Max(a.age, b.age) <= n
    BY <2>1 DEF Max
  <2>4. QED
    BY <2>2, <2>3 DEF Combine, Data
<1>4. QED
  BY <1>2, <1>3

\* Another frame of the same method in the place of frame n, the last now.
LEMMA ReplacedStack ==
  ASSUME NEW s, StackOK(s), NEW n \in 1 .. Len(s),
         NEW g \in Frames, FrameOK(g), g.method = s[n].method
  PROVE  /\ StackOK(Append(SubSeq(s, 1, n - 1), g))
         /\ Len(Append(SubSeq(s, 1, n - 1), g)) = n
         /\ \A i \in 1 .. n - 1 : Append(SubSeq(s, 1, n - 1), g)[i] = s[i]
         /\ Append(SubSeq(s, 1, n - 1), g)[n] = g
<1> DEFINE t == SubSeq(s, 1, n - 1)
           u == Append(t, g)
<1>1. /\ s \in Seq(Frames)
      /\ \A i \in 1 .. Len(s) : FrameOK(s[i])
      /\ \A i \in 1 .. Len(s) - 1 : Calling(s[i], s[i + 1])
  BY DEF StackOK
<1>2. Len(s) \in Nat /\ n \in Nat /\ n >= 1 /\ \A i \in 1 .. Len(s) : s[i] \in Frames
  BY <1>1, LenProperties, ElementOfSeq
<1>3. /\ t \in Seq(Frames) /\ Len(t) = n - 1
      /\ \A i \in 1 .. n - 1 : t[i] = s[i]
  <2>1. \A i \in 1 .. n - 1 : s[i] \in Frames
    BY <1>2
  <2>2. /\ t \in Seq(Frames)
        /\ Len(t) = IF 1 <= n - 1 THEN n - 1 - 1 + 1 ELSE 0
        /\ \A i \in 1 .. n - 1 - 1 + 1 : t[i] = s[1 + i - 1]
    BY <1>2, <2>1, SubSeqProperties
  <2> HIDE DEF t
  <2>3. n - 1 - 1 + 1 = n - 1 /\ (IF 1 <= n - 1 THEN n - 1 - 1 + 1 ELSE 0) = n - 1
    BY <1>2
  <2>4. \A i \in 1 .. n - 1 : 1 + i - 1 = i
    BY <1>2
  <2>5. QED
    BY <2>2, <2>3, <2>4
<1> HIDE DEF t
<1>4. /\ u \in Seq(Frames) /\ Len(u) = n
      /\ \A i \in 1 .. n - 1 : u[i] = s[i]
      /\ u[n] = g
  <2>1. /\ u \in Seq(Frames) /\ Len(u) = Len(t) + 1
        /\ \A i \in 1 .. Len(t) : u[i] = t[i]
        /\ u[Len(t) + 1] = g
    BY <1>3, AppendProperties
  <2>2. Len(t) + 1 = n
    BY <1>2, <1>3
  <2> HIDE DEF u
  <2>3. QED
    BY <1>3, <2>1, <2>2
<1> HIDE DEF u
<1>5. \A i \in 1 .. n : FrameOK(u[i])
  <2> SUFFICES ASSUME NEW i \in 1 .. n
               PROVE  FrameOK(u[i])
    OBVIOUS
  <2>1. CASE i = n
    BY <1>4, <2>1
  <2>2. CASE i # n
    <3>1. i \in 1 .. n - 1 /\ i \in 1 .. Len(s)
      BY <1>2, <2>2
    <3>2. QED
      BY <1>1, <1>4, <3>1
  <2>3. QED
    BY <2>1, <2>2
<1>6. \A i \in 1 .. n - 1 : Calling(u[i], u[i + 1])
  <2> SUFFICES ASSUME NEW i \in 1 .. n - 1
               PROVE  Calling(u[i], u[i + 1])
    OBVIOUS
  <2>1. i \in 1 .. Len(s) - 1 /\ i + 1 \in 1 .. n
    BY <1>2
  <2>2. u[i] = s[i] /\ Calling(s[i], s[i + 1])
    BY <1>1, <1>4, <2>1
  <2>3. u[i + 1].method = s[i + 1].method
    <3>1. CASE i + 1 = n
      BY <1>4, <3>1
    <3>2. CASE i + 1 # n
      <4>1. i + 1 \in 1 .. n - 1
        BY <1>2, <3>2
      <4>2. QED
        BY <1>4, <4>1
    <3>3. QED
      BY <3>1, <3>2
  <2>4. QED
    BY <2>2, <2>3 DEF Calling
<1>7. QED
  BY <1>4, <1>5, <1>6 DEF StackOK, u, t

\* The frame of the method that the last one calls on top of it.
LEMMA PushedStack ==
  ASSUME NEW s, StackOK(s), NEW n, n = Len(s), n # 0, NEW g \in Frames, FrameOK(g),
         Calling(s[n], g)
  PROVE  /\ StackOK(Append(s, g))
         /\ Len(Append(s, g)) = n + 1
         /\ \A i \in 1 .. n : Append(s, g)[i] = s[i]
         /\ Append(s, g)[n + 1] = g
<1> DEFINE u == Append(s, g)
<1>1. /\ s \in Seq(Frames)
      /\ \A i \in 1 .. n : FrameOK(s[i])
      /\ \A i \in 1 .. n - 1 : Calling(s[i], s[i + 1])
  BY DEF StackOK
<1>2. n \in Nat /\ n >= 1
  BY <1>1, LenProperties
<1>3. /\ u \in Seq(Frames) /\ Len(u) = n + 1
      /\ \A i \in 1 .. n : u[i] = s[i]
      /\ u[n + 1] = g
  BY <1>1, AppendProperties
<1> HIDE DEF u
<1>4. \A i \in 1 .. n + 1 : FrameOK(u[i])
  <2> SUFFICES ASSUME NEW i \in 1 .. n + 1
               PROVE  FrameOK(u[i])
    OBVIOUS
  <2>1. CASE i = n + 1
    BY <1>3, <2>1
  <2>2. CASE i # n + 1
    <3>1. i \in 1 .. n
      BY <1>2, <2>2
    <3>2. QED
      BY <1>1, <1>3, <3>1
  <2>3. QED
    BY <2>1, <2>2
<1>5. \A i \in 1 .. n : Calling(u[i], u[i + 1])
  <2> SUFFICES ASSUME NEW i \in 1 .. n
               PROVE  Calling(u[i], u[i + 1])
    OBVIOUS
  <2>1. CASE i = n
    BY <1>3, <2>1
  <2>2. CASE i # n
    <3>1. i \in 1 .. n - 1 /\ i + 1 \in 1 .. n
      BY <1>2, <2>2
    <3>2. QED
      BY <1>1, <1>3, <3>1
  <2>3. QED
    BY <2>1, <2>2
<1>6. n + 1 - 1 = n
  BY <1>2
<1>7. QED
  BY <1>3, <1>4, <1>5, <1>6 DEF StackOK, u

LEMMA EmptyStack == StackOK(<<>>)
<1>1. <<>> \in Seq(Frames) /\ Len(<<>>) = 0
  BY EmptySeq
<1>2. \A i \in 1 .. 0 : FALSE
  OBVIOUS
<1>3. \A i \in 1 .. 0 - 1 : FALSE
  OBVIOUS
<1>4. QED
  BY <1>1, <1>2, <1>3 DEF StackOK

\* A method about to look its keys up.
LEMMA NewFrame ==
  ASSUME NEW m \in DOMAIN Methods
  PROVE  Frame(m) \in Frames /\ FrameOK(Frame(m)) /\ StackOK(<<Frame(m)>>)
<1>1. Frame(m) \in Frames
  BY DataFacts DEF Frame, Frames
<1>2. InnerTtl(m) \in Nat
  BY InnerTtlBounds
<1>3. Len(Methods[m].inner) \in Nat
  BY MethodsAssumption, LenProperties
<1>4. FrameOK(Frame(m))
  <2>1. 0 <= Len(Methods[m].inner) /\ 0 <= InnerTtl(m)
    BY <1>2, <1>3
  <2>2. QED
    BY <2>1, DataFacts DEF FrameOK, Frame
<1>5. <<Frame(m)>> \in Seq(Frames) /\ Len(<<Frame(m)>>) = 1 /\ <<Frame(m)>>[1] = Frame(m)
  BY <1>1
<1>6. \A i \in 1 .. 1 : i = 1
  OBVIOUS
<1>7. \A i \in 1 .. 1 - 1 : FALSE
  OBVIOUS
<1>8. QED
  BY <1>1, <1>4, <1>5, <1>6, <1>7 DEF StackOK

-----------------------------------------------------------------------------
(* What the steps do to entries and stacks.                                *)

\* The last frame, for a caller in a call.
LEMMA TopFacts ==
  ASSUME StacksOK, NEW c \in Callers, ~Idle(c)
  PROVE  /\ StackOK(stack[c])
         /\ Len(stack[c]) \in Nat /\ Len(stack[c]) >= 1
         /\ \A i \in 1 .. Len(stack[c]) : stack[c][i] \in Frames /\ FrameOK(stack[c][i])
         /\ Top(c) \in Frames /\ FrameOK(Top(c))
         /\ Top(c).method \in DOMAIN Methods
<1>1. StackOK(stack[c]) /\ stack[c] \in Seq(Frames) /\ stack[c] # <<>>
  BY DEF StacksOK, StackOK, Idle
<1>2. Len(stack[c]) \in Nat /\ Len(stack[c]) >= 1
  BY <1>1, EmptySeq, LenProperties
<1>3. \A i \in 1 .. Len(stack[c]) : stack[c][i] \in Frames /\ FrameOK(stack[c][i])
  BY <1>1, ElementOfSeq DEF StackOK
<1>4. Top(c) \in Frames /\ FrameOK(Top(c))
  BY <1>2, <1>3 DEF Top
<1>5. QED
  BY <1>1, <1>2, <1>3, <1>4 DEF Frames

\* One caller's stack changes.
LEMMA OneStackChanges ==
  ASSUME StacksOK, NEW c \in Callers, NEW s, stack' = [stack EXCEPT ![c] = s], StackOK(s)
  PROVE  StacksOK'
BY DEF StacksOK

\* The last frame is replaced by one of its method.
LEMMA UpdateKeepsStacks ==
  ASSUME StacksOK, NEW c \in Callers, ~Idle(c), NEW f \in Frames, FrameOK(f),
         f.method = Top(c).method, Update(c, f)
  PROVE  StacksOK'
<1>1. StackOK(stack[c]) /\ Len(stack[c]) \in 1 .. Len(stack[c])
  BY TopFacts
<1>2. StackOK(Append(Below(c), f))
  BY <1>1, ReplacedStack DEF Below, Top
<1>3. QED
  BY <1>2, OneStackChanges DEF Update

\* A method returns data no older than its chain allows.
LEMMA ReturnKeepsStacks ==
  ASSUME StacksOK, NEW c \in Callers, ~Idle(c), NEW data \in Data,
         data.age <= ChainTtl[Top(c).method], Return(c, data)
  PROVE  StacksOK'
<1> DEFINE n == Len(stack[c])
<1>1. /\ StackOK(stack[c]) /\ n \in Nat /\ n >= 1
      /\ \A i \in 1 .. n : stack[c][i] \in Frames /\ FrameOK(stack[c][i])
  BY TopFacts
<1>2. CASE n = 1
  BY <1>2, EmptyStack, OneStackChanges DEF Return
<1>3. CASE n # 1
  <2> DEFINE f == stack[c][n - 1]
             g == [f EXCEPT !.called = @ + 1, !.held = Combine(@, data)]
  <2>1. stack' = [stack EXCEPT ![c] = Append(SubSeq(stack[c], 1, n - 2), g)]
    BY <1>3 DEF Return
  <2>2. n - 1 \in 1 .. n /\ n - 1 \in 1 .. n - 1 /\ n - 1 + 1 = n /\ n - 1 - 1 = n - 2
    <3> HIDE DEF n
    <3>1. QED
      BY <1>1, <1>3
  <2>3. f \in Frames /\ FrameOK(f) /\ Calling(f, Top(c))
    BY <1>1, <2>2 DEF StackOK, Top
  <2>4. /\ f.held \in Data /\ f.called \in Nat /\ f.method \in DOMAIN Methods
        /\ f.at \in {"enter", "body", "finish"}
    BY <2>3 DEF Frames
  <2>5. Combine(f.held, data) \in Data
    BY <2>4, DataFacts
  <2>6. g \in Frames /\ g.method = f.method
    <3> HIDE DEF f
    <3>1. f.called + 1 \in Nat
      BY <2>4
    <3>2. QED
      BY <2>3, <2>5, <3>1 DEF Frames
  <2>7. g.called = f.called + 1 /\ g.held = Combine(f.held, data)
    BY <2>3 DEF Frames
  <2>8. /\ f.called < Len(Methods[f.method].inner)
        /\ Top(c).method = Methods[f.method].inner[f.called + 1]
        /\ f.held.age <= InnerTtl(f.method)
    BY <2>3 DEF Calling, FrameOK
  <2> HIDE DEF f, g
  <2>9. Len(Methods[f.method].inner) \in Nat
    BY <2>4, MethodsAssumption, LenProperties
  <2>10. g.called <= Len(Methods[g.method].inner)
    BY <2>4, <2>6, <2>7, <2>8, <2>9
  <2>11. /\ InnerTtl(f.method) \in Nat
         /\ ChainTtl[Top(c).method] <= InnerTtl(f.method)
         /\ ChainTtl[Top(c).method] \in Nat
    <3>1. f.called + 1 \in 1 .. Len(Methods[f.method].inner)
      BY <2>4, <2>8, <2>9
    <3>2. Top(c).method \in DOMAIN Methods
      BY TopFacts
    <3>3. QED
      BY <2>4, <2>8, <3>1, <3>2, InnerTtlBounds
  <2>12. data.age <= InnerTtl(f.method)
    <3>1. data.age \in Nat
      BY DEF Data
    <3>2. QED
      BY <2>11, <3>1
  <2>13. FrameOK(g)
    BY <2>4, <2>6, <2>7, <2>8, <2>10, <2>11, <2>12, DataFacts DEF FrameOK
  <2>14. StackOK(Append(SubSeq(stack[c], 1, n - 2), g))
    BY <1>1, <2>2, <2>6, <2>13, ReplacedStack DEF f
  <2>15. QED
    BY <2>1, <2>14, OneStackChanges
<1>4. QED
  BY <1>2, <1>3

\* What is left of the entries keeps its age bound, and so does what a Set adds.
LEMMA EntriesThatStay ==
  ASSUME EntriesOK, Cached' \subseteq Cached, \A k \in Cached' : entries'[k] = entries[k]
  PROVE  EntriesOK'
BY DEF EntriesOK

LEMMA LookupKeepsEntries ==
  ASSUME EntriesOK, NEW k, GetHit(k) \/ GetMiss(k)
  PROVE  EntriesOK'
<1>1. Cached' \subseteq Cached /\ \A j \in Cached' : entries'[j] = entries[j]
  BY DEF GetHit, GetMiss, GetExpired, GetAbsent, Deleted, Cached, cacheVars
<1>2. QED
  BY <1>1, EntriesThatStay

LEMMA TickKeepsEntries ==
  ASSUME EntriesOK, CacheTick
  PROVE  EntriesOK'
<1> SUFFICES ASSUME NEW k \in Cached'
             PROVE  EntryOK(k, entries'[k])
  BY DEF EntriesOK
<1>1. /\ k \in Cached
      /\ entries'[k] = [value |-> entries[k].value,
                        left  |-> IF Live(k) THEN entries[k].left - 1 ELSE entries[k].left]
  BY DEF CacheTick, Cached
<1>2. EntryOK(k, entries[k])
  BY <1>1 DEF EntriesOK
<1>3. entries[k].value \in Data /\ entries[k].left \in Int
  BY <1>2 DEF EntryOK
<1>4. PICK m \in DOMAIN Methods :
         /\ k \in Methods[m].fills
         /\ entries[k].value.age <= InnerTtl(m)
         /\ entries[k].left <= Methods[m].ttl \div Unit
  BY <1>2 DEF EntryOK
<1>5. Methods[m].ttl \div Unit \in Int
  BY MethodsAssumption, ReadThroughAssumption
<1>6. /\ entries'[k].value = entries[k].value
      /\ entries'[k].left \in Int /\ entries'[k].left <= Methods[m].ttl \div Unit
      /\ entries'[k] \in [value : Data, left : Int]
  BY <1>1, <1>3, <1>4, <1>5
<1>7. QED
  BY <1>4, <1>6 DEF EntryOK

LEMMA SetKeepsEntries ==
  ASSUME EntriesOK, NEW m \in DOMAIN Methods, NEW k \in Methods[m].fills,
         NEW data \in Data, data.age <= InnerTtl(m), Set(k, data, Methods[m].ttl \div Unit)
  PROVE  EntriesOK'
<1>1. Methods[m].ttl \div Unit \in Int
  BY MethodsAssumption, ReadThroughAssumption
<1>2. k \in Cached' /\ entries'[k] = [value |-> data, left |-> Methods[m].ttl \div Unit]
  BY DEF Set, Overwrite, Insert, Cached
<1>3. EntryOK(k, entries'[k])
  BY <1>1, <1>2 DEF EntryOK
<1>4. \A j \in Cached' : j # k => j \in Cached /\ entries'[j] = entries[j]
  BY SetChangesOneKey
<1>5. QED
  BY <1>3, <1>4 DEF EntriesOK

\* A hit returns data no older than the chain of the method that looks.
LEMMA HitDataBounded ==
  ASSUME EntriesOK, NEW m \in DOMAIN Methods, NEW k \in Methods[m].looks, Live(k)
  PROVE  FromCache(k) \in Data /\ FromCache(k).age <= ChainTtl[m]
<1>1. k \in Cached /\ entries[k].left >= 0 /\ EntryOK(k, entries[k])
  BY DEF Live, EntriesOK
<1>2. PICK n \in DOMAIN Methods :
         /\ k \in Methods[n].fills
         /\ entries[k].value.age <= InnerTtl(n)
         /\ entries[k].left <= Methods[n].ttl \div Unit
  BY <1>1 DEF EntryOK
<1>3. entries[k].value \in Data /\ entries[k].left \in Int
  BY <1>1 DEF EntryOK
<1>4. Ttl(k) = Methods[n].ttl \div Unit
  <2> DEFINE ttls == {Methods[h].ttl : h \in {j \in DOMAIN Methods : k \in Methods[j].fills}}
  <2>1. Methods[n].ttl \in ttls
    BY <1>2
  <2>2. \A t \in ttls : t = Methods[n].ttl
    BY <1>2, MethodsAssumption
  <2>3. (CHOOSE t \in ttls : TRUE) = Methods[n].ttl
    BY <2>1, <2>2
  <2>4. QED
    BY <2>3 DEF Ttl
<1>5. /\ InnerTtl(n) \in Nat /\ ChainTtl[n] = Methods[n].ttl \div Unit + InnerTtl(n)
      /\ ChainTtl[n] \in Nat /\ ChainTtl[m] \in Nat
  BY InnerTtlBounds
<1>6. ChainTtl[n] <= ChainTtl[m]
  BY <1>2, ChainAssumption
<1>7. Methods[n].ttl \div Unit \in Int
  BY MethodsAssumption, ReadThroughAssumption
<1>8. entries[k].value.age \in Nat /\ entries[k].value.ver \in 0 .. MaxWrites
  BY <1>3 DEF Data
<1> DEFINE d == Methods[n].ttl \div Unit
           a == entries[k].value.age
           l == entries[k].left
<1>9. FromCache(k) = [ver |-> entries[k].value.ver, age |-> a + d - l]
  BY <1>4 DEF FromCache
<1> HIDE DEF d, a, l
<1>10. a + d - l \in Nat /\ a + d - l <= ChainTtl[m]
  <2>1. a \in Nat /\ d \in Int /\ l \in Int /\ l >= 0 /\ l <= d /\ a <= InnerTtl(n)
    BY <1>1, <1>2, <1>3, <1>7, <1>8 DEF d, a, l
  <2>2. ChainTtl[n] = d + InnerTtl(n)
    BY <1>5 DEF d
  <2>3. QED
    BY <1>5, <1>6, <2>1, <2>2
<1>11. QED
  BY <1>8, <1>9, <1>10 DEF Data

-----------------------------------------------------------------------------
(* The invariant of ages.                                                  *)

LEMMA InitAgeInv == Init => AgeInv
<1> SUFFICES ASSUME Init
             PROVE  AgeInv
  OBVIOUS
<1>1. EntriesOK
  BY DEF Init, CacheInit, EntriesOK, Cached
<1>2. StacksOK
  BY EmptyStack DEF Init, StacksOK
<1>3. VersionType
  BY ReadThroughAssumption DEF Init, VersionType
<1>4. QED
  BY <1>1, <1>2, <1>3 DEF AgeInv

\* A frame goes to another control point with data of at most its age.
LEMMA MovedFrame ==
  ASSUME NEW f \in Frames, FrameOK(f), NEW at \in {"enter", "body", "finish"},
         NEW data \in Data, data.age <= InnerTtl(f.method)
  PROVE  LET g == [f EXCEPT !.at = at, !.held = data]
         IN  g \in Frames /\ FrameOK(g) /\ g.method = f.method
<1> DEFINE g == [f EXCEPT !.at = at, !.held = data]
<1>1. g \in Frames /\ g.method = f.method /\ g.called = f.called /\ g.held = data
  BY DEF Frames
<1>2. FrameOK(g)
  BY <1>1 DEF FrameOK
<1>3. QED
  BY <1>1, <1>2

LEMMA StepKeepsAgeInv ==
  ASSUME AgeInv, NEW c \in Callers, Step(c)
  PROVE  AgeInv'
<1> USE DEF AgeInv
<1>1. ~Idle(c)
  BY DEF Step, Hit, Miss, CallInner, RemoteRead, RemoteWrite, Fail, FinishRead, FinishWrite,
         InnerDone, At
<1> DEFINE f == Top(c)
           m == f.method
<1>2. /\ f \in Frames /\ FrameOK(f) /\ m \in DOMAIN Methods /\ Method(c) = Methods[m]
      /\ StackOK(stack[c]) /\ Len(stack[c]) \in Nat /\ Len(stack[c]) >= 1
  BY <1>1, TopFacts DEF Method
<1>3. /\ f.held \in Data /\ f.called \in Nat /\ f.held.age \in Nat
      /\ f.held.age <= InnerTtl(m)
  BY <1>2 DEF Frames, FrameOK, Data
<1>4. /\ InnerTtl(m) \in Nat /\ ChainTtl[m] \in Nat /\ InnerTtl(m) <= ChainTtl[m]
  BY <1>2, InnerTtlBounds, InnerWithinChain
<1>5. f.held.age <= ChainTtl[m]
  BY <1>3, <1>4
<1> HIDE DEF f, m
<1>6. CASE Hit(c)
  <2>1. PICK k \in Methods[m].looks : GetHit(k) /\ Return(c, FromCache(k))
    BY <1>2, <1>6 DEF Hit
  <2>2. FromCache(k) \in Data /\ FromCache(k).age <= ChainTtl[m]
    BY <1>2, <2>1, HitDataBounded DEF GetHit
  <2>3. StacksOK'
    BY <1>1, <2>1, <2>2, ReturnKeepsStacks DEF f, m
  <2>4. EntriesOK'
    BY <2>1, LookupKeepsEntries
  <2>5. VersionType'
    BY <1>6 DEF Hit, VersionType
  <2>6. QED
    BY <2>3, <2>4, <2>5
<1>7. CASE Miss(c)
  <2>1. EntriesOK'
    <3>1. CASE UNCHANGED cacheVars
      BY <3>1, EntriesThatStay DEF cacheVars, Cached
    <3>2. CASE \E k \in Method(c).looks : GetMiss(k)
      BY <3>2, LookupKeepsEntries
    <3>3. QED
      BY <1>7, <3>1, <3>2 DEF Miss
  <2> DEFINE g == [f EXCEPT !.at = "body"]
  <2>2. Update(c, g)
    BY <1>7 DEF Miss, f
  <2>3. g \in Frames /\ g.method = m /\ g.called = f.called /\ g.held = f.held
    BY <1>2 DEF Frames, m
  <2>4. FrameOK(g)
    BY <1>2, <2>3 DEF FrameOK, m
  <2>5. StacksOK'
    BY <1>1, <2>2, <2>3, <2>4, UpdateKeepsStacks DEF f, m
  <2>6. VersionType'
    BY <1>7 DEF Miss, VersionType
  <2>7. QED
    BY <2>1, <2>5, <2>6
<1>8. CASE CallInner(c)
  <2> DEFINE g == Frame(Methods[m].inner[f.called + 1])
             n == Len(stack[c])
  <2>1. /\ stack' = [stack EXCEPT ![c] = Append(stack[c], g)]
        /\ f.at = "body" /\ f.called < Len(Methods[m].inner)
    BY <1>2, <1>8 DEF CallInner, At, f, StacksOK
  <2>2. Methods[m].inner \in Seq(DOMAIN Methods) /\ Len(Methods[m].inner) \in Nat
    BY <1>2, MethodsAssumption, LenProperties
  <2>3. f.called + 1 \in 1 .. Len(Methods[m].inner)
    BY <1>3, <2>1, <2>2
  <2>4. Methods[m].inner[f.called + 1] \in DOMAIN Methods
    BY <2>2, <2>3, ElementOfSeq
  <2>5. /\ g \in Frames /\ FrameOK(g)
        /\ g.method = Methods[m].inner[f.called + 1]
    BY <2>4, NewFrame DEF Frame
  <2>6. Calling(stack[c][n], g)
    BY <2>1, <2>5 DEF Calling, f, m, Top
  <2>7. StackOK(Append(stack[c], g))
    <3>1. n # 0
      BY <1>2
    <3>2. QED
      BY <1>2, <2>5, <2>6, <3>1, PushedStack
  <2>8. StacksOK'
    BY <2>1, <2>7, OneStackChanges
  <2>9. EntriesOK' /\ VersionType'
    BY <1>8, EntriesThatStay DEF CallInner, VersionType, Cached
  <2>10. QED
    BY <2>8, <2>9
<1>9. CASE RemoteRead(c)
  <2> DEFINE s == Methods[m].service
             data == IF Methods[m].remote = "read" THEN Combine(f.held, Fresh(s)) ELSE f.held
             g == [f EXCEPT !.at = "finish", !.held = data]
  <2>1. Update(c, g)
    BY <1>2, <1>9 DEF RemoteRead, f
  <2>2. Fresh(s) \in Data /\ Fresh(s).age = 0
    BY <1>2 DEF Fresh, VersionType, Services, Data
  <2>3. data \in Data /\ data.age <= InnerTtl(m)
    <3>1. Fresh(s).age <= InnerTtl(m)
      BY <1>4, <2>2
    <3>2. QED
      BY <1>3, <1>4, <2>2, <3>1, DataFacts
  <2> HIDE DEF data
  <2>4. g \in Frames /\ FrameOK(g) /\ g.method = m
    BY <1>2, <2>3, MovedFrame DEF m
  <2>5. StacksOK'
    BY <1>1, <2>1, <2>4, UpdateKeepsStacks DEF f, m
  <2>6. EntriesOK' /\ VersionType'
    BY <1>9, EntriesThatStay DEF RemoteRead, VersionType, Cached
  <2>7. QED
    BY <2>5, <2>6
<1>10. CASE RemoteWrite(c)
  <2> DEFINE s == Methods[m].service
             data == [ver |-> version[s] + 1, age |-> 0]
             g == [f EXCEPT !.at = "finish", !.held = data]
  <2>1. /\ Update(c, g) /\ version[s] < MaxWrites
        /\ version' = [version EXCEPT ![s] = @ + 1]
    BY <1>2, <1>10 DEF RemoteWrite, f
  <2>2. s \in Services /\ version[s] \in 0 .. MaxWrites /\ MaxWrites \in Nat
    BY <1>2, ReadThroughAssumption DEF VersionType, Services
  <2>3. version[s] + 1 \in 0 .. MaxWrites
    BY <2>1, <2>2
  <2>4. data \in Data /\ data.age <= InnerTtl(m)
    BY <1>4, <2>3 DEF Data
  <2>5. VersionType'
    BY <2>1, <2>3 DEF VersionType
  <2> HIDE DEF data
  <2>6. g \in Frames /\ FrameOK(g) /\ g.method = m
    BY <1>2, <2>4, MovedFrame DEF m
  <2>7. StacksOK'
    BY <1>1, <2>1, <2>6, UpdateKeepsStacks DEF f, m
  <2>8. EntriesOK'
    BY <1>10, EntriesThatStay DEF RemoteWrite, Cached
  <2>9. QED
    BY <2>5, <2>7, <2>8
<1>11. CASE Fail(c)
  <2>1. stack' = [stack EXCEPT ![c] = <<>>] /\ entries' = entries /\ version' = version
    BY <1>11 DEF Fail
  <2>2. StacksOK'
    BY <2>1, EmptyStack, OneStackChanges
  <2>3. QED
    BY <2>1, <2>2, EntriesThatStay DEF VersionType, Cached
<1>12. CASE FinishRead(c)
  <2>1. Return(c, f.held) /\ version' = version
    BY <1>12 DEF FinishRead, f
  <2>2. StacksOK'
    BY <1>1, <1>3, <1>5, <2>1, ReturnKeepsStacks DEF f, m
  <2>3. EntriesOK'
    <3>1. CASE UNCHANGED cacheVars
      BY <3>1, EntriesThatStay DEF cacheVars, Cached
    <3>2. CASE \E k \in Methods[m].fills : Set(k, f.held, Methods[m].ttl \div Unit)
      BY <1>2, <1>3, <3>2, SetKeepsEntries
    <3>3. QED
      BY <1>2, <1>12, <3>1, <3>2 DEF FinishRead, f
  <2>4. QED
    BY <2>1, <2>2, <2>3 DEF VersionType
<1>13. CASE FinishWrite(c)
  <2>1. Return(c, f.held) /\ version' = version
    BY <1>13 DEF FinishWrite, f
  <2>2. StacksOK'
    BY <1>1, <1>3, <1>5, <2>1, ReturnKeepsStacks DEF f, m
  <2>3. EntriesOK'
    <3>1. CASE UNCHANGED entries
      BY <3>1, EntriesThatStay DEF Cached
    <3>2. CASE Invalidate(Prefixed(Method(c).service))
      <4>1. Cached' \subseteq Cached /\ \A j \in Cached' : entries'[j] = entries[j]
        BY <3>2 DEF Invalidate, Deleted, Cached
      <4>2. QED
        BY <4>1, EntriesThatStay
    <3>3. QED
      BY <1>13, <3>1, <3>2 DEF FinishWrite
  <2>4. QED
    BY <2>1, <2>2, <2>3 DEF VersionType
<1>14. QED
  BY <1>6, <1>7, <1>8, <1>9, <1>10, <1>11, <1>12, <1>13 DEF Step

LEMMA AgeInvariant == Spec => []AgeInv
<1>1. AgeInv /\ [Next]_vars => AgeInv'
  <2> SUFFICES ASSUME AgeInv, [Next]_vars
               PROVE  AgeInv'
    OBVIOUS
  <2>1. CASE Tick
    BY <2>1, TickKeepsEntries DEF Tick, AgeInv, StacksOK, VersionType
  <2>2. ASSUME NEW c \in Callers, NEW m \in Calls, Begin(c, m)
        PROVE  AgeInv'
    <3>1. m \in DOMAIN Methods
      BY ReadThroughAssumption
    <3>2. StacksOK'
      BY <2>2, <3>1, NewFrame, OneStackChanges DEF Begin, AgeInv
    <3>3. QED
      BY <2>2, <3>2, EntriesThatStay DEF Begin, AgeInv, VersionType, Cached
  <2>3. ASSUME NEW c \in Callers, Step(c)
        PROVE  AgeInv'
    BY <2>3, StepKeepsAgeInv
  <2>4. CASE UNCHANGED vars
    BY <2>4 DEF vars, AgeInv, EntriesOK, StacksOK, VersionType, Cached
  <2>5. QED
    BY <2>1, <2>2, <2>3, <2>4 DEF Next
<1>2. QED
  BY InitAgeInv, <1>1, PTL DEF Spec

\* What a method returns has been in the cache no longer than the TTLs along
\* the chain of cached methods under it add up to, for every table of methods
\* in which none is built on itself, and any number of callers: data another
\* program changed is not kept alive by results filled from one another.
THEOREM AgeAlwaysBounded == Spec => []AgeBounded
<1>1. AgeInv => AgeBounded
  <2> SUFFICES ASSUME AgeInv, NEW c \in Callers, At(c, "finish")
               PROVE  Top(c).held.age <= ChainTtl[Top(c).method]
    BY DEF AgeBounded
  <2>1. /\ Top(c) \in Frames /\ FrameOK(Top(c)) /\ Top(c).method \in DOMAIN Methods
    BY TopFacts DEF AgeInv, At
  <2> DEFINE m == Top(c).method
             a == Top(c).held.age
  <2>2. a \in Nat /\ a <= InnerTtl(m)
    BY <2>1 DEF Frames, Data, FrameOK
  <2>3. InnerTtl(m) \in Nat /\ ChainTtl[m] \in Nat /\ InnerTtl(m) <= ChainTtl[m]
    BY <2>1, InnerTtlBounds, InnerWithinChain
  <2> HIDE DEF m, a
  <2>4. a <= ChainTtl[m]
    BY <2>2, <2>3
  <2>5. QED
    BY <2>4 DEF a, m
<1>2. QED
  BY AgeInvariant, <1>1, PTL

-----------------------------------------------------------------------------
(* Types.  The map and the list stay one structure under the calls too, so *)
(* that the cache never holds more than MaxEntries results; what the       *)
(* frames and the entries hold is typed by the invariant of ages; the      *)
(* histories only ever hold versions that a write was given.               *)

HistoryOK ==
    /\ cleared \in [Services -> 0 .. MaxWrites]
    /\ acked \in [Services -> 0 .. MaxWrites]
    /\ since \in [Callers -> 0 .. MaxWrites]

\* What the step of a caller does to the map and the list.
LEMMA StepKeepsList ==
  ASSUME ListOK, AgeInv, NEW c \in Callers, Step(c)
  PROVE  ListOK'
<1>1. ~Idle(c)
  BY DEF Step, Hit, Miss, CallInner, RemoteRead, RemoteWrite, Fail, FinishRead, FinishWrite,
         InnerDone, At
<1>2. Top(c).method \in DOMAIN Methods
  BY <1>1, TopFacts DEF AgeInv
<1>3. Method(c).fills \subseteq Keys
  BY <1>2, MethodsAssumption DEF Method
<1>4. ASSUME UNCHANGED cacheVars
      PROVE  ListOK'
  BY <1>4 DEF cacheVars, ListOK, Coherent, MapMatchesList, Cached, Listed
<1>5. CASE Hit(c)
  BY <1>5, LookupKeepsList DEF Hit
<1>6. CASE Miss(c)
  BY <1>4, <1>6, LookupKeepsList DEF Miss
<1>7. CASE CallInner(c) \/ RemoteRead(c) \/ RemoteWrite(c) \/ Fail(c)
  BY <1>4, <1>7 DEF CallInner, RemoteRead, RemoteWrite, Fail, cacheVars
<1>8. CASE FinishRead(c)
  <2>1. CASE \E k \in Method(c).fills : Set(k, Top(c).held, Method(c).ttl \div Unit)
    BY <1>3, <2>1, SetKeepsList
  <2>2. QED
    BY <1>4, <1>8, <2>1 DEF FinishRead
<1>9. CASE FinishWrite(c)
  <2>1. CASE Invalidate(Prefixed(Method(c).service))
    BY <2>1, RemovalKeepsList DEF Invalidate
  <2>2. QED
    BY <1>4, <1>9, <2>1 DEF FinishWrite, cacheVars
<1>10. QED
  BY <1>5, <1>6, <1>7, <1>8, <1>9 DEF Step

LEMMA StepKeepsHistory ==
  ASSUME HistoryOK, AgeInv, NEW c \in Callers, Step(c)
  PROVE  HistoryOK'
<1>1. MaxWrites \in Nat /\ 0 \in 0 .. MaxWrites
  BY ReadThroughAssumption
<1>2. ~Idle(c)
  BY DEF Step, Hit, Miss, CallInner, RemoteRead, RemoteWrite, Fail, FinishRead, FinishWrite,
         InnerDone, At
<1>3. /\ Top(c).held.ver \in 0 .. MaxWrites
      /\ Method(c).service \in Services
  <2>1. Top(c) \in Frames /\ Top(c).method \in DOMAIN Methods
    BY <1>2, TopFacts DEF AgeInv
  <2>2. QED
    BY <2>1 DEF Frames, Data, Method, Services
<1>4. ASSUME NEW data, Return(c, data)
      PROVE  since' \in [Callers -> 0 .. MaxWrites]
  BY <1>1, <1>4 DEF Return, HistoryOK
<1>5. CASE Hit(c)
  BY <1>4, <1>5 DEF Hit, HistoryOK
<1>6. CASE Miss(c) \/ CallInner(c) \/ RemoteRead(c) \/ RemoteWrite(c)
  BY <1>6 DEF Miss, CallInner, RemoteRead, RemoteWrite, HistoryOK
<1>7. CASE Fail(c)
  BY <1>1, <1>7 DEF Fail, HistoryOK
<1>8. CASE FinishRead(c)
  BY <1>4, <1>8 DEF FinishRead, HistoryOK
<1>9. CASE FinishWrite(c)
  <2> DEFINE s == Method(c).service
             v == Top(c).held.ver
  <2>1. \A a \in 0 .. MaxWrites : Max(a, v) \in 0 .. MaxWrites
    BY <1>3 DEF Max
  <2>2. acked' = [acked EXCEPT ![s] = Max(@, v)] /\ Return(c, Top(c).held)
    BY <1>9 DEF FinishWrite
  <2>3. cleared' = cleared \/ cleared' = [cleared EXCEPT ![s] = Max(@, v)]
    BY <1>9 DEF FinishWrite
  <2> HIDE DEF s, v
  <2>4. acked' \in [Services -> 0 .. MaxWrites]
    BY <2>1, <2>2 DEF HistoryOK
  <2>5. cleared' \in [Services -> 0 .. MaxWrites]
    BY <2>1, <2>3 DEF HistoryOK
  <2>6. since' \in [Callers -> 0 .. MaxWrites]
    BY <1>4, <2>2
  <2>7. QED
    BY <2>4, <2>5, <2>6 DEF HistoryOK
<1>10. QED
  BY <1>5, <1>6, <1>7, <1>8, <1>9 DEF Step

LEMMA ListAndHistoryInvariant == Spec => [](ListOK /\ HistoryOK)
<1>1. Init => ListOK /\ HistoryOK
  BY InitListOK, ReadThroughAssumption DEF Init, HistoryOK
<1>2. AgeInv /\ ListOK /\ HistoryOK /\ [Next]_vars => ListOK' /\ HistoryOK'
  <2> SUFFICES ASSUME AgeInv, ListOK, HistoryOK, [Next]_vars
               PROVE  ListOK' /\ HistoryOK'
    OBVIOUS
  <2>1. CASE Tick
    BY <2>1, TickKeepsList DEF Tick, HistoryOK
  <2>2. ASSUME NEW c \in Callers, NEW m \in Calls, Begin(c, m)
        PROVE  ListOK' /\ HistoryOK'
    <3>1. Methods[m].service \in Services
      BY ReadThroughAssumption DEF Services
    <3>2. cleared[Methods[m].service] \in 0 .. MaxWrites
      BY <3>1 DEF HistoryOK
    <3>3. HistoryOK'
      BY <2>2, <3>2 DEF Begin, HistoryOK
    <3>4. ListOK'
      BY <2>2 DEF Begin, ListOK, Coherent, MapMatchesList, Cached, Listed
    <3>5. QED
      BY <3>3, <3>4
  <2>3. ASSUME NEW c \in Callers, Step(c)
        PROVE  ListOK' /\ HistoryOK'
    BY <2>3, StepKeepsList, StepKeepsHistory
  <2>4. CASE UNCHANGED vars
    BY <2>4 DEF vars, ListOK, HistoryOK, Coherent, MapMatchesList, Cached, Listed
  <2>5. QED
    BY <2>1, <2>2, <2>3, <2>4 DEF Next
<1>3. QED
  BY <1>1, <1>2, AgeInvariant, PTL DEF Spec

\* In every reachable state the map, the list, the frames and the histories
\* have their types, and the list is no longer than MaxEntries: whatever the
\* callers do between a miss and the Set that answers it, and however many
\* fill at once, the capacity of the cache is never exceeded.
THEOREM CacheTypeCorrect == Spec => []TypeOK
<1>1. ListOK /\ AgeInv /\ HistoryOK => TypeOK
  <2> SUFFICES ASSUME ListOK, AgeInv, HistoryOK
               PROVE  TypeOK
    OBVIOUS
  <2>1. \A k \in Cached : entries[k].value \in Data /\ entries[k].left \in Int
    BY DEF AgeInv, EntriesOK, EntryOK
  <2>2. ASSUME NEW c \in Callers, NEW i \in DOMAIN stack[c]
        PROVE  stack[c][i] \in Frames
    <3>1. stack[c] \in Seq(Frames)
      BY DEF AgeInv, StacksOK, StackOK
    <3>2. QED
      BY <3>1, ElementOfSeq, LenProperties
  <2>3. QED
    BY <2>1, <2>2 DEF TypeOK, ListOK, Coherent, AgeInv, VersionType, HistoryOK, Frames
<1>2. QED
  BY <1>1, ListAndHistoryInvariant, AgeInvariant, PTL

\* And the map and the list hold the same keys, under the calls of the
\* services as under any others.
THEOREM CoherentUnderCalls == Spec => []Coherent
<1>1. ListOK => Coherent
  BY DEF ListOK
<1>2. QED
  BY <1>1, ListAndHistoryInvariant, PTL

-----------------------------------------------------------------------------
(* What a single caller sees.  Nothing in the cache is stale, and a method *)
(* whose result is cached holds nothing stale: it is built on such methods *)
(* only, so no write lies between its reads.  Any other holds data at      *)
(* least as new as when its call began.                                    *)

OneCaller == \A c, d \in Callers : c = d

Caches(m) == Methods[m].fills # {}

NothingStale == \A k \in Keys : ~Stale(k)

ClearedOK ==
    /\ cleared \in [Services -> 0 .. MaxWrites]
    /\ since \in [Callers -> 0 .. MaxWrites]
    /\ \A s \in Services : cleared[s] <= version[s]

\* cl and ver are the versions cleared and current, start what was cleared
\* when the call began.
SeenOK(f, cl, ver, start) ==
    LET m == f.method
        s == Methods[m].service
    IN  /\ start <= cl[s]
        /\ start <= f.held.ver
        /\ Caches(m) => cl[s] <= f.held.ver
        /\ Methods[m].remote = "write" /\ f.at = "finish" => f.held.ver <= ver[s]

FramesSeen ==
    \A c \in Callers : \A i \in 1 .. Len(stack[c]) :
       /\ SeenOK(stack[c][i], cleared, version, since[c])
       /\ \A j \in 1 .. Len(stack[c]) :
             i < j /\ Caches(stack[c][i].method) => Caches(stack[c][j].method)

SeenInv == NothingStale /\ ClearedOK /\ FramesSeen

\* A key belongs to the service of every method that fills it or looks it up.
LEMMA KeysOfService ==
  ASSUME NEW m \in DOMAIN Methods, NEW n \in DOMAIN Methods,
         NEW k \in Methods[m].looks \cup Methods[m].fills, k \in Methods[n].fills
  PROVE  /\ Methods[m].service = Methods[n].service
         /\ k \in Keys
         /\ \A s \in Services : k \in Prefixed(s) <=> s = Methods[m].service
<1>1. Methods[m].service = Methods[n].service /\ k \in Keys
  BY MethodsAssumption
<1>2. k \in Prefixed(Methods[n].service)
  BY DEF Prefixed
<1>3. ASSUME NEW s \in Services, k \in Prefixed(s)
      PROVE  s = Methods[m].service
  <2>1. PICK h \in DOMAIN Methods : Methods[h].service = s /\ k \in Methods[h].fills
    BY <1>3 DEF Prefixed
  <2>2. QED
    BY <2>1, MethodsAssumption
<1>4. QED
  BY <1>1, <1>2, <1>3

\* The versions of data, and of what is combined of it.
LEMMA VersionFacts ==
  ASSUME NEW a \in Data, NEW b \in Data
  PROVE  /\ a.ver \in Int /\ b.ver \in Int
         /\ Combine(a, b).ver \in Int
         /\ \A n \in Int : n <= a.ver /\ n <= b.ver => n <= Combine(a, b).ver
<1>1. a.ver \in Int /\ b.ver \in Int
  BY ReadThroughAssumption DEF Data
<1>2. Combine(a, b).ver = Min(a.ver, b.ver)
  BY DEF Combine
<1>3. QED
  BY <1>1, <1>2 DEF Min

\* The version and the histories of the service of a method.
LEMMA ServiceFacts ==
  ASSUME VersionType, ClearedOK, NEW m \in DOMAIN Methods
  PROVE  LET s == Methods[m].service
         IN  /\ s \in Services
             /\ version[s] \in 0 .. MaxWrites /\ version[s] \in Int
             /\ cleared[s] \in 0 .. MaxWrites /\ cleared[s] \in Int
             /\ cleared[s] <= version[s]
BY ReadThroughAssumption DEF VersionType, ClearedOK, Services

\* A frame's place in the invariant after a step, when what it is compared
\* with has only moved as it may.
LEMMA SeenStays ==
  ASSUME VersionType, ClearedOK, VersionType', ClearedOK', NEW c \in Callers,
         NEW f \in Frames, SeenOK(f, cleared, version, since[c]),
         since'[c] = since[c],
         \A s \in Services : cleared[s] <= cleared'[s] /\ version[s] <= version'[s],
         cleared' = cleared \/ ~Caches(f.method)
  PROVE  SeenOK(f, cleared', version', since'[c])
<1> DEFINE m == f.method
           s == Methods[m].service
<1>1. m \in DOMAIN Methods /\ f.held.ver \in Int
  BY VersionFacts DEF Frames
<1>2. /\ s \in Services
      /\ version[s] \in Int /\ cleared[s] \in Int
      /\ version'[s] \in Int /\ cleared'[s] \in Int /\ since[c] \in Int
  BY <1>1, ReadThroughAssumption DEF VersionType, ClearedOK, Services
<1>3. /\ since[c] <= cleared[s]
      /\ since[c] <= f.held.ver
      /\ Caches(m) => cleared[s] <= f.held.ver
      /\ Methods[m].remote = "write" /\ f.at = "finish" => f.held.ver <= version[s]
  BY DEF SeenOK
<1>4. cleared[s] <= cleared'[s] /\ version[s] <= version'[s]
  BY <1>2
<1> HIDE DEF m, s
<1>5. since'[c] <= cleared'[s] /\ since'[c] <= f.held.ver
  BY <1>2, <1>3, <1>4
<1>6. Caches(m) => cleared'[s] <= f.held.ver
  BY <1>3 DEF m
<1>7. Methods[m].remote = "write" /\ f.at = "finish" => f.held.ver <= version'[s]
  BY <1>1, <1>2, <1>3, <1>4
<1>8. QED
  BY <1>5, <1>6, <1>7 DEF SeenOK, m, s

\* The last frame becomes g, the n-th, after a step of the only caller.
LEMMA SeenAfterReplacement ==
  ASSUME OneCaller, StacksOK, VersionType, ClearedOK, FramesSeen,
         VersionType', ClearedOK', NEW c \in Callers,
         since'[c] = since[c],
         \A s \in Services : cleared[s] <= cleared'[s] /\ version[s] <= version'[s],
         NEW n \in 1 .. Len(stack[c]),
         cleared' = cleared \/ \A i \in 1 .. n : ~Caches(stack[c][i].method),
         NEW g \in Frames, FrameOK(g), g.method = stack[c][n].method, SeenOK(g, cleared', version', since'[c]),
         stack' = [stack EXCEPT ![c] = Append(SubSeq(stack[c], 1, n - 1), g)]
  PROVE  FramesSeen'
<1> DEFINE s == stack[c]
           u == Append(SubSeq(s, 1, n - 1), g)
<1>1. StackOK(s) /\ s \in Seq(Frames)
  BY DEF StacksOK, StackOK
<1>2. Len(s) \in Nat /\ n \in Nat /\ n >= 1 /\ n <= Len(s)
      /\ \A i \in 1 .. Len(s) : s[i] \in Frames
  BY <1>1, LenProperties, ElementOfSeq
<1>3. /\ Len(u) = n
      /\ \A i \in 1 .. n - 1 : u[i] = s[i]
      /\ u[n] = g
  BY <1>1, ReplacedStack
<1>4. stack'[c] = u
  BY DEF StacksOK
<1> HIDE DEF u
<1>5. ASSUME NEW i \in 1 .. n
      PROVE  SeenOK(u[i], cleared', version', since'[c])
  <2>1. CASE i = n
    BY <1>3, <2>1
  <2>2. CASE i # n
    <3>1. i \in 1 .. n - 1 /\ i \in 1 .. Len(s)
      BY <1>2, <2>2
    <3>2. SeenOK(s[i], cleared, version, since[c])
      BY <3>1 DEF FramesSeen
    <3>3. SeenOK(s[i], cleared', version', since'[c])
      <4>1. cleared' = cleared \/ ~Caches(s[i].method)
        BY <1>5
      <4>2. s[i] \in Frames
        BY <1>2, <3>1
      <4> DEFINE f == s[i]
      <4> HIDE DEF f
      <4>3. QED
        BY <3>2, <4>1, <4>2, SeenStays
    <3>4. QED
      BY <1>3, <3>1, <3>3
  <2>3. QED
    BY <2>1, <2>2
<1>6. \A i \in 1 .. n : i \in 1 .. Len(s) /\ u[i].method = s[i].method
  <2> SUFFICES ASSUME NEW i \in 1 .. n
               PROVE  i \in 1 .. Len(s) /\ u[i].method = s[i].method
    OBVIOUS
  <2>1. i = n \/ i \in 1 .. n - 1
    BY <1>2
  <2>2. QED
    BY <1>2, <1>3, <2>1
<1>7. ASSUME NEW i \in 1 .. n, NEW j \in 1 .. n, i < j, Caches(u[i].method)
      PROVE  Caches(u[j].method)
  BY <1>6, <1>7 DEF FramesSeen
<1>8. SUFFICES ASSUME NEW i \in 1 .. n
               PROVE  /\ SeenOK(u[i], cleared', version', since'[c])
                      /\ \A j \in 1 .. n : i < j /\ Caches(u[i].method) => Caches(u[j].method)
  BY <1>3, <1>4 DEF OneCaller, FramesSeen
<1>9. QED
  BY <1>5, <1>7

\* The only caller has no frames left.
LEMMA SeenWhenIdle ==
  ASSUME OneCaller, StacksOK, NEW c \in Callers, stack' = [stack EXCEPT ![c] = <<>>]
  PROVE  FramesSeen'
<1>1. stack'[c] = <<>> /\ Len(<<>>) = 0
  BY DEF StacksOK
<1>2. \A i \in 1 .. 0 : FALSE
  OBVIOUS
<1>3. QED
  BY <1>1, <1>2 DEF OneCaller, FramesSeen

\* A method returns data that its caller may take for as new as it expects.
LEMMA ReturnKeepsSeen ==
  ASSUME OneCaller, StacksOK, VersionType, ClearedOK, FramesSeen,
         VersionType', ClearedOK', NEW c \in Callers, ~Idle(c), NEW data \in Data,
         data.age <= ChainTtl[Top(c).method],
         since[c] <= data.ver,
         Caches(Top(c).method) => cleared[Method(c).service] <= data.ver,
         version' = version, \A s \in Services : cleared[s] <= cleared'[s],
         cleared' = cleared \/ ~Caches(Top(c).method),
         StacksOK', Return(c, data)
  PROVE  FramesSeen'
<1> DEFINE n == Len(stack[c])
           f == stack[c][n - 1]
           g == [f EXCEPT !.called = @ + 1, !.held = Combine(@, data)]
<1>1. /\ StackOK(stack[c]) /\ n \in Nat /\ n >= 1
      /\ \A i \in 1 .. n : stack[c][i] \in Frames /\ FrameOK(stack[c][i])
  BY TopFacts
<1>2. CASE n = 1
  BY <1>2, SeenWhenIdle DEF Return
<1>3. CASE n # 1
  <2>1. /\ stack' = [stack EXCEPT ![c] = Append(SubSeq(stack[c], 1, n - 2), g)]
        /\ since' = since
    BY <1>3 DEF Return
  <2>2. /\ n - 1 \in 1 .. n /\ n \in 1 .. n /\ n - 1 + 1 = n /\ n - 1 - 1 = n - 2
        /\ n - 1 \in 1 .. n - 1 /\ n - 1 >= 1
        /\ \A i \in 1 .. n - 1 : i \in 1 .. n /\ i < n
    <3> HIDE DEF n
    <3>1. QED
      BY <1>1, <1>3
  <2>3. f \in Frames /\ FrameOK(f) /\ Calling(f, Top(c))
    BY <1>1, <2>2 DEF StackOK, Top
  <2>4. SeenOK(f, cleared, version, since[c])
    BY <2>2 DEF FramesSeen
  <2>5. \A i \in 1 .. n - 1 : Caches(stack[c][i].method) => Caches(Top(c).method)
    BY <2>2 DEF FramesSeen, Top
  <2>6. f.held \in Data /\ f.called \in Nat /\ f.method \in DOMAIN Methods
    BY <2>3 DEF Frames
  <2>7. /\ Method(c).service = Methods[f.method].service
        /\ Caches(f.method) => Caches(Top(c).method)
    <3>1. /\ Methods[f.method].inner \in Seq(DOMAIN Methods)
          /\ f.called < Len(Methods[f.method].inner)
          /\ Top(c).method = Methods[f.method].inner[f.called + 1]
      BY <2>3, <2>6, MethodsAssumption DEF Calling
    <3>2. f.called + 1 \in DOMAIN Methods[f.method].inner
      <4>1. /\ DOMAIN Methods[f.method].inner = 1 .. Len(Methods[f.method].inner)
            /\ Len(Methods[f.method].inner) \in Nat
        BY <3>1, LenProperties
      <4>2. QED
        BY <2>6, <3>1, <4>1
    <3> HIDE DEF f
    <3>3. /\ Methods[Methods[f.method].inner[f.called + 1]].service = Methods[f.method].service
          /\ Methods[f.method].fills # {} =>
                Methods[Methods[f.method].inner[f.called + 1]].fills # {}
      BY <2>6, <3>2, MethodsAssumption
    <3>4. QED
      BY <3>1, <3>3 DEF Method, Caches
  <2>8. /\ g.method = f.method /\ g.at = f.at /\ f.at = "body"
        /\ g.held = Combine(f.held, data)
    BY <2>3 DEF Frames, Calling
  <2>9. g \in Frames /\ FrameOK(g)
    <3> DEFINE u == Append(SubSeq(stack[c], 1, n - 2), g)
    <3>1. u = stack'[c]
      BY <2>1 DEF StacksOK
    <3>2. StackOK(stack'[c])
      BY DEF StacksOK
    <3>3. u \in Seq(Frames) /\ \A i \in 1 .. Len(u) : FrameOK(u[i])
      BY <3>1, <3>2 DEF StackOK
    <3>4. g \in Frames
      <4> HIDE DEF f
      <4>1. f.called + 1 \in Nat /\ Combine(f.held, data) \in Data
        BY <2>6, DataFacts
      <4>2. QED
        BY <2>3, <4>1 DEF Frames
    <3>5. /\ \A i \in 1 .. n - 2 : stack[c][i] \in Frames
          /\ n - 2 \in Int /\ n - 2 >= 0
      BY <1>1, <2>2
    <3>6. /\ SubSeq(stack[c], 1, n - 2) \in Seq(Frames)
          /\ Len(SubSeq(stack[c], 1, n - 2)) \in Nat
      BY <3>5, SubSeqProperties, LenProperties
    <3> HIDE DEF g
    <3>7. Len(u) \in 1 .. Len(u) /\ u[Len(u)] = g
      BY <3>4, <3>6, AppendProperties
    <3>8. QED
      BY <3>3, <3>4, <3>7
  <2>10. SeenOK(g, cleared', version', since'[c])
    <3> DEFINE m == f.method
               s == Methods[m].service
    <3>1. /\ since[c] <= cleared[s] /\ since[c] <= f.held.ver
          /\ Caches(m) => cleared[s] <= f.held.ver
      BY <2>4 DEF SeenOK
    <3>2. /\ cleared[s] \in Int /\ cleared'[s] \in Int /\ since[c] \in Int
          /\ s \in Services
      BY <2>6, ReadThroughAssumption DEF ClearedOK, Services
    <3>3. since[c] <= cleared'[s]
      <4>1. cleared[s] <= cleared'[s]
        BY <3>2
      <4> HIDE DEF s
      <4>2. QED
        BY <3>1, <3>2, <4>1
    <3>4. since[c] <= g.held.ver
      BY <2>6, <2>8, <3>1, <3>2, VersionFacts
    <3>5. Caches(m) => cleared'[s] <= g.held.ver
      <4> SUFFICES ASSUME Caches(m)
                   PROVE  cleared'[s] <= g.held.ver
        OBVIOUS
      <4>1. cleared' = cleared /\ cleared[s] <= data.ver
        BY <2>7
      <4>2. QED
        BY <2>6, <2>8, <3>1, <3>2, <4>1, VersionFacts
    <3>6. g.at # "finish"
      BY <2>8
    <3>7. since'[c] = since[c] /\ g.method = m
      BY <2>1, <2>8
    <3> HIDE DEF m, s, g
    <3>8. QED
      BY <3>3, <3>4, <3>5, <3>6, <3>7 DEF SeenOK, s
  <2> HIDE DEF g
  <2>11. n - 1 \in 1 .. Len(stack[c])
    BY <2>2
  <2>12. cleared' = cleared \/ \A i \in 1 .. n - 1 : ~Caches(stack[c][i].method)
    BY <2>5
  <2>13. \A s \in Services : cleared[s] <= cleared'[s] /\ version[s] <= version'[s]
    <3>1. \A s \in Services : version[s] \in Int
      BY ReadThroughAssumption DEF VersionType
    <3>2. QED
      BY <3>1
  <2>14. stack' = [stack EXCEPT ![c] = Append(SubSeq(stack[c], 1, n - 1 - 1), g)]
    BY <2>1, <2>2 DEF g
  <2>15. g.method = stack[c][n - 1].method /\ since'[c] = since[c]
    BY <2>1, <2>8
  <2> HIDE DEF n, f
  <2>16. QED
    BY <2>9, <2>10, <2>11, <2>12, <2>13, <2>14, <2>15, SeenAfterReplacement
<1>4. QED
  BY <1>2, <1>3

LEMMA InitSeenInv == Init => SeenInv
<1> SUFFICES ASSUME Init
             PROVE  SeenInv
  OBVIOUS
<1>1. Cached = {}
  BY DEF Init, CacheInit, Cached
<1>2. NothingStale
  BY <1>1 DEF NothingStale, Stale
<1>3. ClearedOK
  BY ReadThroughAssumption DEF Init, ClearedOK
<1>4. \A c \in Callers : Len(stack[c]) = 0
  BY DEF Init
<1>5. FramesSeen
  <2>1. \A i \in 1 .. 0 : FALSE
    OBVIOUS
  <2>2. QED
    BY <1>4, <2>1 DEF FramesSeen
<1>6. QED
  BY <1>2, <1>3, <1>5 DEF SeenInv

\* Nothing becomes stale: a method that sets a key holds nothing outdated.
LEMMA NothingBecomesStale ==
  ASSUME AgeInv, SeenInv, [Next]_vars
  PROVE  NothingStale'
<1> SUFFICES ASSUME NEW k \in Keys, Stale(k)'
             PROVE  FALSE
  BY DEF NothingStale
<1>1. ~Stale(k)
  BY DEF SeenInv, NothingStale
<1>2. ClearedType
  BY DEF SeenInv, ClearedOK, ClearedType
<1>3. PICK c \in Callers : FinishRead(c)
  <2>1. ~OnlyRemoves
    BY <1>1, RemovalKeepsFreshness
  <2>2. QED
    BY <1>1, <1>2, <2>1, StepKinds, WritesClearWhatTheyOutdate
<1> DEFINE f == Top(c)
           m == f.method
<1>4. At(c, "finish") /\ k \in Method(c).fills /\ Outdated(k, f.held)
  BY <1>1, <1>3, ReadsOnlyFillLate
<1>5. /\ f \in Frames /\ m \in DOMAIN Methods /\ Method(c) = Methods[m]
      /\ Len(stack[c]) \in 1 .. Len(stack[c])
  BY <1>4, TopFacts DEF AgeInv, At, Method
<1>6. SeenOK(f, cleared, version, since[c])
  BY <1>5 DEF SeenInv, FramesSeen, Top
<1>7. cleared[Methods[m].service] <= f.held.ver
  BY <1>4, <1>5, <1>6 DEF SeenOK, Caches
<1>8. PICK s \in Services : k \in Prefixed(s) /\ f.held.ver < cleared[s]
  BY <1>4 DEF Outdated
<1>9. s = Methods[m].service
  BY <1>4, <1>5, <1>8, KeysOfService
<1>10. f.held.ver \in Int /\ cleared[s] \in Int
  BY <1>5, ReadThroughAssumption DEF Frames, Data, SeenInv, ClearedOK
<1> HIDE DEF f, m
<1>11. QED
  BY <1>7, <1>8, <1>9, <1>10

\* The last frame moves on with data it may hold.
LEMMA UpdateKeepsSeen ==
  ASSUME OneCaller, StacksOK, VersionType, ClearedOK, FramesSeen,
         VersionType', ClearedOK', NEW c \in Callers, ~Idle(c),
         NEW f \in Frames, FrameOK(f), f.method = Top(c).method, Update(c, f),
         since' = since, cleared' = cleared,
         \A s \in Services : version[s] <= version'[s],
         SeenOK(f, cleared, version', since[c])
  PROVE  FramesSeen'
<1> DEFINE n == Len(stack[c])
<1>1. n \in 1 .. n /\ n \in 1 .. Len(stack[c])
  BY TopFacts
<1>2. stack' = [stack EXCEPT ![c] = Append(SubSeq(stack[c], 1, n - 1), f)]
  BY DEF Update, Below
<1>3. f.method = stack[c][n].method
  BY DEF Top
<1>4. SeenOK(f, cleared', version', since'[c])
  OBVIOUS
<1>5. \A s \in Services : cleared[s] <= cleared'[s] /\ version[s] <= version'[s]
  <2>1. \A s \in Services : cleared[s] \in Int
    BY ReadThroughAssumption DEF ClearedOK
  <2>2. QED
    BY <2>1
<1> HIDE DEF n
<1>6. QED
  BY <1>1, <1>2, <1>3, <1>4, <1>5, SeenAfterReplacement

LEMMA StepKeepsSeen ==
  ASSUME OneCaller, AgeInv, AgeInv', SeenInv, NEW c \in Callers, Step(c)
  PROVE  ClearedOK' /\ FramesSeen'
<1> USE DEF AgeInv, SeenInv
<1>1. ~Idle(c)
  BY DEF Step, Hit, Miss, CallInner, RemoteRead, RemoteWrite, Fail, FinishRead, FinishWrite,
         InnerDone, At
<1> DEFINE f == Top(c)
           m == f.method
           s == Methods[m].service
           n == Len(stack[c])
<1>2. /\ f \in Frames /\ FrameOK(f) /\ m \in DOMAIN Methods /\ Method(c) = Methods[m]
      /\ StackOK(stack[c]) /\ n \in Nat /\ n >= 1 /\ n \in 1 .. n
  BY <1>1, TopFacts DEF Method
<1>3. f.held \in Data /\ f.held.ver \in Int /\ f.held.ver \in 0 .. MaxWrites
  BY <1>2, VersionFacts DEF Frames, Data
<1>4. SeenOK(f, cleared, version, since[c])
  BY <1>2 DEF FramesSeen, Top
<1>5. /\ since[c] <= cleared[s] /\ since[c] <= f.held.ver
      /\ Caches(m) => cleared[s] <= f.held.ver
      /\ Methods[m].remote = "write" /\ f.at = "finish" => f.held.ver <= version[s]
  BY <1>4 DEF SeenOK
<1>6. /\ s \in Services
      /\ version[s] \in 0 .. MaxWrites /\ version[s] \in Int
      /\ cleared[s] \in 0 .. MaxWrites /\ cleared[s] \in Int
      /\ cleared[s] <= version[s]
  BY <1>2, ServiceFacts
<1>7. since[c] \in Int
  BY ReadThroughAssumption DEF ClearedOK
<1>8. \A t \in Services : cleared[t] \in Int /\ version[t] \in Int
  BY ReadThroughAssumption DEF ClearedOK, VersionType
<1>9. f.held.age <= ChainTtl[m]
  <2>1. /\ f.held.age \in Nat /\ f.held.age <= InnerTtl(m)
        /\ InnerTtl(m) \in Nat /\ ChainTtl[m] \in Nat /\ InnerTtl(m) <= ChainTtl[m]
    BY <1>2, <1>3, InnerTtlBounds, InnerWithinChain DEF FrameOK, Data
  <2>2. QED
    BY <2>1
<1>10. \A data : Return(c, data) =>
          /\ since' \in [Callers -> 0 .. MaxWrites]
  <2> SUFFICES ASSUME NEW data, Return(c, data)
               PROVE  since' \in [Callers -> 0 .. MaxWrites]
    OBVIOUS
  <2>1. 0 \in 0 .. MaxWrites /\ since \in [Callers -> 0 .. MaxWrites]
    BY ReadThroughAssumption DEF ClearedOK
  <2>2. QED
    BY <2>1 DEF Return
<1> HIDE DEF f, m, s, n
<1>11. CASE Hit(c)
  <2>1. PICK k \in Methods[m].looks : GetHit(k) /\ Return(c, FromCache(k))
    BY <1>2, <1>11 DEF Hit
  <2>2. version' = version /\ cleared' = cleared
    BY <1>11 DEF Hit
  <2>3. ClearedOK'
    BY <1>10, <2>1, <2>2 DEF ClearedOK
  <2>4. FromCache(k) \in Data /\ FromCache(k).age <= ChainTtl[m]
    BY <1>2, <2>1, HitDataBounded DEF GetHit
  <2>5. cleared[s] <= FromCache(k).ver
    <3>1. k \in Cached /\ EntryOK(k, entries[k])
      BY <2>1 DEF GetHit, Live, EntriesOK
    <3>2. PICK h \in DOMAIN Methods : k \in Methods[h].fills
      BY <3>1 DEF EntryOK
    <3>3. k \in Keys /\ k \in Prefixed(s)
      BY <1>2, <1>6, <3>2, KeysOfService DEF s
    <3>4. ~(entries[k].value.ver < cleared[s])
      BY <1>6, <3>1, <3>3 DEF NothingStale, Stale, Outdated
    <3>5. entries[k].value.ver \in Int
      BY <3>1, ReadThroughAssumption DEF EntryOK, Data
    <3>6. QED
      BY <1>6, <3>4, <3>5 DEF FromCache
  <2>6. FromCache(k).ver \in Int
    BY <2>4, VersionFacts
  <2>7. since[c] <= FromCache(k).ver
    BY <1>5, <1>6, <1>7, <2>5, <2>6
  <2>8. \A t \in Services : cleared[t] <= cleared'[t]
    BY <1>8, <2>2
  <2> DEFINE data == FromCache(k)
  <2>9. data \in Data /\ data.age <= ChainTtl[m] /\ since[c] <= data.ver
        /\ cleared[s] <= data.ver /\ Return(c, data)
    BY <2>1, <2>4, <2>5, <2>7
  <2> HIDE DEF data
  <2>10. FramesSeen'
    BY <1>1, <1>2, <2>2, <2>3, <2>8, <2>9, ReturnKeepsSeen DEF f, m, s
  <2>11. QED
    BY <2>3, <2>10
<1>12. CASE Miss(c)
  <2> DEFINE g == [f EXCEPT !.at = "body"]
  <2>1. /\ Update(c, g) /\ version' = version /\ cleared' = cleared /\ since' = since
    BY <1>12 DEF Miss, f
  <2>2. /\ g \in Frames /\ g.method = m /\ g.called = f.called /\ g.held = f.held
        /\ g.at = "body"
    BY <1>2 DEF Frames, m
  <2>3. FrameOK(g)
    BY <1>2, <2>2 DEF FrameOK, m
  <2> HIDE DEF g
  <2>4. SeenOK(g, cleared, version', since[c])
    BY <1>5, <2>1, <2>2 DEF SeenOK, s
  <2>5. ClearedOK'
    BY <2>1 DEF ClearedOK
  <2>6. \A t \in Services : version[t] <= version'[t]
    BY <1>8, <2>1
  <2>7. FramesSeen'
    BY <1>1, <2>1, <2>2, <2>3, <2>4, <2>5, <2>6, UpdateKeepsSeen DEF f, m
  <2>8. QED
    BY <2>5, <2>7
<1>13. CASE CallInner(c)
  <2> DEFINE h == Methods[m].inner[f.called + 1]
             u == Append(stack[c], Frame(h))
  <2>1. /\ stack' = [stack EXCEPT ![c] = u]
        /\ f.at = "body" /\ f.called < Len(Methods[m].inner)
        /\ version' = version /\ cleared' = cleared /\ since' = since
    BY <1>2, <1>13 DEF CallInner, At, f, StacksOK
  <2>2. /\ Methods[m].inner \in Seq(DOMAIN Methods) /\ Len(Methods[m].inner) \in Nat
        /\ DOMAIN Methods[m].inner = 1 .. Len(Methods[m].inner)
        /\ f.called \in Nat
    BY <1>2, MethodsAssumption, LenProperties DEF Frames
  <2>3. f.called + 1 \in DOMAIN Methods[m].inner
    BY <2>1, <2>2
  <2>4. h \in DOMAIN Methods
    BY <2>2, <2>3, ElementOfSeq
  <2>5. Methods[h].service = s /\ (Caches(m) => Caches(h))
    BY <1>2, <2>3, MethodsAssumption DEF Caches, s
  <2> HIDE DEF h
  <2>6. /\ Frame(h) \in Frames /\ FrameOK(Frame(h))
        /\ Frame(h).method = h /\ Frame(h).at = "enter" /\ Frame(h).held.ver = MaxWrites
    BY <2>4, NewFrame DEF Frame, Newest
  <2>7. SeenOK(Frame(h), cleared, version, since[c])
    <3>1. /\ cleared[s] <= MaxWrites /\ since[c] <= MaxWrites
      BY <1>5, <1>6, <1>7, ReadThroughAssumption
    <3>2. QED
      BY <1>5, <2>5, <2>6, <3>1 DEF SeenOK
  <2>8. Calling(stack[c][n], Frame(h))
    BY <2>1, <2>6 DEF Calling, f, m, n, Top, h
  <2>9. /\ Len(u) = n + 1
        /\ \A i \in 1 .. n : u[i] = stack[c][i]
        /\ u[n + 1] = Frame(h)
    <3>1. n # 0 /\ n = Len(stack[c])
      BY <1>2 DEF n
    <3>2. QED
      BY <1>2, <2>6, <2>8, <3>1, PushedStack
  <2>10. stack'[c] = u
    BY <2>1 DEF StacksOK
  <2> HIDE DEF u
  <2>11. \A i \in 1 .. n + 1 : i \in 1 .. n \/ (i = n + 1 /\ i \notin 1 .. n)
    BY <1>2
  <2>12. ASSUME NEW i \in 1 .. n + 1
         PROVE  SeenOK(u[i], cleared, version, since[c])
    <3>1. \A j \in 1 .. n : SeenOK(stack[c][j], cleared, version, since[c])
      BY DEF FramesSeen, n
    <3>2. QED
      BY <2>7, <2>9, <2>11, <3>1
  <2>13. ASSUME NEW i \in 1 .. n + 1, NEW j \in 1 .. n + 1, i < j, Caches(u[i].method)
         PROVE  Caches(u[j].method)
    <3>1. i \in 1 .. n /\ u[i] = stack[c][i] /\ i \in Int /\ n \in Int
      BY <1>2, <2>9, <2>11, <2>13
    <3>2. CASE j \in 1 .. n
      BY <2>9, <2>13, <3>1, <3>2 DEF FramesSeen, n
    <3>3. CASE j = n + 1
      <4>1. Caches(m)
        <5>1. CASE i = n
          BY <2>13, <3>1, <5>1 DEF m, f, Top, n
        <5>2. CASE i # n
          <6>1. i < n /\ n \in 1 .. n
            BY <1>2, <3>1, <5>2
          <6>2. QED
            BY <2>13, <3>1, <6>1 DEF FramesSeen, m, f, Top, n
        <5>3. QED
          BY <5>1, <5>2
      <4>2. QED
        BY <2>5, <2>6, <2>9, <3>3, <4>1
    <3>4. QED
      BY <2>11, <3>2, <3>3
  <2>14. FramesSeen'
    BY <2>1, <2>9, <2>10, <2>12, <2>13 DEF FramesSeen, OneCaller
  <2>15. ClearedOK'
    BY <2>1 DEF ClearedOK
  <2>16. QED
    BY <2>14, <2>15
<1>14. CASE RemoteRead(c)
  <2> DEFINE data == IF Methods[m].remote = "read" THEN Combine(f.held, Fresh(s)) ELSE f.held
             g == [f EXCEPT !.at = "finish", !.held = data]
  <2>1. /\ Update(c, g) /\ version' = version /\ cleared' = cleared /\ since' = since
        /\ Methods[m].remote # "write"
    BY <1>2, <1>14 DEF RemoteRead, f, s
  <2>2. Fresh(s) \in Data /\ Fresh(s).age = 0 /\ Fresh(s).ver = version[s]
    BY <1>6 DEF Fresh, Data
  <2>3. data \in Data /\ data.age <= InnerTtl(m)
    <3>1. InnerTtl(m) \in Nat /\ f.held.age <= InnerTtl(m)
      BY <1>2, InnerTtlBounds DEF FrameOK, m
    <3>2. Fresh(s).age <= InnerTtl(m)
      BY <2>2, <3>1
    <3>3. QED
      BY <1>3, <2>2, <3>1, <3>2, DataFacts
  <2>4. /\ since[c] <= data.ver
        /\ Caches(m) => cleared[s] <= data.ver
    <3>1. since[c] <= version[s]
      BY <1>5, <1>6, <1>7
    <3>2. QED
      BY <1>3, <1>5, <1>6, <1>7, <2>2, <3>1, VersionFacts
  <2> HIDE DEF data
  <2>5. /\ g \in Frames /\ FrameOK(g) /\ g.method = m
    BY <1>2, <2>3, MovedFrame DEF m
  <2>6. g.held = data
    BY <1>2 DEF Frames
  <2> HIDE DEF g
  <2>7. SeenOK(g, cleared, version', since[c])
    BY <1>5, <2>1, <2>4, <2>5, <2>6 DEF SeenOK, s
  <2>8. ClearedOK'
    BY <2>1 DEF ClearedOK
  <2>9. \A t \in Services : version[t] <= version'[t]
    BY <1>8, <2>1
  <2>10. FramesSeen'
    BY <1>1, <2>1, <2>5, <2>7, <2>8, <2>9, UpdateKeepsSeen DEF f, m
  <2>11. QED
    BY <2>8, <2>10
<1>15. CASE RemoteWrite(c)
  <2> DEFINE data == [ver |-> version[s] + 1, age |-> 0]
             g == [f EXCEPT !.at = "finish", !.held = data]
  <2>1. /\ Update(c, g) /\ cleared' = cleared /\ since' = since
        /\ version[s] < MaxWrites
        /\ version' = [version EXCEPT ![s] = @ + 1]
        /\ Methods[m].remote = "write"
    BY <1>2, <1>15 DEF RemoteWrite, f, s
  <2>2. data \in Data /\ data.age <= InnerTtl(m) /\ data.ver = version[s] + 1
    <3>1. version[s] + 1 \in 0 .. MaxWrites
      BY <1>6, <2>1, ReadThroughAssumption
    <3>2. InnerTtl(m) \in Nat
      BY <1>2, InnerTtlBounds
    <3>3. QED
      BY <3>1, <3>2 DEF Data
  <2> HIDE DEF data
  <2>3. /\ g \in Frames /\ FrameOK(g) /\ g.method = m
    BY <1>2, <2>2, MovedFrame DEF m
  <2>4. g.held = data
    BY <1>2 DEF Frames
  <2>5. \A t \in Services : version[t] <= version'[t] /\ cleared[t] <= version'[t]
    <3> SUFFICES ASSUME NEW t \in Services
                 PROVE  version[t] <= version'[t] /\ cleared[t] <= version'[t]
      OBVIOUS
    <3>1. version'[t] = IF t = s THEN version[s] + 1 ELSE version[t]
      BY <2>1 DEF VersionType
    <3>2. cleared[t] <= version[t] /\ cleared[t] \in Int /\ version[t] \in Int
      BY <1>8 DEF ClearedOK
    <3>3. QED
      BY <3>1, <3>2
  <2>6. ClearedOK'
    BY <2>1, <2>5 DEF ClearedOK
  <2>7. version'[s] = version[s] + 1
    BY <1>6, <2>1 DEF VersionType
  <2> HIDE DEF g
  <2>8. ~Caches(m)
    BY <1>2, <2>1, MethodsAssumption DEF Caches
  <2>9. SeenOK(g, cleared, version', since[c])
    <3>1. since[c] <= data.ver /\ data.ver <= version'[s]
      BY <1>5, <1>6, <1>7, <2>2, <2>7
    <3>2. QED
      BY <1>5, <2>3, <2>4, <2>8, <3>1 DEF SeenOK, s
  <2>10. FramesSeen'
    BY <1>1, <2>1, <2>3, <2>5, <2>6, <2>9, UpdateKeepsSeen DEF f, m
  <2>11. QED
    BY <2>6, <2>10
<1>16. CASE Fail(c)
  <2>1. /\ stack' = [stack EXCEPT ![c] = <<>>]
        /\ since' = [since EXCEPT ![c] = 0]
        /\ version' = version /\ cleared' = cleared
    BY <1>16 DEF Fail
  <2>2. FramesSeen'
    BY <2>1, SeenWhenIdle
  <2>3. ClearedOK'
    BY <2>1, ReadThroughAssumption DEF ClearedOK
  <2>4. QED
    BY <2>2, <2>3
<1>17. CASE FinishRead(c)
  <2>1. Return(c, f.held) /\ version' = version /\ cleared' = cleared
    BY <1>17 DEF FinishRead, f
  <2>2. ClearedOK'
    BY <1>10, <2>1 DEF ClearedOK
  <2>3. \A t \in Services : cleared[t] <= cleared'[t]
    BY <1>8, <2>1
  <2> DEFINE data == f.held
  <2>4. data \in Data /\ data.age <= ChainTtl[m] /\ since[c] <= data.ver
        /\ (Caches(m) => cleared[s] <= data.ver) /\ Return(c, data)
    BY <1>3, <1>5, <1>9, <2>1
  <2> HIDE DEF data
  <2>5. FramesSeen'
    BY <1>1, <1>2, <2>1, <2>2, <2>3, <2>4, ReturnKeepsSeen DEF f, m, s
  <2>6. QED
    BY <2>2, <2>5
<1>18. CASE FinishWrite(c)
  <2> DEFINE data == f.held
  <2>1. /\ Return(c, data) /\ version' = version
        /\ Methods[m].remote = "write" /\ f.at = "finish"
        /\ cleared' = cleared \/ cleared' = [cleared EXCEPT ![s] = Max(@, data.ver)]
    BY <1>2, <1>18 DEF FinishWrite, f, s, At
  <2>2. /\ data \in Data /\ data.age <= ChainTtl[m] /\ since[c] <= data.ver
        /\ data.ver <= version[s] /\ data.ver \in 0 .. MaxWrites /\ data.ver \in Int
    BY <1>3, <1>5, <1>9, <2>1
  <2> HIDE DEF data
  <2>3. ~Caches(m)
    BY <1>2, <2>1, MethodsAssumption DEF Caches
  <2>4. /\ Max(cleared[s], data.ver) \in 0 .. MaxWrites
        /\ Max(cleared[s], data.ver) <= version[s]
        /\ cleared[s] <= Max(cleared[s], data.ver)
    BY <1>6, <2>2 DEF Max
  <2>5. /\ cleared' \in [Services -> 0 .. MaxWrites]
        /\ \A t \in Services : cleared[t] <= cleared'[t] /\ cleared'[t] <= version[t]
    <3>1. CASE cleared' = cleared
      BY <1>8, <3>1 DEF ClearedOK
    <3>2. CASE cleared' = [cleared EXCEPT ![s] = Max(@, data.ver)]
      <4> DEFINE x == Max(cleared[s], data.ver)
      <4>1. cleared' = [cleared EXCEPT ![s] = x]
        BY <3>2
      <4>2. /\ x \in 0 .. MaxWrites /\ x <= version[s] /\ cleared[s] <= x
        BY <2>4
      <4> HIDE DEF x
      <4>3. /\ cleared \in [Services -> 0 .. MaxWrites]
            /\ \A t \in Services : cleared[t] <= version[t] /\ cleared[t] \in Int
        BY <1>8 DEF ClearedOK
      <4>4. cleared' \in [Services -> 0 .. MaxWrites]
        BY <4>1, <4>2, <4>3
      <4>5. ASSUME NEW t \in Services
            PROVE  cleared[t] <= cleared'[t] /\ cleared'[t] <= version[t]
        <5> HIDE DEF s
        <5>1. CASE t = s
          BY <4>1, <4>2, <4>3, <5>1
        <5>2. CASE t # s
          BY <4>1, <4>3, <5>2
        <5>3. QED
          BY <5>1, <5>2
      <4>6. QED
        BY <4>4, <4>5
    <3>3. QED
      BY <2>1, <3>1, <3>2
  <2>6. ClearedOK'
    BY <1>10, <2>1, <2>5 DEF ClearedOK
  <2>7. FramesSeen'
    BY <1>1, <1>2, <2>1, <2>2, <2>3, <2>5, <2>6, ReturnKeepsSeen DEF f, m
  <2>8. QED
    BY <2>6, <2>7
<1>19. QED
  BY <1>11, <1>12, <1>13, <1>14, <1>15, <1>16, <1>17, <1>18 DEF Step

LEMMA BeginKeepsSeen ==
  ASSUME OneCaller, AgeInv, SeenInv, NEW c \in Callers, NEW m \in Calls, Begin(c, m)
  PROVE  ClearedOK' /\ FramesSeen'
<1> DEFINE s == Methods[m].service
<1>1. m \in DOMAIN Methods
  BY ReadThroughAssumption
<1>2. s \in Services /\ cleared[s] \in 0 .. MaxWrites
  BY <1>1 DEF SeenInv, ClearedOK, Services
<1>3. /\ stack' = [stack EXCEPT ![c] = <<Frame(m)>>]
      /\ since' = [since EXCEPT ![c] = cleared[s]]
      /\ version' = version /\ cleared' = cleared
  BY DEF Begin
<1>4. ClearedOK'
  BY <1>2, <1>3 DEF SeenInv, ClearedOK
<1>5. /\ stack'[c] = <<Frame(m)>> /\ Len(<<Frame(m)>>) = 1 /\ <<Frame(m)>>[1] = Frame(m)
      /\ since'[c] = cleared[s]
  BY <1>3 DEF AgeInv, StacksOK, SeenInv, ClearedOK
<1>6. SeenOK(Frame(m), cleared, version, cleared[s])
  <2>1. /\ Frame(m).method = m /\ Frame(m).at = "enter" /\ Frame(m).held.ver = MaxWrites
    BY DEF Frame, Newest
  <2>2. cleared[s] <= MaxWrites /\ cleared[s] <= cleared[s]
    BY <1>2, ReadThroughAssumption
  <2>3. QED
    BY <2>1, <2>2 DEF SeenOK
<1>7. \A i \in 1 .. 1 : i = 1
  OBVIOUS
<1>8. ~(1 < 1)
  OBVIOUS
<1>9. FramesSeen'
  BY <1>3, <1>5, <1>6, <1>7, <1>8 DEF OneCaller, FramesSeen
<1>10. QED
  BY <1>4, <1>9

LEMMA SeenInvariant == OneCaller /\ Spec => []SeenInv
<1>1. OneCaller /\ AgeInv /\ AgeInv' /\ SeenInv /\ [Next]_vars => SeenInv'
  <2> SUFFICES ASSUME OneCaller, AgeInv, AgeInv', SeenInv, [Next]_vars
               PROVE  SeenInv'
    OBVIOUS
  <2>1. NothingStale'
    BY NothingBecomesStale
  <2>2. CASE Tick \/ UNCHANGED vars
    <3>1. version' = version /\ stack' = stack /\ cleared' = cleared /\ since' = since
      BY <2>2 DEF Tick, vars
    <3>2. QED
      BY <2>1, <3>1 DEF SeenInv, ClearedOK, FramesSeen
  <2>3. ASSUME NEW c \in Callers, NEW m \in Calls, Begin(c, m)
        PROVE  SeenInv'
    BY <2>1, <2>3, BeginKeepsSeen DEF SeenInv
  <2>4. ASSUME NEW c \in Callers, Step(c)
        PROVE  SeenInv'
    BY <2>1, <2>4, StepKeepsSeen DEF SeenInv
  <2>5. QED
    BY <2>2, <2>3, <2>4 DEF Next
<1>2. QED
  <2>1. OneCaller => []OneCaller
    <3>1. OneCaller => OneCaller'
      BY DEF OneCaller
    <3>2. QED
      BY <3>1, PTL
  <2>2. QED
    BY InitSeenInv, AgeInvariant, <1>1, <2>1, PTL DEF Spec

\* A single caller never gets a result older than the last clearing write
\* that was acknowledged when its call began, whatever its calls, through
\* however many cached methods, and whatever expires or is evicted between
\* them.  With several callers this is false: StaleEntersLate says how.
THEOREM SingleCallerSeesClearedWrites == OneCaller /\ Spec => []ReadsSeeClearedWrites
<1>1. AgeInv /\ SeenInv => ReadsSeeClearedWrites
  <2> SUFFICES ASSUME AgeInv, SeenInv, NEW c \in Callers, Len(stack[c]) = 1
               PROVE  /\ At(c, "finish") => Top(c).held.ver >= since[c]
                      /\ At(c, "enter") =>
                            \A k \in Method(c).looks : Live(k) => FromCache(k).ver >= since[c]
    BY DEF ReadsSeeClearedWrites
  <2> DEFINE f == Top(c)
             m == f.method
             s == Methods[m].service
  <2>1. SeenOK(f, cleared, version, since[c])
    <3>1. 1 \in 1 .. Len(stack[c])
      OBVIOUS
    <3>2. QED
      BY <3>1 DEF SeenInv, FramesSeen, Top
  <2>2. ~Idle(c)
    BY DEF Idle
  <2>3. f \in Frames /\ m \in DOMAIN Methods /\ Method(c) = Methods[m]
    BY <2>2, TopFacts DEF AgeInv, Method
  <2>4. /\ since[c] \in Int /\ f.held.ver \in Int
        /\ s \in Services /\ cleared[s] \in Int
    BY <2>3, ReadThroughAssumption DEF SeenInv, ClearedOK, Frames, Data, Services
  <2>5. since[c] <= f.held.ver /\ since[c] <= cleared[s]
    BY <2>1 DEF SeenOK
  <2>6. ASSUME NEW k \in Methods[m].looks, Live(k)
        PROVE  FromCache(k).ver >= since[c]
    <3>1. k \in Cached /\ EntryOK(k, entries[k])
      BY <2>6 DEF Live, AgeInv, EntriesOK
    <3>2. PICK h \in DOMAIN Methods : k \in Methods[h].fills
      BY <3>1 DEF EntryOK
    <3>3. k \in Keys /\ k \in Prefixed(s)
      BY <2>3, <2>4, <3>2, KeysOfService
    <3>4. ~(entries[k].value.ver < cleared[s])
      BY <2>4, <3>1, <3>3 DEF SeenInv, NothingStale, Stale, Outdated
    <3>5. entries[k].value.ver \in Int
      BY <3>1, ReadThroughAssumption DEF EntryOK, Data
    <3>6. FromCache(k).ver = entries[k].value.ver
      BY DEF FromCache
    <3> HIDE DEF s
    <3>7. QED
      BY <2>4, <2>5, <3>4, <3>5, <3>6
  <2>7. f.held.ver >= since[c]
    BY <2>4, <2>5
  <2>8. QED
    BY <2>3, <2>6, <2>7
<1>2. QED
  BY AgeInvariant, SeenInvariant, <1>1, PTL

=============================================================================
