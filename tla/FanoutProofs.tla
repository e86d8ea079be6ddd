----------------------------- MODULE FanoutProofs ------------------------------
(***************************************************************************)
(* Proofs about Fanout, for any number of items and slots.  The argument:  *)
(* the item of a goroutine that is past its work is in the channel or      *)
(* stored, one of the two and once; the counters count what their names    *)
(* say; so the channel is closed, and the call returns, after the last     *)
(* answer.                                                                 *)
(***************************************************************************)
EXTENDS Fanout, FiniteSetTheorems, SequenceTheorems, TLAPS

Using(i) == pc[i] \in {"holding", "answered"}
Running(i) == pc[i] \in {"started", "holding", "answered", "released"}
Answered(i) == pc[i] \in {"answered", "released", "gone"}

Queued(i) == \E k \in 1 .. Len(results) : results[k] = i

TakesSlots == Limits \/ kind = "appends"

\* The loop starts the goroutines in order.
InOrder == \A i \in Items : pc[i] = "none" <=> i > spawned

\* The goroutines of an append begin with their slot.
SlotFirst == kind = "appends" => \A i \in Items : pc[i] # "started"

\* What is answered was delivered once.
DeliveredOnce ==
    /\ \A i \in Items : stored[i] \in {0, 1}
    /\ \A j, k \in 1 .. Len(results) : results[j] = results[k] => j = k
    /\ \A i \in Items : stored[i] = 1 => ~Queued(i)
    /\ \A i \in Items : Answered(i) <=> (stored[i] = 1 \/ Queued(i))
    /\ ~Channel => results = <<>>

SlotsCounted ==
    held = IF TakesSlots THEN Cardinality({i \in Items : Using(i)}) ELSE 0

GoroutinesCounted ==
    waitGroup = IF kind = "gather" THEN 0
                ELSE Cardinality({i \in Items : Running(i)})

AllGone == \A i \in Items : pc[i] = "gone"

\* What has ended has ended behind the last goroutine.
EndsLast ==
    /\ closed => Channel /\ kind # "gather" /\ AllGone
    /\ call = "returned" =>
          /\ \A i \in Items : Answered(i)
          /\ kind # "gather" => AllGone
    /\ call # "sent on closed"

IInv ==
    /\ TypeOK /\ InOrder /\ SlotFirst /\ DeliveredOnce
    /\ SlotsCounted /\ (TakesSlots => held <= Concurrency)
    /\ GoroutinesCounted /\ EndsLast


-----------------------------------------------------------------------------
(* Counting and delivering.                                                *)

LEMMA Counting ==
  ASSUME NEW S \in SUBSET Items
  PROVE  /\ Cardinality(S) \in 0 .. N
         /\ Cardinality(S) = 0 <=> S = {}
         /\ \A i \in Items :
               /\ i \notin S => Cardinality(S \cup {i}) = Cardinality(S) + 1
               /\ i \in S => Cardinality(S \ {i}) = Cardinality(S) - 1
<1>1. IsFiniteSet(Items) /\ Cardinality(Items) = N
  BY FS_Interval, FanoutAssumption DEF Items
<1>2. IsFiniteSet(S) /\ Cardinality(S) <= N
  BY <1>1, FS_Subset
<1>3. Cardinality(S) \in Nat /\ (Cardinality(S) = 0 <=> S = {})
  BY <1>2, FS_CardinalityType, FS_EmptySet
<1>4. Cardinality(S) \in 0 .. N
  BY <1>2, <1>3, FanoutAssumption
<1>5. QED
  BY <1>2, <1>3, <1>4, FS_AddElement, FS_RemoveElement

\* A goroutine that delivers does so into its own place or behind what is in
\* the channel, and then its item is answered.
LEMMA DeliverStep ==
  ASSUME TypeOK, DeliveredOnce, ~closed, kind' = kind,
         NEW i \in Items, ~Answered(i), Deliver(i),
         NEW v \in {"answered", "released", "gone"}, pc' = [pc EXCEPT ![i] = v]
  PROVE  /\ DeliveredOnce' /\ call' = call
         /\ results' \in Seq(Items) /\ Len(results') <= N
         /\ stored' \in [Items -> Nat]
<1>1. \A j \in Items : Answered(j)' <=> (Answered(j) \/ j = i)
  BY DEF TypeOK, Answered
<1>2. stored[i] = 0 /\ ~Queued(i)
  BY DEF DeliveredOnce
<1>3. results \in Seq(Items) /\ stored \in [Items -> Nat]
  BY DEF TypeOK
<1>4. CASE Channel
  <2>1. /\ results' = Append(results, i) /\ Len(results) < N
        /\ stored' = stored /\ call' = call
    BY <1>4 DEF Deliver
  <2>2. /\ results' \in Seq(Items) /\ Len(results') = Len(results) + 1
        /\ results'[Len(results) + 1] = i
        /\ \A k \in 1 .. Len(results) : results'[k] = results[k]
    BY <2>1, <1>3, AppendProperties
  <2>3. Len(results) \in Nat
    BY <1>3, LenProperties
  <2>4. \A j \in Items : Queued(j)' <=> (Queued(j) \/ j = i)
    BY <2>2, <2>3 DEF Queued
  <2>5. \A j, k \in 1 .. Len(results') : results'[j] = results'[k] => j = k
    BY <1>2, <2>2, <2>3 DEF DeliveredOnce, Queued
  <2>6. Channel'
    BY <1>4 DEF Channel
  <2>7. DeliveredOnce'
    BY <1>1, <1>2, <2>1, <2>4, <2>5, <2>6, Zenon DEF DeliveredOnce
  <2>8. Len(results') <= N
    BY <2>1, <2>2, <2>3, FanoutAssumption
  <2>9. QED
    BY <1>3, <2>1, <2>2, <2>7, <2>8
<1>5. CASE ~Channel
  <2>1. /\ stored' = [stored EXCEPT ![i] = 1]
        /\ results' = results /\ call' = call
    <3>1. /\ stored' = [stored EXCEPT ![i] = stored[i] + 1]
          /\ results' = results /\ call' = call
      BY <1>5 DEF Deliver
    <3>2. QED
      BY <1>2, <3>1
  <2>2. \A j \in Items : ~Queued(j) /\ ~Queued(j)'
    <3>1. results = <<>> /\ Len(<<>>) = 0
      BY <1>5, EmptySeq DEF DeliveredOnce
    <3>2. QED
      BY <2>1, <3>1 DEF Queued
  <2>3. DeliveredOnce'
    BY <1>1, <1>5, <2>1, <2>2 DEF DeliveredOnce, Channel, TypeOK
  <2>4. QED
    BY <2>1, <2>3 DEF TypeOK
<1>6. QED
  BY <1>4, <1>5

\* Receiving moves the first item of the channel to its place.
LEMMA ReceiveStep ==
  ASSUME TypeOK, DeliveredOnce, Receive
  PROVE  /\ DeliveredOnce'
         /\ results' \in Seq(Items) /\ Len(results') <= N
         /\ stored' \in [Items -> Nat]
<1> DEFINE h == Head(results)
<1>1. /\ results \in Seq(Items) /\ results # <<>> /\ results' = Tail(results)
      /\ kind' = kind /\ pc' = pc /\ Channel /\ Len(results) <= N
    BY DEF Receive, TypeOK
<1>2. Len(results) \in Nat /\ Len(results) > 0 /\ h = results[1] /\ h \in Items
  BY <1>1
<1>3. /\ results' \in Seq(Items) /\ Len(results') = Len(results) - 1
      /\ \A k \in 1 .. Len(results') : results'[k] = results[k + 1]
  BY <1>1, <1>2
<1>4. Queued(h) /\ stored[h] = 0
  BY <1>2 DEF Queued, DeliveredOnce
<1>5. stored' = [stored EXCEPT ![h] = 1]
  BY <1>2, <1>4 DEF Receive, TypeOK
<1>6. \A j, k \in 1 .. Len(results') : results'[j] = results'[k] => j = k
  BY <1>2, <1>3 DEF DeliveredOnce
<1>7. \A j \in Items : Queued(j)' <=> (Queued(j) /\ j # h)
  <2> SUFFICES ASSUME NEW j \in Items
               PROVE  Queued(j)' <=> (Queued(j) /\ j # h)
    OBVIOUS
  <2>1. ASSUME NEW k \in 1 .. Len(results'), results'[k] = j
        PROVE  Queued(j) /\ j # h
    <3>1. k + 1 \in 1 .. Len(results) /\ results[k + 1] = j /\ k + 1 # 1
      BY <1>2, <1>3, <2>1
    <3>2. QED
      BY <1>2, <3>1 DEF Queued, DeliveredOnce
  <2>2. ASSUME NEW k \in 1 .. Len(results), results[k] = j, j # h
        PROVE  Queued(j)'
    <3>1. k - 1 \in 1 .. Len(results') /\ results'[k - 1] = j
      BY <1>2, <1>3, <2>2
    <3>2. QED
      BY <3>1 DEF Queued
  <2>3. QED
    BY <2>1, <2>2 DEF Queued
<1>8. DeliveredOnce'
  BY <1>1, <1>2, <1>4, <1>5, <1>6, <1>7 DEF DeliveredOnce, Answered, Channel, TypeOK
<1>9. Len(results') <= N
  BY <1>1, <1>2, <1>3, FanoutAssumption
<1>10. stored' \in [Items -> Nat]
  BY <1>5 DEF TypeOK
<1>11. QED
  BY <1>3, <1>8, <1>9, <1>10

-----------------------------------------------------------------------------
(* The steps, one conjunct of the invariant at a time.                     *)

LEMMA InitIInv == Init => IInv
<1> SUFFICES ASSUME Init PROVE IInv
  OBVIOUS
<1> USE FanoutAssumption DEF Init
<1>1. TypeOK
  <2>1. <<>> \in Seq(Items) /\ Len(<<>>) = 0
    BY EmptySeq
  <2>2. 0 \in 0 .. N /\ 0 <= N
    OBVIOUS
  <2>3. QED
    BY <2>1, <2>2 DEF TypeOK
<1>2. InOrder /\ SlotFirst
  BY DEF InOrder, SlotFirst, Items
<1>3. DeliveredOnce
  BY EmptySeq DEF DeliveredOnce, Answered, Queued
<1>4. Cardinality({}) = 0 /\ Concurrency \in Nat
  BY FS_EmptySet
<1>5. {i \in Items : Using(i)} = {} /\ {i \in Items : Running(i)} = {}
  BY DEF Using, Running
<1>6. SlotsCounted /\ GoroutinesCounted
  BY <1>4, <1>5 DEF SlotsCounted, GoroutinesCounted
<1>7. (TakesSlots => held <= Concurrency) /\ EndsLast
  BY <1>4 DEF EndsLast
<1>8. QED
  BY <1>1, <1>2, <1>3, <1>6, <1>7 DEF IInv

\* As long as the call runs and a goroutine does, the channel is open.
LEMMA OpenWhileRunning ==
  ASSUME IInv, NEW i \in Items, pc[i] # "gone"
  PROVE  ~closed
BY DEF IInv, EndsLast, AllGone

\* The item of the next goroutine.
LEMMA NextItem ==
  ASSUME IInv, spawned < N
  PROVE  spawned + 1 \in Items /\ pc[spawned + 1] = "none"
<1>1. spawned \in 0 .. N /\ InOrder
  BY DEF IInv, TypeOK
<1>2. spawned + 1 \in Items /\ spawned + 1 > spawned
  BY <1>1, FanoutAssumption DEF Items
<1>3. QED
  BY <1>1, <1>2 DEF InOrder

LEMMA NextKeepsOnce ==
  ASSUME IInv, [Next]_vars
  PROVE  /\ DeliveredOnce'
         /\ results' \in Seq(Items) /\ Len(results') <= N
         /\ stored' \in [Items -> Nat]
<1> DEFINE Goal == /\ DeliveredOnce
                   /\ results \in Seq(Items) /\ Len(results) <= N
                   /\ stored \in [Items -> Nat]
<1> SUFFICES Goal'
  OBVIOUS
<1>1. Goal /\ TypeOK /\ DeliveredOnce
  BY DEF IInv, TypeOK
<1>2. ASSUME results' = results, stored' = stored, kind' = kind,
             \A i \in Items : Answered(i)' <=> Answered(i)
      PROVE  Goal'
  BY <1>1, <1>2 DEF DeliveredOnce, Queued, Channel
<1>3. CASE UNCHANGED vars
  BY <1>2, <1>3 DEF vars, Answered
<1>4. CASE Spawn
  BY <1>1, <1>2, <1>4, NextItem DEF Spawn, Answered, TypeOK
<1>5. CASE SpawnWithSlot
  BY <1>1, <1>2, <1>5, NextItem DEF SpawnWithSlot, Answered, TypeOK
<1>6. CASE SpawnGivesUp
  BY <1>1, <1>6, NextItem, OpenWhileRunning, DeliverStep DEF SpawnGivesUp, Answered
<1>7. ASSUME NEW i \in Items, Acquire(i)
      PROVE  Goal'
  BY <1>1, <1>2, <1>7 DEF Acquire, Answered, TypeOK
<1>8. ASSUME NEW i \in Items, GiveUp(i)
      PROVE  Goal'
  BY <1>1, <1>8, OpenWhileRunning, DeliverStep DEF GiveUp, Answered
<1>9. ASSUME NEW i \in Items, Work(i)
      PROVE  Goal'
  BY <1>1, <1>9, OpenWhileRunning, DeliverStep DEF Work, Answered
<1>10. ASSUME NEW i \in Items, Release(i) \/ Exit(i)
       PROVE  Goal'
  BY <1>1, <1>2, <1>10 DEF Release, Exit, Answered, TypeOK
<1>11. CASE Receive
  BY <1>1, <1>11, ReceiveStep
<1>12. CASE Close \/ Return \/ Cancel \/ \E i \in Items : Panic(i)
  BY <1>2, <1>12 DEF Close, Return, Cancel, Panic, Answered
<1>13. QED
  BY <1>3, <1>4, <1>5, <1>6, <1>7, <1>8, <1>9, <1>10, <1>11, <1>12
     DEF Next, Caller, Goroutine

\* A slot is taken and given back with the program counter.
LEMMA NextCountsSlots ==
  ASSUME IInv, [Next]_vars
  PROVE  SlotsCounted' /\ (TakesSlots => held <= Concurrency)'
<1> DEFINE S == {i \in Items : Using(i)}
           Goal == SlotsCounted /\ (TakesSlots => held <= Concurrency)
<1> SUFFICES Goal'
  OBVIOUS
<1>1. Goal /\ TypeOK /\ SlotFirst /\ kind' = kind /\ TakesSlots' = TakesSlots
  <2>1. kind' = kind
    BY DEF Next, Caller, Goroutine, vars, Spawn, SpawnWithSlot, SpawnGivesUp, Receive,
       Return, Close, Cancel, Acquire, GiveUp, Work, Release, Exit, Panic
  <2>2. QED
    BY <2>1 DEF IInv, TakesSlots, Limits
<1>2. S \in SUBSET Items /\ S' \in SUBSET Items
  OBVIOUS
<1>3. Cardinality(S) \in 0 .. N /\ Concurrency \in Nat /\ N \in Nat
  BY <1>2, Counting, FanoutAssumption
<1>4. held = IF TakesSlots THEN Cardinality(S) ELSE 0
  BY <1>1 DEF SlotsCounted
<1>5. ASSUME held' = held, \A i \in Items : Using(i)' <=> Using(i)
      PROVE  Goal'
  <2>1. S' = S
    BY <1>5
  <2>2. QED
    BY <1>1, <1>5, <2>1 DEF SlotsCounted
<1>6. ASSUME NEW i \in Items, ~Using(i), \A j \in Items : Using(j)' <=> (Using(j) \/ j = i),
             held' = IF TakesSlots THEN held + 1 ELSE held, TakesSlots => held < Concurrency
      PROVE  Goal'
  <2>1. S' = S \cup {i} /\ i \notin S
    BY <1>6
  <2>2. Cardinality(S') = Cardinality(S) + 1
    BY <1>2, <2>1, Counting
  <2>3. held' = IF TakesSlots' THEN Cardinality(S') ELSE 0
    BY <1>1, <1>3, <1>4, <1>6, <2>2
  <2>4. TakesSlots' => held' <= Concurrency
    BY <1>1, <1>3, <1>4, <1>6
  <2>5. QED
    BY <2>3, <2>4 DEF SlotsCounted
<1>7. ASSUME NEW i \in Items, Using(i), \A j \in Items : Using(j)' <=> (Using(j) /\ j # i),
             held' = IF TakesSlots THEN held - 1 ELSE held
      PROVE  Goal'
  <2>1. S' = S \ {i} /\ i \in S
    BY <1>7
  <2>2. Cardinality(S') = Cardinality(S) - 1
    BY <1>2, <2>1, Counting
  <2>3. held' = IF TakesSlots' THEN Cardinality(S') ELSE 0
    BY <1>1, <1>3, <1>4, <1>7, <2>2
  <2>4. TakesSlots' => held' <= Concurrency
    BY <1>1, <1>3, <1>4, <1>7
  <2>5. QED
    BY <2>3, <2>4 DEF SlotsCounted
<1>8. pc \in [Items -> {"none", "started", "holding", "answered", "released", "gone"}]
  BY <1>1 DEF TypeOK
<1>9. CASE UNCHANGED vars
  BY <1>5, <1>9 DEF vars, Using
<1>10. CASE Spawn \/ SpawnGivesUp
  BY <1>5, <1>8, <1>10, NextItem DEF Spawn, SpawnGivesUp, Using
<1>11. CASE SpawnWithSlot
  <2>1. ~Using(spawned + 1) /\ spawned + 1 \in Items
    BY <1>11, NextItem DEF SpawnWithSlot, Using
  <2>2. \A j \in Items : Using(j)' <=> (Using(j) \/ j = spawned + 1)
    BY <1>8, <1>11 DEF SpawnWithSlot, Using
  <2>3. QED
    BY <1>6, <1>11, <2>1, <2>2 DEF SpawnWithSlot, TakesSlots
<1>12. ASSUME NEW i \in Items, Acquire(i)
       PROVE  Goal'
  <2>1. ~Using(i) /\ \A j \in Items : Using(j)' <=> (Using(j) \/ j = i)
    BY <1>8, <1>12 DEF Acquire, Using
  <2>2. Limits <=> TakesSlots
    BY <1>1, <1>12 DEF Acquire, SlotFirst, TakesSlots
  <2>3. QED
    BY <1>6, <1>12, <2>1, <2>2 DEF Acquire
<1>13. ASSUME NEW i \in Items, Release(i)
       PROVE  Goal'
  <2>1. Using(i) /\ \A j \in Items : Using(j)' <=> (Using(j) /\ j # i)
    BY <1>8, <1>13 DEF Release, Using
  <2>2. QED
    BY <1>7, <1>13, <2>1 DEF Release, TakesSlots
<1>14. ASSUME NEW i \in Items, GiveUp(i) \/ Work(i) \/ Exit(i)
       PROVE  Goal'
  BY <1>5, <1>8, <1>14 DEF GiveUp, Work, Exit, Using
<1>15. CASE Receive \/ Close \/ Return \/ Cancel \/ \E i \in Items : Panic(i)
  BY <1>5, <1>15 DEF Receive, Close, Return, Cancel, Panic, Using
<1>16. QED
  BY <1>9, <1>10, <1>11, <1>12, <1>13, <1>14, <1>15 DEF Next, Caller, Goroutine

\* The wait group counts the goroutines that have been started and have not
\* ended.
LEMMA NextCountsGoroutines ==
  ASSUME IInv, [Next]_vars
  PROVE  GoroutinesCounted'
<1> DEFINE S == {i \in Items : Running(i)}
<1>1. GoroutinesCounted /\ kind' = kind
  BY DEF IInv, Next, Caller, Goroutine, vars, Spawn, SpawnWithSlot, SpawnGivesUp, Receive,
     Return, Close, Cancel, Acquire, GiveUp, Work, Release, Exit, Panic
<1>2. S \in SUBSET Items
  OBVIOUS
<1>3. Cardinality(S) \in 0 .. N /\ N \in Nat
  BY <1>2, Counting, FanoutAssumption
<1>4. waitGroup = IF kind = "gather" THEN 0 ELSE Cardinality(S)
  BY <1>1 DEF GoroutinesCounted
<1>5. ASSUME waitGroup' = waitGroup, \A i \in Items : Running(i)' <=> Running(i)
      PROVE  GoroutinesCounted'
  <2>1. S' = S
    BY <1>5
  <2>2. QED
    BY <1>1, <1>5, <2>1 DEF GoroutinesCounted
<1>6. ASSUME NEW i \in Items, ~Running(i),
             \A j \in Items : Running(j)' <=> (Running(j) \/ j = i),
             waitGroup' = IF kind = "gather" THEN 0 ELSE waitGroup + 1
      PROVE  GoroutinesCounted'
  <2>1. S' = S \cup {i} /\ i \notin S
    BY <1>6
  <2>2. Cardinality(S') = Cardinality(S) + 1
    BY <1>2, <2>1, Counting
  <2>3. QED
    BY <1>1, <1>3, <1>4, <1>6, <2>2 DEF GoroutinesCounted
<1>7. pc \in [Items -> {"none", "started", "holding", "answered", "released", "gone"}]
  BY DEF IInv, TypeOK
<1>8. CASE UNCHANGED vars
  BY <1>5, <1>8 DEF vars, Running
<1>9. CASE Spawn \/ SpawnWithSlot
  <2>1. ~Running(spawned + 1) /\ spawned + 1 \in Items
    BY <1>9, NextItem DEF Spawn, SpawnWithSlot, Running
  <2>2. \A j \in Items : Running(j)' <=> (Running(j) \/ j = spawned + 1)
    BY <1>7, <1>9 DEF Spawn, SpawnWithSlot, Running
  <2>3. QED
    BY <1>6, <1>9, <2>1, <2>2 DEF Spawn, SpawnWithSlot
<1>10. CASE SpawnGivesUp
  BY <1>5, <1>7, <1>10, NextItem DEF SpawnGivesUp, Running
<1>11. ASSUME NEW i \in Items, Exit(i)
       PROVE  GoroutinesCounted'
  <2>1. Running(i) /\ \A j \in Items : Running(j)' <=> (Running(j) /\ j # i)
    BY <1>7, <1>11 DEF Exit, Running
  <2>2. S' = S \ {i} /\ i \in S
    BY <2>1
  <2>3. Cardinality(S') = Cardinality(S) - 1
    BY <1>2, <2>2, Counting
  <2>4. waitGroup' = IF kind = "gather" THEN 0 ELSE waitGroup - 1
    BY <1>11 DEF Exit
  <2>5. QED
    BY <1>1, <1>3, <1>4, <2>3, <2>4 DEF GoroutinesCounted
<1>12. ASSUME NEW i \in Items, Acquire(i) \/ GiveUp(i) \/ Work(i) \/ Release(i)
       PROVE  GoroutinesCounted'
  BY <1>5, <1>7, <1>12 DEF Acquire, GiveUp, Work, Release, Running
<1>13. CASE Receive \/ Close \/ Return \/ Cancel \/ \E i \in Items : Panic(i)
  BY <1>5, <1>13 DEF Receive, Close, Return, Cancel, Panic, Running
<1>14. QED
  BY <1>8, <1>9, <1>10, <1>11, <1>12, <1>13 DEF Next, Caller, Goroutine

LEMMA NextKeepsOrder ==
  ASSUME IInv, [Next]_vars
  PROVE  InOrder' /\ SlotFirst'
<1> USE DEF InOrder, SlotFirst
<1>1. pc \in [Items -> {"none", "started", "holding", "answered", "released", "gone"}]
  BY DEF IInv, TypeOK
<1>2. spawned \in 0 .. N /\ N \in Nat /\ InOrder /\ SlotFirst
  BY FanoutAssumption DEF IInv, TypeOK
<1>3. CASE UNCHANGED vars
  BY <1>2, <1>3 DEF vars
<1>4. CASE Spawn \/ SpawnWithSlot \/ SpawnGivesUp
  <2>1. \A j \in Items : j > spawned + 1 <=> (j > spawned /\ j # spawned + 1)
    BY <1>2 DEF Items
  <2>2. spawned' = spawned + 1 /\ kind' = kind
    BY <1>4 DEF Spawn, SpawnWithSlot, SpawnGivesUp
  <2>3. PICK v \in {"started", "holding", "gone"} :
           /\ pc' = [pc EXCEPT ![spawned + 1] = v]
           /\ kind = "appends" => v # "started"
    BY <1>4 DEF Spawn, SpawnWithSlot, SpawnGivesUp
  <2>4. QED
    BY <1>1, <1>2, <2>1, <2>2, <2>3
<1>5. ASSUME NEW i \in Items, Goroutine(i)
      PROVE  InOrder' /\ SlotFirst'
  <2>1. /\ pc[i] # "none" /\ spawned' = spawned /\ kind' = kind
        /\ \E v \in {"holding", "answered", "released", "gone"} : pc' = [pc EXCEPT ![i] = v]
    BY <1>5 DEF Goroutine, Acquire, GiveUp, Work, Release, Exit
  <2>2. QED
    BY <1>1, <1>2, <2>1
<1>6. CASE Receive \/ Close \/ Return \/ Cancel \/ \E i \in Items : Panic(i)
  BY <1>2, <1>6 DEF Receive, Close, Return, Cancel, Panic
<1>7. QED
  BY <1>3, <1>4, <1>5, <1>6 DEF Next, Caller

LEMMA NextKeepsTypeOK ==
  ASSUME IInv, [Next]_vars
  PROVE  TypeOK'
<1>1. kind' \in Kinds /\ spawned' \in 0 .. N /\ closed' \in BOOLEAN /\ cancelled' \in BOOLEAN
  <2>1. kind \in Kinds /\ closed \in BOOLEAN /\ cancelled \in BOOLEAN
    BY DEF IInv, TypeOK
  <2>2. spawned \in 0 .. N
    BY DEF IInv, TypeOK
  <2>3. spawned < N => spawned + 1 \in 0 .. N
    BY <2>2, FanoutAssumption
  <2>4. QED
    BY <2>1, <2>2, <2>3 DEF Next, Caller, Goroutine, vars, Spawn, SpawnWithSlot, SpawnGivesUp,
       Receive, Return, Close, Cancel, Acquire, GiveUp, Work, Release, Exit, Panic
<1>2. pc' \in [Items -> {"none", "started", "holding", "answered", "released", "gone"}]
  BY NextItem DEF IInv, TypeOK, Next, Caller, Goroutine, vars, Spawn, SpawnWithSlot,
     SpawnGivesUp, Receive, Return, Close, Cancel, Acquire, GiveUp, Work, Release, Exit, Panic
<1>3. call' \in {"open", "returned", "crashed", "sent on closed"}
  BY DEF IInv, TypeOK, Next, Caller, Goroutine, vars, Spawn, SpawnWithSlot, SpawnGivesUp,
     Receive, Return, Close, Cancel, Acquire, GiveUp, Work, Release, Exit, Panic, Deliver
<1>4. /\ results' \in Seq(Items) /\ Len(results') <= N
      /\ stored' \in [Items -> Nat]
  BY NextKeepsOnce
<1>5. held' \in 0 .. N /\ waitGroup' \in 0 .. N
  <2> DEFINE S == {i \in Items : Using(i)'}
             R == {i \in Items : Running(i)'}
  <2>1. Cardinality(S) \in 0 .. N /\ Cardinality(R) \in 0 .. N /\ 0 \in 0 .. N
    BY Counting, FanoutAssumption
  <2>2. /\ held' = IF TakesSlots' THEN Cardinality(S) ELSE 0
        /\ waitGroup' = IF kind' = "gather" THEN 0 ELSE Cardinality(R)
    BY NextCountsSlots, NextCountsGoroutines DEF SlotsCounted, GoroutinesCounted
  <2>3. QED
    BY <2>1, <2>2
<1>6. QED
  BY <1>1, <1>2, <1>3, <1>4, <1>5 DEF TypeOK

\* The channel is closed when the wait group is at zero, and the loop is
\* through: when every goroutine has ended.
LEMMA NextEndsLast ==
  ASSUME IInv, [Next]_vars
  PROVE  EndsLast'
<1>1. EndsLast /\ InOrder /\ DeliveredOnce /\ GoroutinesCounted
  BY DEF IInv
<1>2. pc \in [Items -> {"none", "started", "holding", "answered", "released", "gone"}]
  BY DEF IInv, TypeOK
<1>3. spawned = N /\ waitGroup = 0 /\ kind # "gather" => AllGone
  <2> SUFFICES ASSUME spawned = N, waitGroup = 0, kind # "gather", NEW i \in Items
               PROVE  pc[i] = "gone"
    BY DEF AllGone
  <2>1. {j \in Items : Running(j)} = {}
    BY <1>1, Counting DEF GoroutinesCounted
  <2>2. ~Running(i)
    BY <2>1
  <2>3. pc[i] # "none"
    BY <1>1, FanoutAssumption DEF InOrder, Items
  <2>4. QED
    BY <1>2, <2>2, <2>3 DEF Running
<1>4. CASE UNCHANGED vars
  BY <1>1, <1>4 DEF vars, EndsLast, AllGone, Answered, Channel
<1>5. CASE Spawn \/ SpawnWithSlot
  <2>1. /\ call' = call /\ call = "open" /\ closed' = closed /\ spawned < N
    BY <1>5 DEF Spawn, SpawnWithSlot
  <2>2. ~closed
    BY <2>1, NextItem, OpenWhileRunning
  <2>3. QED
    BY <2>1, <2>2 DEF EndsLast
<1>6. CASE SpawnGivesUp
  <2>1. call = "open" /\ closed' = closed /\ spawned < N /\ kind' = kind
    BY <1>6 DEF SpawnGivesUp
  <2>2. ~closed
    BY <2>1, NextItem, OpenWhileRunning
  <2>3. call' = call
    BY <1>6, <2>2 DEF SpawnGivesUp, Deliver
  <2>4. QED
    BY <2>1, <2>2, <2>3 DEF EndsLast
<1>7. ASSUME NEW i \in Items, Goroutine(i)
      PROVE  EndsLast'
  <2>1. call = "open" /\ closed' = closed /\ pc[i] # "gone"
    BY <1>7 DEF Goroutine, Acquire, GiveUp, Work, Release, Exit
  <2>2. ~closed
    BY <2>1, OpenWhileRunning
  <2>3. call' = call
    BY <1>7, <2>2 DEF Goroutine, Acquire, GiveUp, Work, Release, Exit, Deliver
  <2>4. QED
    BY <2>1, <2>2, <2>3 DEF EndsLast
<1>8. CASE Close
  BY <1>3, <1>8 DEF Close, EndsLast, AllGone, Channel
<1>9. CASE Receive \/ Cancel \/ \E i \in Items : Panic(i)
  <2>1. /\ kind' = kind /\ pc' = pc /\ closed' = closed
        /\ call = "open" /\ call' \in {"open", "crashed"}
    BY <1>9 DEF Receive, Cancel, Panic
  <2>2. QED
    BY <1>1, <2>1 DEF EndsLast, AllGone, Channel
<1>10. CASE Return
  <2>1. AllGone => \A i \in Items : Answered(i)
    BY DEF AllGone, Answered
  <2>2. kind # "gather" => AllGone
    <3>1. CASE kind \in {"uploads", "appends"}
      BY <1>1, <1>10, <3>1 DEF Return, EndsLast
    <3>2. CASE kind \notin {"uploads", "appends", "gather"}
      BY <1>3, <1>10, <3>2 DEF Return
    <3>3. QED
      BY <3>1, <3>2
  <2>3. ASSUME kind = "gather", NEW i \in Items
        PROVE  Answered(i)
    <3>1. Received = N
      BY <1>10, <2>3 DEF Return
    <3>2. IsFiniteSet(Items) /\ Cardinality(Items) = N
      BY FS_Interval, FanoutAssumption DEF Items
    <3>3. {j \in Items : stored[j] > 0} = Items
      BY <3>1, <3>2, FS_Subset DEF Received
    <3>4. stored[i] = 1
      BY <1>1, <3>3 DEF DeliveredOnce
    <3>5. QED
      BY <1>1, <3>4 DEF DeliveredOnce
  <2>4. \A i \in Items : Answered(i)
    BY <2>1, <2>2, <2>3
  <2>5. QED
    BY <1>1, <1>10, <2>2, <2>4 DEF Return, EndsLast, AllGone, Answered, Channel
<1>11. QED
  BY <1>4, <1>5, <1>6, <1>7, <1>8, <1>9, <1>10 DEF Next, Caller

\* What the counters count and the order of the ends hold throughout.
THEOREM Invariance == Spec => []IInv
<1>1. ASSUME IInv, [Next]_vars
      PROVE  IInv'
  BY <1>1, NextKeepsTypeOK, NextKeepsOrder, NextKeepsOnce, NextCountsSlots,
     NextCountsGoroutines, NextEndsLast DEF IInv
<1>2. QED
  BY <1>1, InitIInv, PTL DEF Spec

\* Every variable keeps its type: among others, the wait group is never below
\* zero, which would be a panic, and no slot is given back that was not taken.
THEOREM TypeCorrect == Spec => []TypeOK
<1>1. IInv => TypeOK
  BY DEF IInv
<1>2. QED
  BY <1>1, Invariance, PTL

\* For any number of items and slots, no more requests run than there are
\* slots, and a call that returns has given every slot back.
THEOREM AlwaysWithinSlots == Spec => []WithinSlots
<1>1. ASSUME IInv
      PROVE  WithinSlots
  <2>1. TakesSlots =>
          Cardinality({i \in Items : pc[i] \in {"holding", "answered"}}) <= Concurrency
    BY <1>1 DEF IInv, SlotsCounted, Using
  <2>2. ASSUME call = "returned"
        PROVE  held = 0
    <3>1. TakesSlots => kind # "gather"
      BY DEF TakesSlots, Limits
    <3>2. TakesSlots => {i \in Items : Using(i)} = {}
      BY <1>1, <2>2, <3>1 DEF IInv, EndsLast, AllGone, Using
    <3>3. Cardinality({}) = 0
      BY FS_EmptySet
    <3>4. QED
      BY <1>1, <3>2, <3>3 DEF IInv, SlotsCounted
  <2>3. QED
    BY <2>1, <2>2 DEF WithinSlots, TakesSlots
<1>2. QED
  BY <1>1, Invariance, PTL

-----------------------------------------------------------------------------
(* The channel has room, and the promise of Batch.                         *)

\* A goroutine never waits to send: the channel has a place for every item,
\* so none is kept from giving back its slot by a caller that is late.
THEOREM ChannelHasRoom ==
  Spec => [](\A i \in Items : Channel /\ ~Answered(i) => Len(results) < N)
<1>1. ASSUME IInv, NEW i \in Items, ~Answered(i)
      PROVE  Len(results) < N
  <2> DEFINE Rest == Items \ {i}
  <2>1. results \in Seq(Items) /\ DeliveredOnce
    BY <1>1 DEF IInv, TypeOK
  <2>2. Len(results) \in Nat /\ results \in [1 .. Len(results) -> Items]
    BY <2>1, LenProperties
  <2>3. \A k \in 1 .. Len(results) : results[k] # i
    BY <1>1, <2>1 DEF DeliveredOnce, Queued
  <2>4. results \in [1 .. Len(results) -> Rest]
    BY <2>2, <2>3
  <2>5. IsFiniteSet(Items) /\ Cardinality(Items) = N
    BY FS_Interval, FanoutAssumption DEF Items
  <2>6. IsFiniteSet(Rest) /\ Cardinality(Rest) = N - 1
    BY <2>5, FS_RemoveElement
  <2>7. /\ IsFiniteSet(1 .. Len(results))
        /\ Cardinality(1 .. Len(results)) = Len(results)
    BY <2>2, FS_Interval
  <2>8. ~(N - 1 < Len(results))
    <3> SUFFICES ASSUME N - 1 < Len(results)
                 PROVE  FALSE
      OBVIOUS
    <3>1. \E j, k \in 1 .. Len(results) : j # k /\ results[j] = results[k]
      BY <2>4, <2>6, <2>7, FS_PigeonHole
    <3>2. QED
      BY <2>1, <3>1 DEF DeliveredOnce
  <2>9. QED
    BY <2>2, <2>8, FanoutAssumption
<1>2. IInv => \A i \in Items : Channel /\ ~Answered(i) => Len(results) < N
  BY <1>1
<1>3. QED
  BY <1>2, Invariance, PTL

\* An item is answered once or not yet.
LEMMA AnswersAre ==
  TypeOK /\ DeliveredOnce => Answers = [i \in Items |-> IF Answered(i) THEN 1 ELSE 0]
<1> SUFFICES ASSUME TypeOK, DeliveredOnce, NEW i \in Items
             PROVE  Answers[i] = IF Answered(i) THEN 1 ELSE 0
  BY DEF Answers
<1> DEFINE Places == {k \in 1 .. Len(results) : results[k] = i}
<1>1. Answers[i] = stored[i] + Cardinality(Places)
  BY DEF Answers
<1>2. CASE Queued(i)
  <2>1. PICK k \in 1 .. Len(results) : results[k] = i
    BY <1>2 DEF Queued
  <2>2. Places = {k}
    BY <2>1 DEF DeliveredOnce
  <2>3. Cardinality(Places) = 1
    BY <2>2, FS_Singleton
  <2>4. stored[i] = 0 /\ Answered(i)
    BY <1>2 DEF DeliveredOnce
  <2>5. QED
    BY <1>1, <2>3, <2>4
<1>3. CASE ~Queued(i)
  <2>1. Places = {}
    BY <1>3 DEF Queued
  <2>2. Cardinality(Places) = 0
    BY <2>1, FS_EmptySet
  <2>3. stored[i] = IF Answered(i) THEN 1 ELSE 0
    BY <1>3 DEF DeliveredOnce
  <2>4. QED
    BY <1>1, <2>2, <2>3
<1>4. QED
  BY <1>2, <1>3

LEMMA InitPromises == Init => Promise!Init
<1> SUFFICES ASSUME Init PROVE Promise!Init
  OBVIOUS
<1>1. TypeOK /\ DeliveredOnce
  BY InitIInv DEF IInv
<1>2. \A i \in Items : ~Answered(i)
  BY DEF Init, Answered
<1>3. QED
  BY <1>1, <1>2, AnswersAre DEF Init, Promise!Init

LEMMA NextPromises ==
  ASSUME IInv, IInv', [Next]_vars
  PROVE  Promise!Next \/ UNCHANGED <<Answers, call>>
<1>1. /\ Answers = [i \in Items |-> IF Answered(i) THEN 1 ELSE 0]
      /\ Answers' = [i \in Items |-> IF Answered(i)' THEN 1 ELSE 0]
  <2>1. (TypeOK /\ DeliveredOnce =>
            Answers = [i \in Items |-> IF Answered(i) THEN 1 ELSE 0])'
    BY AnswersAre, PTL
  <2>2. QED
    BY <2>1, AnswersAre DEF IInv
<1>2. pc \in [Items -> {"none", "started", "holding", "answered", "released", "gone"}]
  BY DEF IInv, TypeOK
<1>3. ASSUME \A i \in Items : Answered(i)' <=> Answered(i)
      PROVE  Answers' = Answers
  BY <1>1, <1>3
<1>4. ASSUME NEW i \in Items, ~Answered(i), call = "open", Deliver(i), ~closed,
             NEW v \in {"answered", "released", "gone"}, pc' = [pc EXCEPT ![i] = v]
      PROVE  Promise!Next
  <2>1. call' = call
    BY <1>4 DEF Deliver
  <2>2. \A j \in Items : Answered(j)' <=> (Answered(j) \/ j = i)
    BY <1>2, <1>4 DEF Answered
  <2>3. Answers[i] = 0 /\ Answers' = [Answers EXCEPT ![i] = 1]
    BY <1>1, <1>4, <2>2
  <2>4. Promise!Answer(i)
    BY <1>4, <2>1, <2>3 DEF Promise!Answer
  <2>5. QED
    BY <2>4 DEF Promise!Next
<1>5. CASE UNCHANGED vars
  BY <1>3, <1>5 DEF vars, Answered
<1>6. CASE Spawn \/ SpawnWithSlot
  <2>1. \A i \in Items : Answered(i)' <=> Answered(i)
    BY <1>2, <1>6, NextItem DEF Spawn, SpawnWithSlot, Answered
  <2>2. QED
    BY <1>3, <1>6, <2>1 DEF Spawn, SpawnWithSlot
<1>7. CASE SpawnGivesUp
  <2>1. /\ spawned + 1 \in Items /\ pc[spawned + 1] = "none" /\ call = "open"
        /\ Deliver(spawned + 1) /\ pc' = [pc EXCEPT ![spawned + 1] = "gone"]
    BY <1>7, NextItem DEF SpawnGivesUp
  <2>2. ~closed /\ ~Answered(spawned + 1)
    BY <2>1, OpenWhileRunning DEF Answered
  <2>3. QED
    BY <1>4, <2>1, <2>2
<1>8. ASSUME NEW i \in Items, GiveUp(i) \/ Work(i)
      PROVE  Promise!Next
  <2>1. ~closed /\ ~Answered(i)
    BY <1>8, OpenWhileRunning DEF GiveUp, Work, Answered
  <2>2. QED
    BY <1>4, <1>8, <2>1 DEF GiveUp, Work
<1>9. ASSUME NEW i \in Items, Acquire(i) \/ Release(i) \/ Exit(i)
      PROVE  UNCHANGED <<Answers, call>>
  <2>1. \A j \in Items : Answered(j)' <=> Answered(j)
    BY <1>2, <1>9 DEF Acquire, Release, Exit, Answered
  <2>2. QED
    BY <1>3, <1>9, <2>1 DEF Acquire, Release, Exit
<1>10. CASE Receive \/ Close \/ Cancel
  <2>1. pc' = pc /\ call' = call
    BY <1>10 DEF Receive, Close, Cancel
  <2>2. QED
    BY <1>3, <2>1 DEF Answered
<1>11. CASE Return
  <2>1. pc' = pc /\ call = "open" /\ call' = "returned"
    BY <1>11 DEF Return
  <2>2. Answers' = Answers
    BY <1>3, <2>1 DEF Answered
  <2>3. \A i \in Items : Answered(i)
    BY <2>1 DEF IInv, EndsLast, Answered
  <2>4. Promise!Return
    BY <1>1, <2>1, <2>2, <2>3 DEF Promise!Return
  <2>5. QED
    BY <2>4 DEF Promise!Next
<1>12. ASSUME NEW i \in Items, Panic(i)
       PROVE  Promise!Next
  <2>1. pc' = pc /\ call = "open" /\ call' = "crashed"
    BY <1>12 DEF Panic
  <2>2. Promise!Crash
    BY <1>3, <2>1 DEF Promise!Crash, Answered
  <2>3. QED
    BY <2>2 DEF Promise!Next
<1>13. QED
  BY <1>5, <1>6, <1>7, <1>8, <1>9, <1>10, <1>11, <1>12 DEF Next, Caller, Goroutine

\* All five fan-outs implement Batch, its fairness aside: whichever goroutine
\* runs when, an item is answered once, and the call returns when all are.
THEOREM Refinement == Spec => Promise!Init /\ [][Promise!Next]_<<Answers, call>>
<1>1. IInv /\ IInv' /\ [Next]_vars => [Promise!Next]_<<Answers, call>>
  BY NextPromises
<1>2. QED
  BY <1>1, InitPromises, Invariance, PTL DEF Spec

=============================================================================
