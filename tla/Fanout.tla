-------------------------------- MODULE Fanout ---------------------------------
(***************************************************************************)
(* The fan-outs of gwx, one goroutine per item:                            *)
(*                                                                         *)
(*   uploads   BatchUploadFiles: a slot is taken inside the goroutine,     *)
(*             results go through a channel that a closer closes           *)
(*   appends   BatchAppendValues: the slot is taken by the loop that       *)
(*             starts the goroutines, the channel is the same              *)
(*   messages  ListMessages: slots inside, results into an array           *)
(*   fetchers  RunParallel: no slots, an array, and panics are recovered   *)
(*   gather    context_gather, unified_search: no slots, no wait group, as *)
(*             many receives as there are goroutines                       *)
(***************************************************************************)
EXTENDS Integers, Sequences, FiniteSets

CONSTANTS
    N,           \* number of items
    Concurrency  \* slots, after clampConcurrency

ASSUME FanoutAssumption == N \in Nat /\ Concurrency \in Nat \ {0}

Items == 1 .. N

Kinds == {"uploads", "appends", "messages", "fetchers", "gather"}

VARIABLES
    kind,       \* which of them
    spawned,    \* items the loop is through with
    pc,         \* [Items -> none, started, holding, answered, released, gone]
    held,       \* slots in use
    waitGroup,  \* sync.WaitGroup
    results,    \* the channel
    closed,     \* ... closed
    stored,     \* [Items -> how often its element was written or received]
    cancelled,  \* ctx.Done()
    call        \* open, returned, crashed; sent on closed

vars == <<kind, spawned, pc, held, waitGroup, results, closed, stored,
          cancelled, call>>

Channel == kind \in {"uploads", "appends", "gather"}

TypeOK ==
    /\ kind \in Kinds /\ spawned \in 0 .. N
    /\ pc \in [Items -> {"none", "started", "holding", "answered", "released", "gone"}]
    /\ held \in 0 .. N /\ waitGroup \in 0 .. N
    /\ results \in Seq(Items) /\ Len(results) <= N
    /\ closed \in BOOLEAN /\ cancelled \in BOOLEAN
    /\ stored \in [Items -> Nat]
    /\ call \in {"open", "returned", "crashed", "sent on closed"}

Init ==
    /\ kind \in Kinds
    /\ spawned = 0 /\ pc = [i \in Items |-> "none"]
    /\ held = 0 /\ waitGroup = 0
    /\ results = <<>> /\ closed = FALSE /\ stored = [i \in Items |-> 0]
    /\ cancelled \in BOOLEAN /\ call = "open"

-----------------------------------------------------------------------------
\* `results <- r` into a channel with room for all, or `results[i] = r`.  A
\* send on a closed channel would be a panic of a kind of its own.
Deliver(i) ==
    IF ~Channel
    THEN stored' = [stored EXCEPT ![i] = @ + 1] /\ UNCHANGED <<results, call>>
    ELSE IF closed
    THEN call' = "sent on closed" /\ UNCHANGED <<results, stored>>
    ELSE /\ Len(results) < N
         /\ results' = Append(results, i)
         /\ UNCHANGED <<stored, call>>

Spawn ==
    LET i == spawned + 1 IN
    /\ call = "open" /\ spawned < N /\ kind # "appends"
    /\ spawned' = i
    /\ pc' = [pc EXCEPT ![i] = "started"]
    /\ waitGroup' = IF kind = "gather" THEN 0 ELSE waitGroup + 1
    /\ UNCHANGED <<kind, held, results, closed, stored, cancelled, call>>

\* The loop itself waits for a slot, or for the end of the context.
SpawnWithSlot ==
    LET i == spawned + 1 IN
    /\ call = "open" /\ spawned < N /\ kind = "appends"
    /\ held < Concurrency
    /\ spawned' = i
    /\ pc' = [pc EXCEPT ![i] = "holding"]
    /\ held' = held + 1 /\ waitGroup' = waitGroup + 1
    /\ UNCHANGED <<kind, results, closed, stored, cancelled, call>>

\* Seeded fault: wg.Add(1) comes before the select, and the branch of
\* ctx.Done() has no wg.Done().
SpawnGivesUp_NotDone ==
    LET i == spawned + 1 IN
    /\ call = "open" /\ spawned < N /\ kind = "appends"
    /\ cancelled
    /\ spawned' = i
    /\ pc' = [pc EXCEPT ![i] = "gone"]
    /\ waitGroup' = waitGroup + 1
    /\ Deliver(i)
    /\ UNCHANGED <<kind, held, closed, cancelled>>

SpawnGivesUp ==
    LET i == spawned + 1 IN
    /\ call = "open" /\ spawned < N /\ kind = "appends"
    /\ cancelled
    /\ spawned' = i
    /\ pc' = [pc EXCEPT ![i] = "gone"]
    /\ Deliver(i)
    /\ UNCHANGED <<kind, held, waitGroup, closed, cancelled>>

-----------------------------------------------------------------------------
Limits == kind \in {"uploads", "messages"}

\* Seeded fault: the semaphore has room for one more.
Acquire_OneMore(i) ==
    /\ call = "open" /\ pc[i] = "started"
    /\ Limits => held <= Concurrency
    /\ held' = IF Limits THEN held + 1 ELSE held
    /\ pc' = [pc EXCEPT ![i] = "holding"]
    /\ UNCHANGED <<kind, spawned, waitGroup, results, closed, stored, cancelled, call>>

Acquire(i) ==
    /\ call = "open" /\ pc[i] = "started"
    /\ Limits => held < Concurrency
    /\ held' = IF Limits THEN held + 1 ELSE held
    /\ pc' = [pc EXCEPT ![i] = "holding"]
    /\ UNCHANGED <<kind, spawned, waitGroup, results, closed, stored, cancelled, call>>

\* Seeded fault: the goroutine returns without a result.
GiveUp_Silently(i) ==
    /\ call = "open" /\ pc[i] = "started" /\ Limits /\ cancelled
    /\ pc' = [pc EXCEPT ![i] = "released"]
    /\ UNCHANGED <<kind, spawned, held, waitGroup, results, closed, stored, cancelled, call>>

\* ctx.Done() first: an error for the item, and no slot to give back.
GiveUp(i) ==
    /\ call = "open" /\ pc[i] = "started" /\ Limits /\ cancelled
    /\ pc' = [pc EXCEPT ![i] = "released"]
    /\ Deliver(i)
    /\ UNCHANGED <<kind, spawned, held, waitGroup, closed, cancelled>>

\* The item's own work, whether it succeeds or not; a fetcher that panics
\* has the panic for its result.
Work(i) ==
    /\ call = "open" /\ pc[i] = "holding"
    /\ pc' = [pc EXCEPT ![i] = "answered"]
    /\ Deliver(i)
    /\ UNCHANGED <<kind, spawned, held, waitGroup, closed, cancelled>>

Panic(i) ==
    /\ call = "open" /\ pc[i] = "holding" /\ kind # "fetchers"
    /\ call' = "crashed"
    /\ UNCHANGED <<kind, spawned, pc, held, waitGroup, results, closed, stored, cancelled>>

\* The deferred calls, last deferred first.
Release(i) ==
    /\ call = "open" /\ pc[i] = "answered"
    /\ held' = IF Limits \/ kind = "appends" THEN held - 1 ELSE held
    /\ pc' = [pc EXCEPT ![i] = "released"]
    /\ UNCHANGED <<kind, spawned, waitGroup, results, closed, stored, cancelled, call>>

Exit(i) ==
    /\ call = "open" /\ pc[i] = "released"
    /\ waitGroup' = IF kind = "gather" THEN 0 ELSE waitGroup - 1
    /\ pc' = [pc EXCEPT ![i] = "gone"]
    /\ UNCHANGED <<kind, spawned, held, results, closed, stored, cancelled, call>>

-----------------------------------------------------------------------------
\* Started behind the loop: wg.Wait(); close(results).
Close ==
    /\ call = "open" /\ kind \in {"uploads", "appends"}
    /\ spawned = N /\ waitGroup = 0 /\ ~closed
    /\ closed' = TRUE
    /\ UNCHANGED <<kind, spawned, pc, held, waitGroup, results, stored, cancelled, call>>

Receive ==
    /\ call = "open" /\ Channel /\ spawned = N /\ results # <<>>
    /\ stored' = [stored EXCEPT ![Head(results)] = @ + 1]
    /\ results' = Tail(results)
    /\ UNCHANGED <<kind, spawned, pc, held, waitGroup, closed, cancelled, call>>

Received == Cardinality({i \in Items : stored[i] > 0})

\* The range loop ends with the closed channel, wg.Wait() with the last
\* Done, and the gathering with its last receive.
Return ==
    /\ call = "open" /\ spawned = N
    /\ CASE kind = "gather" -> Received = N
         [] kind \in {"uploads", "appends"} -> closed /\ results = <<>>
         [] OTHER -> waitGroup = 0
    /\ call' = "returned"
    /\ UNCHANGED <<kind, spawned, pc, held, waitGroup, results, closed, stored, cancelled>>

Cancel ==
    /\ call = "open" /\ ~cancelled
    /\ cancelled' = TRUE
    /\ UNCHANGED <<kind, spawned, pc, held, waitGroup, results, closed, stored, call>>

-----------------------------------------------------------------------------
Caller == Spawn \/ SpawnWithSlot \/ SpawnGivesUp \/ Receive \/ Return

Goroutine(i) == Acquire(i) \/ GiveUp(i) \/ Work(i) \/ Release(i) \/ Exit(i)

Next ==
    \/ Caller \/ Close \/ Cancel
    \/ \E i \in Items : Goroutine(i) \/ Panic(i)

\* The Go scheduler runs every goroutine that can run; work ends, be it by
\* the timeout of its request.
Spec ==
    /\ Init /\ [][Next]_vars
    /\ WF_vars(Caller) /\ WF_vars(Close)
    /\ \A i \in Items : WF_vars(Goroutine(i))

-----------------------------------------------------------------------------
Answers ==
    [i \in Items |->
        stored[i] + Cardinality({k \in 1 .. Len(results) : results[k] = i})]

Promise == INSTANCE Batch WITH answers <- Answers

\* Every fan-out keeps the promise of Batch: no item is lost or answered
\* twice, the call does not return before the last answer and nobody sends
\* on the closed channel, whichever goroutine runs when and whenever the
\* context ends.
KeepsPromise == Promise!Spec

\* At no time do more requests run than there are slots, wherever the slot
\* is taken, and every slot is given back once.
WithinSlots ==
    /\ Limits \/ kind = "appends" =>
           Cardinality({i \in Items : pc[i] \in {"holding", "answered"}}) <= Concurrency
    /\ call = "returned" => held = 0

\* The call returns, with or without the end of the context, unless a panic
\* ends the process; and no panic of a fetcher does.
Returns ==
    /\ <>(call \in {"returned", "crashed"})
    /\ kind = "fetchers" => <>(call = "returned")

=============================================================================
