------------------------------ MODULE SkillEngine ------------------------------
(***************************************************************************)
(* Engine.Run of internal/skill/engine.go executing one parsed skill.      *)
(*                                                                         *)
(* Consecutive parallel steps form a batch and run as goroutines, each on  *)
(* its own copy of the store; any other step runs by itself.  A worker is  *)
(* the execution of one step: its private store, what is left of its each  *)
(* loop, and what runSingleStep is going to return.  The tools are outside *)
(* the engine: a call answers with data, with an error, or panics.         *)
(***************************************************************************)
EXTENDS Integers, Sequences, FiniteSets

CONSTANTS
    Steps,              \* the skill: a sequence of step records
    MaxItems,           \* longest list a tool returns
    Outcomes            \* what tool calls may do: "ok", "error", "panic"

(* A step record has: parallel, onFail (as written in the YAML), each (the *)
(* store key its each expression names, or NoKey), needs (the store keys   *)
(* its arguments mention) and key (where its output goes).                 *)

NoKey == "none"
Index == DOMAIN Steps

\* What the parser's validate lets through.
ASSUME SkillAssumption ==
    /\ Steps \in Seq([parallel : BOOLEAN, onFail : STRING, each : STRING,
                      needs : SUBSET STRING, key : STRING])
    /\ Steps # <<>>
    /\ \A j \in Index : Steps[j].parallel => Steps[j].each = NoKey
    /\ MaxItems \in Nat
    /\ Outcomes \subseteq {"ok", "error", "panic"}

VARIABLES
    next,               \* i of Run: the next step or batch
    store,              \* outputs by key
    reports,            \* result.Steps
    result,             \* "running", "success" or "failed"
    error,              \* step whose message is result.Error; 0 if it is ""
    work                \* the worker of each step

vars == <<next, store, reports, result, error, work>>

(* Outputs: which step produced it, and whether an each expression can     *)
(* iterate over it.  "nil" is the nil slice: a list to a reader of the     *)
(* result, but not to toSlice's caller.                                    *)

Output(j, kind) == [by |-> j, kind |-> kind]

Put(env, k, v) == [x \in DOMAIN env \cup {k} |-> IF x = k THEN v ELSE env[x]]

Report(j, ok) == [step |-> j, ok |-> ok]

Worker(at, env) ==
    [at |-> at, env |-> env, items |-> 0, outs |-> 0, reports |-> <<>>,
     aborted |-> FALSE, broke |-> FALSE]

\* The steps run together with step i: collectParallelBatch, or i alone.
Batch(i) ==
    IF Steps[i].parallel
    THEN {j \in Index : j >= i /\ \A h \in i..j : Steps[h].parallel}
    ELSE {i}

SameBatch(i, j) == \A h \in Index : i <= h /\ h <= j => i = j \/ Steps[h].parallel

Running == {j \in Index : work[j].at \notin {"idle", "joined"}}

-----------------------------------------------------------------------------
Init ==
    /\ next = 1
    /\ store = <<>>
    /\ reports = <<>>
    /\ result = "running"
    /\ error = 0
    /\ work = [j \in Index |-> Worker("idle", <<>>)]

\* Run reaches step next: it starts it, or all goroutines of its batch, on
\* copies of the store.
Start ==
    /\ result = "running"
    /\ next <= Len(Steps)
    /\ Running = {}
    /\ work' = [j \in Index |->
                  IF j \in Batch(next)
                  THEN Worker(IF Steps[j].each = NoKey THEN "render" ELSE "each", store)
                  ELSE work[j]]
    /\ UNCHANGED <<next, store, reports, result, error>>

-----------------------------------------------------------------------------
(* One worker.                                                             *)

Set(j, w) == work' = [work EXCEPT ![j] = w]

\* runEachStep has gone through its items: it stores what succeeded.
EachEnd(j, w) ==
    [w EXCEPT !.at = "done",
              !.env = Put(@, Steps[j].key, Output(j, IF w.outs = 0 THEN "nil" ELSE "list")),
              !.reports = <<Report(j, TRUE)>>]

\* The step fails before or outside a tool call of an item: on_fail decides.
StepFails(j, w) ==
    [w EXCEPT !.at = "done", !.broke = TRUE, !.reports = <<Report(j, FALSE)>>,
              !.aborted = Steps[j].onFail # "skip"]

\* On to the next item.
NextItem(j, w) ==
    IF w.items = 1 THEN EachEnd(j, [w EXCEPT !.items = 0])
                   ELSE [w EXCEPT !.items = @ - 1, !.at = "render"]

\* The same failure while iterating: a skipped item, or the end of the loop.
ItemFails(j, w) ==
    IF Steps[j].onFail = "skip" THEN NextItem(j, [w EXCEPT !.broke = TRUE])
                                ELSE StepFails(j, w)

Fails(j, w) == IF w.items > 0 THEN ItemFails(j, w) ELSE StepFails(j, w)

Iterable(j) ==
    /\ Steps[j].each \in DOMAIN work[j].env
    /\ work[j].env[Steps[j].each].kind = "list"

ResolveEach(j) ==
    /\ work[j].at = "each"
    /\ Iterable(j)
    /\ \E n \in 0..MaxItems :
          Set(j, IF n = 0 THEN EachEnd(j, work[j])
                          ELSE [work[j] EXCEPT !.items = n, !.at = "render"])

\* The expression names no output, or one that is not a list.
ResolveEachFails(j) ==
    /\ work[j].at = "each"
    /\ ~Iterable(j)
    /\ Set(j, StepFails(j, work[j]))

Render(j) ==
    /\ work[j].at = "render"
    /\ Steps[j].needs \subseteq DOMAIN work[j].env
    /\ Set(j, [work[j] EXCEPT !.at = "call"])

RenderFails(j) ==
    /\ work[j].at = "render"
    /\ ~(Steps[j].needs \subseteq DOMAIN work[j].env)
    /\ Set(j, Fails(j, work[j]))

\* Seeded fault: parallel steps write to one store.
CallOk_SharedStore(j) ==
    /\ "ok" \in Outcomes
    /\ work[j].at = "call"
    /\ \E kind \in {"list", "scalar"} :
          work' = [h \in Index |->
             IF h = j THEN [work[j] EXCEPT !.at = "done", !.reports = <<Report(j, TRUE)>>,
                                           !.env = Put(@, Steps[j].key, Output(j, kind))]
             ELSE IF h \in Running
             THEN [work[h] EXCEPT !.env = Put(@, Steps[j].key, Output(j, kind))]
             ELSE work[h]]

\* The tool answers; its output goes to the worker's own store.
CallOk(j) ==
    /\ "ok" \in Outcomes
    /\ work[j].at = "call"
    /\ \E kind \in {"list", "scalar"} :
          LET w == [work[j] EXCEPT !.env = Put(@, Steps[j].key, Output(j, kind))]
          IN  Set(j, IF w.items > 0
                     THEN NextItem(j, [w EXCEPT !.outs = @ + 1])
                     ELSE [w EXCEPT !.at = "done", !.reports = <<Report(j, TRUE)>>])

\* Seeded fault: a failed item is tried again for ever.
CallError_Retries(j) ==
    /\ "error" \in Outcomes
    /\ work[j].at = "call"
    /\ Set(j, [work[j] EXCEPT !.at = "render"])

CallError(j) ==
    /\ "error" \in Outcomes
    /\ work[j].at = "call"
    /\ Set(j, Fails(j, work[j]))

\* The deferred recover fills in a report that is not the function's result:
\* runSingleStep returns its zero values, no report and not aborted.
CallPanics(j) ==
    /\ "panic" \in Outcomes
    /\ work[j].at = "call"
    /\ LET w == [work[j] EXCEPT !.broke = TRUE]
       IN  Set(j, IF w.items > 0 THEN NextItem(j, w) ELSE [w EXCEPT !.at = "done"])

Work(j) ==
    /\ \/ ResolveEach(j) \/ ResolveEachFails(j)
       \/ Render(j) \/ RenderFails(j)
       \/ CallOk(j) \/ CallError(j) \/ CallPanics(j)
    /\ UNCHANGED <<next, store, reports, result, error>>

-----------------------------------------------------------------------------
(* The end of a step or a batch.                                           *)

\* The reports of the batch in the order of its steps.
AllReports[j \in 0..Len(Steps)] ==
    IF j = 0 THEN <<>>
    ELSE AllReports[j - 1] \o (IF j \in Running THEN work[j].reports ELSE <<>>)

\* Seeded fault: the steps' outputs are merged last step first.
Merged_Backwards ==
    LET good(k) == {j \in Running : Steps[j].key = k /\ \E r \in {work[j].reports[i] :
                                           i \in DOMAIN work[j].reports} : r.ok}
        first(k) == CHOOSE j \in good(k) : \A h \in good(k) : j <= h
    IN  [k \in DOMAIN store \cup {Steps[j].key : j \in {h \in Running : good(Steps[h].key) # {}}} |->
            IF good(k) = {} THEN store[k] ELSE work[first(k)].env[k]]

\* The outputs of the batch's successful steps, each over the earlier ones.
MergedUpTo[j \in 0..Len(Steps)] ==
    IF j = 0 THEN store
    ELSE IF j \in Running /\ \E i \in DOMAIN work[j].reports : work[j].reports[i].ok
    THEN Put(MergedUpTo[j - 1], Steps[j].key, work[j].env[Steps[j].key])
    ELSE MergedUpTo[j - 1]

Merged == MergedUpTo[Len(Steps)]

\* Seeded fault: only the last step's abort is kept.
Aborted_LastOnly == \E j \in Running : work[j].aborted /\ \A h \in Running : h <= j

Aborted == \E j \in Running : work[j].aborted

\* result.Error is copied from the last report of the step or batch.
LastError ==
    LET all == AllReports[Len(Steps)]
        r == all[Len(all)]
    IN  IF r.ok THEN 0 ELSE r.step

AllDone == Running # {} /\ \A j \in Running : work[j].at = "done"

\* Seeded fault: the loop's own increment is added to the end of the batch.
Join_SkipsOne ==
    /\ AllDone
    /\ reports' = reports \o AllReports[Len(Steps)]
    /\ store' = IF Steps[next].parallel THEN Merged ELSE work[next].env
    /\ work' = [j \in Index |-> IF j \in Running THEN [work[j] EXCEPT !.at = "joined"]
                                                 ELSE work[j]]
    /\ next' = next + Cardinality(Running) + (IF Steps[next].parallel THEN 1 ELSE 0)
    /\ UNCHANGED <<result, error>>

Join ==
    /\ AllDone
    /\ reports' = reports \o AllReports[Len(Steps)]
    /\ store' = IF Steps[next].parallel THEN Merged ELSE work[next].env
    /\ work' = [j \in Index |-> IF j \in Running THEN [work[j] EXCEPT !.at = "joined"]
                                                 ELSE work[j]]
    /\ IF Aborted
       THEN /\ result' = "failed"
            /\ error' = LastError
            /\ UNCHANGED next
       ELSE /\ next' = next + Cardinality(Running)
            /\ UNCHANGED <<result, error>>

Finish ==
    /\ result = "running"
    /\ next > Len(Steps)
    /\ result' = "success"
    /\ UNCHANGED <<next, store, reports, error, work>>

\* The result has been returned.
Returned == result # "running" /\ UNCHANGED vars

Next == Start \/ Join \/ Finish \/ Returned \/ \E j \in Index : Work(j)

Spec == Init /\ [][Next]_vars

\* Run's own goroutine and those it starts are scheduled; a tool call ends,
\* CallTool gives it a context that times out.
FairSpec == Spec /\ WF_vars(Start \/ Join \/ Finish) /\ \A j \in Index : WF_vars(Work(j))

-----------------------------------------------------------------------------
Outputs == [by : Index, kind : {"list", "scalar", "nil"}]
Keys == {Steps[j].key : j \in Index}
IsStore(f) == DOMAIN f \subseteq Keys /\ \A k \in DOMAIN f : f[k] \in Outputs

TypeOK ==
    /\ next \in 1..Len(Steps) + 1
    /\ IsStore(store)
    /\ reports \in Seq([step : Index, ok : BOOLEAN])
    /\ result \in {"running", "success", "failed"}
    /\ error \in 0..Len(Steps)
    /\ \A j \in Index :
          /\ work[j].at \in {"idle", "each", "render", "call", "done", "joined"}
          /\ IsStore(work[j].env)
          /\ work[j].items \in 0..MaxItems
          /\ work[j].outs \in Nat

\* A parallel step reads what was stored before its batch began and its own
\* output, never a batch mate's, whatever the goroutines' order (the snapshot
\* and the local stores of runParallelBatch; USAGE.md:953).
BatchIsolation ==
    \A j \in Running : \A k \in DOMAIN work[j].env :
       LET by == work[j].env[k].by IN by = j \/ ~SameBatch(by, j)

\* When a batch ends each key holds the output of the last of its steps that
\* succeeded and stores there, in the order of the skill, not of completion.
MergeInOrder ==
    [][Join /\ Steps[next].parallel =>
         \A j \in Running : work[j].reports # <<>> /\ work[j].reports[1].ok =>
            store'[Steps[j].key].by >= j]_vars

\* A step that aborts is the last: no step outside its own batch is started,
\* although its batch mates may still be running and may all succeed.
NothingAfterAbort ==
    \A i, j \in Index :
       i < j /\ work[i].aborted /\ ~SameBatch(i, j) => work[j].at = "idle"

\* A successful run reports its steps in the order of the skill, each once;
\* what it reports as failed was to be skipped, and a step it does not report
\* is one whose tool panicked, about which see DocAbortStops.
SuccessReportsAll ==
    result = "success" =>
       /\ \A i, h \in DOMAIN reports : i < h => reports[i].step < reports[h].step
       /\ \A i \in DOMAIN reports : ~reports[i].ok => Steps[reports[i].step].onFail = "skip"
       /\ \A j \in Index :
             (\A i \in DOMAIN reports : reports[i].step # j) => work[j].broke

\* Every run ends, whatever the tools answer.
RunEnds == <>(result # "running")

-----------------------------------------------------------------------------
(* What the documentation says of the code.                                *)

\* docs/skill-dsl.md:245 and USAGE.md:1037: when a step with on_fail abort,
\* the default, fails, the skill stops; so a skill does not end in success
\* after a tool call of such a step ended in a panic.
DocAbortStops ==
    result = "success" => \A j \in Index : Steps[j].onFail = "abort" => ~work[j].broke

=============================================================================
