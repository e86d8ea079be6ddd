-------------------------- MODULE SkillEngineProofs ---------------------------
(***************************************************************************)
(* The safety properties of SkillEngine, for every skill the parser lets   *)
(* through, lists of any length and whatever the tools answer.             *)
(***************************************************************************)
EXTENDS SkillEngine, FiniteSetTheorems, SequenceTheorems, WellFoundedInduction, TLAPS

-----------------------------------------------------------------------------
(* The inductive invariant                                                 *)

Busy == {"each", "render", "call", "done"}
Stores == UNION {[D -> Outputs] : D \in SUBSET Keys}
Reports == [step : Index, ok : BOOLEAN]
Workers ==
    [at : Busy \cup {"idle", "joined"}, env : Stores, items : 0..MaxItems, outs : Nat,
     reports : Seq(Reports), aborted : BOOLEAN, broke : BOOLEAN]

Types ==
    /\ next \in 1..Len(Steps) + 1
    /\ store \in Stores
    /\ reports \in Seq(Reports)
    /\ result \in {"running", "success", "failed"}
    /\ error \in 0..Len(Steps)
    /\ work \in [Index -> Workers]

\* A batch is never entered in its middle.
BatchBegins ==
    next \in Index /\ next > 1 => ~(Steps[next - 1].parallel /\ Steps[next].parallel)

\* The steps before next are joined, its batch is at work or not begun, and
\* nothing after that batch has begun; a failed run stays at its last batch.
Phase ==
    /\ \A j \in Index : j < next => work[j].at = "joined"
    /\ \/ /\ result # "failed"
          /\ \A j \in Index : j >= next => work[j].at = "idle"
       \/ /\ next \in Index /\ result # "success"
          /\ \A j \in Index : j >= next =>
                /\ j \notin Batch(next) => work[j].at = "idle"
                /\ j \in Batch(next) /\ result = "running" => work[j].at \in Busy
                /\ j \in Batch(next) /\ result = "failed" => work[j].at = "joined"
    /\ result = "success" => next = Len(Steps) + 1

\* The step has produced its output.
Stored(j, w) == Steps[j].key \in DOMAIN w.env /\ w.env[Steps[j].key].by = j

\* How the worker of step j may end: a panic leaves no report.
Ended(j, w) ==
    \/ w.reports = <<>> /\ w.broke /\ ~w.aborted
    \/ w.reports = <<Report(j, TRUE)>> /\ ~w.aborted /\ Stored(j, w)
    \/ w.reports = <<Report(j, FALSE)>> /\ w.broke
          /\ w.aborted = (Steps[j].onFail # "skip")

WorkerOK(j, w) ==
    /\ w.at \notin {"done", "joined"} => w.reports = <<>> /\ ~w.aborted
    /\ w.at \in {"done", "joined"} => Ended(j, w)

\* What a worker reads is its own or was stored before its batch began.
OwnOrEarlier(j, w) == \A k \in DOMAIN w.env : w.env[k].by = j \/ w.env[k].by < next

WorkersOK ==
    \A j \in Index :
       /\ WorkerOK(j, work[j])
       /\ work[j].at \in Busy => OwnOrEarlier(j, work[j])
       /\ j < next => ~work[j].aborted

\* The result of the steps before next.
ReportsOK ==
    result # "failed" =>
       /\ \A k \in DOMAIN store : store[k].by < next
       /\ \A i, h \in DOMAIN reports : i < h => reports[i].step < reports[h].step
       /\ \A i \in DOMAIN reports :
             /\ reports[i].step < next
             /\ reports[i].ok \/ Steps[reports[i].step].onFail = "skip"
       /\ \A j \in Index : j < next =>
             work[j].broke \/ \E i \in DOMAIN reports : reports[i].step = j

IInv == Types /\ BatchBegins /\ Phase /\ WorkersOK /\ ReportsOK

-----------------------------------------------------------------------------
(* Steps, stores and batches                                               *)

LEMMA SkillFacts ==
  /\ Len(Steps) \in Nat \ {0} /\ Index = 1..Len(Steps)
  /\ \A j \in Index : Steps[j].parallel \in BOOLEAN /\ Steps[j].key \in Keys
<1>1. Len(Steps) \in Nat /\ Index = 1..Len(Steps)
  BY SkillAssumption, LenProperties DEF Index
<1>2. Len(Steps) # 0
  BY SkillAssumption, EmptySeq, LenProperties
<1>3. \A j \in Index : Steps[j].parallel \in BOOLEAN
  <2> DEFINE R == [parallel : BOOLEAN, onFail : STRING, each : STRING,
                   needs : SUBSET STRING, key : STRING]
  <2>1. Steps \in Seq(R)
    BY SkillAssumption
  <2>2. \A x \in R : x.parallel \in BOOLEAN
    OBVIOUS
  <2> HIDE DEF R
  <2>3. \A j \in Index : Steps[j] \in R
    BY <1>1, <2>1, ElementOfSeq
  <2>4. QED
    BY <2>2, <2>3
<1>4. QED
  BY <1>1, <1>2, <1>3 DEF Keys

LEMMA PutFacts ==
  \A env \in Stores, k \in Keys, v \in Outputs :
     /\ Put(env, k, v) \in Stores
     /\ DOMAIN Put(env, k, v) = DOMAIN env \cup {k}
     /\ \A x \in DOMAIN Put(env, k, v) :
           Put(env, k, v)[x] = IF x = k THEN v ELSE env[x]
<1> TAKE env \in Stores, k \in Keys, v \in Outputs
<1>1. PICK D \in SUBSET Keys : env \in [D -> Outputs]
  BY DEF Stores
<1>2. Put(env, k, v) \in [D \cup {k} -> Outputs]
  BY <1>1 DEF Put
<1>3. D \cup {k} \in SUBSET Keys
  BY <1>1
<1>4. QED
  BY <1>2, <1>3 DEF Stores, Put

LEMMA StoreFacts ==
  ASSUME NEW env \in Stores
  PROVE  /\ IsStore(env)
         /\ \A k \in DOMAIN env : env[k].by \in Index
<1>1. PICK D \in SUBSET Keys : env \in [D -> Outputs]
  BY DEF Stores
<1>2. QED
  BY <1>1 DEF IsStore, Outputs

LEMMA EmptyStore == <<>> \in Stores
<1>1. <<>> \in [{} -> Outputs]
  OBVIOUS
<1>2. QED
  BY <1>1 DEF Stores

LEMMA LeastOfNaturals ==
  ASSUME NEW T \in SUBSET Nat, T # {}
  PROVE  \E x \in T : \A y \in T : x <= y
<1>1. \E x \in T : \A y \in T : <<y, x>> \notin OpToRel(<, Nat)
  BY NatLessThanWellFounded, WFMin
<1>2. \A x, y \in Nat : <<y, x>> \notin OpToRel(<, Nat) => x <= y
  BY DEF OpToRel
<1>3. QED
  BY <1>1, <1>2

\* A batch is an interval that starts at its first step and that cannot be
\* extended.
LEMMA BatchIsInterval ==
  ASSUME NEW i \in Index
  PROVE  \E e \in Index :
            /\ i <= e /\ Batch(i) = i..e
            /\ e + 1 \in Index => ~(Steps[e].parallel /\ Steps[e + 1].parallel)
            /\ \A j \in i..e : i # e => Steps[j].parallel
<1>1. i \in Nat /\ Len(Steps) \in Nat /\ Index = 1..Len(Steps)
  BY SkillFacts
<1>2. CASE ~Steps[i].parallel
  <2>1. Batch(i) = i..i
    BY <1>1, <1>2 DEF Batch
  <2>2. QED
    BY <1>1, <1>2, <2>1
<1>3. CASE Steps[i].parallel
  <2> DEFINE T == {h \in Nat : h > i /\ (h \in Index => ~Steps[h].parallel)}
  <2>1. Len(Steps) + 1 \in T
    BY <1>1
  <2>2. PICK x \in T : \A y \in T : x <= y
    BY <2>1, LeastOfNaturals
  <2>3. x \in Nat /\ x > i /\ x <= Len(Steps) + 1 /\ (x \in Index => ~Steps[x].parallel)
    BY <2>1, <2>2
  <2>4. \A h \in Index : h >= i /\ h < x => Steps[h].parallel
    BY <1>1, <1>3, <2>2, <2>3
  <2> HIDE DEF T
  <2>5. x - 1 \in Index /\ x - 1 >= i /\ x - 1 + 1 = x
    BY <1>1, <2>3
  <2>6. Batch(i) = i..(x - 1)
    <3>1. Batch(i) = {j \in Index : j >= i /\ \A h \in i..j : Steps[h].parallel}
      BY <1>3 DEF Batch
    <3>2. ASSUME NEW j \in Index, j >= i, \A h \in i..j : Steps[h].parallel
          PROVE  j < x
      <4>1. SUFFICES ASSUME x <= j
                     PROVE  FALSE
        BY <1>1, <2>3
      <4>2. x \in Index /\ x \in i..j
        BY <1>1, <2>3, <4>1
      <4>3. QED
        BY <2>3, <3>2, <4>2
    <3>3. ASSUME NEW j \in Index, j >= i, j < x
          PROVE  \A h \in i..j : Steps[h].parallel
      BY <1>1, <2>3, <2>4, <3>3
    <3>4. \A j : j \in i..(x - 1) <=> j \in Index /\ j >= i /\ j < x
      BY <1>1, <2>3
    <3>5. QED
      BY <3>1, <3>2, <3>3, <3>4
  <2>7. \A j \in i..(x - 1) : Steps[j].parallel
    BY <1>1, <2>3, <2>4
  <2>8. QED
    BY <2>3, <2>5, <2>6, <2>7
<1>4. QED
  BY <1>2, <1>3

-----------------------------------------------------------------------------
(* One worker                                                              *)

\* A worker that has not ended its step.
Pending(j, w) ==
    /\ w \in Workers /\ w.reports = <<>> /\ ~w.aborted /\ OwnOrEarlier(j, w)

\* A worker after one of its actions.
Ran(j, w) == w \in Workers /\ w.at \in Busy /\ WorkerOK(j, w) /\ OwnOrEarlier(j, w)

LEMMA ReportFacts ==
  ASSUME NEW j \in Index, NEW ok \in BOOLEAN
  PROVE  <<Report(j, ok)>> \in Seq(Reports)
<1>1. Report(j, ok) \in Reports
  BY DEF Report, Reports
<1>2. QED
  BY <1>1

\* An output the step puts into its own store.
LEMMA PutOwn ==
  ASSUME NEW j \in Index, NEW w, Pending(j, w), NEW kind \in {"list", "scalar", "nil"}
  PROVE  LET e == Put(w.env, Steps[j].key, Output(j, kind))
         IN  /\ e \in Stores
             /\ Steps[j].key \in DOMAIN e /\ e[Steps[j].key].by = j
             /\ \A k \in DOMAIN e : e[k].by = j \/ e[k].by < next
<1> DEFINE v == Output(j, kind)
           key == Steps[j].key
           env == w.env
           e == Put(env, key, v)
<1>1. v \in Outputs /\ v.by = j
  BY DEF Output, Outputs
<1>2. env \in Stores /\ key \in Keys
  BY SkillFacts DEF Pending, Workers
<1>3. \A k \in DOMAIN env : env[k].by = j \/ env[k].by < next
  BY DEF Pending, OwnOrEarlier
<1> HIDE DEF v, key, env
<1>4. /\ e \in Stores /\ DOMAIN e = DOMAIN env \cup {key}
      /\ \A x \in DOMAIN e : e[x] = IF x = key THEN v ELSE env[x]
  <2>1. Put(env, key, v) \in Stores
    BY ONLY <1>1, <1>2, PutFacts
  <2>2. e = [x \in DOMAIN env \cup {key} |-> IF x = key THEN v ELSE env[x]]
    BY DEF Put
  <2>3. e \in Stores
    BY <2>1
  <2> HIDE DEF e
  <2>4. QED
    BY <2>2, <2>3
<1> HIDE DEF e
<1>5. /\ e \in Stores /\ key \in DOMAIN e /\ e[key].by = j
      /\ \A k \in DOMAIN e : e[k].by = j \/ e[k].by < next
  BY <1>1, <1>3, <1>4
<1>6. QED
  BY <1>5 DEF e, v, key, env

LEMMA EachEndRan ==
  ASSUME NEW j \in Index, NEW w, Pending(j, w)
  PROVE  Ran(j, EachEnd(j, w))
<1> DEFINE kind == IF w.outs = 0 THEN "nil" ELSE "list"
           e == Put(w.env, Steps[j].key, Output(j, kind))
           r == EachEnd(j, w)
<1>1. /\ e \in Stores
      /\ Steps[j].key \in DOMAIN e /\ e[Steps[j].key].by = j
      /\ \A k \in DOMAIN e : e[k].by = j \/ e[k].by < next
  BY PutOwn
<1>2. <<Report(j, TRUE)>> \in Seq(Reports)
  BY ReportFacts
<1>3. r = [w EXCEPT !.at = "done", !.env = e, !.reports = <<Report(j, TRUE)>>]
  BY DEF EachEnd
<1> HIDE DEF kind, e, r
<1>4. /\ r \in Workers /\ r.at = "done" /\ r.env = e /\ r.reports = <<Report(j, TRUE)>>
      /\ r.aborted = w.aborted
  BY <1>1, <1>2, <1>3 DEF Pending, Workers, Busy
<1>5. QED
  BY <1>1, <1>4 DEF Ran, WorkerOK, Ended, Stored, OwnOrEarlier, Busy, Pending, r

LEMMA StepFailsRan ==
  ASSUME NEW j \in Index, NEW w, Pending(j, w)
  PROVE  Ran(j, StepFails(j, w))
<1> DEFINE r == StepFails(j, w)
<1>1. <<Report(j, FALSE)>> \in Seq(Reports)
  BY ReportFacts
<1>2. /\ r \in Workers /\ r.at = "done" /\ r.env = w.env /\ r.reports = <<Report(j, FALSE)>>
      /\ r.broke /\ r.aborted = (Steps[j].onFail # "skip")
  BY <1>1 DEF StepFails, Pending, Workers, Busy
<1> HIDE DEF r
<1>3. QED
  BY <1>2 DEF Ran, WorkerOK, Ended, OwnOrEarlier, Busy, Pending, r

LEMMA NextItemRan ==
  ASSUME NEW j \in Index, NEW w, Pending(j, w), w.items > 0
  PROVE  Ran(j, NextItem(j, w))
<1>1. w.items \in 0..MaxItems /\ MaxItems \in Nat
  BY SkillAssumption DEF Pending, Workers
<1>2. CASE w.items = 1
  <2> DEFINE v == [w EXCEPT !.items = 0]
  <2>1. Pending(j, v)
    BY <1>1 DEF Pending, Workers, OwnOrEarlier
  <2>2. NextItem(j, w) = EachEnd(j, v)
    BY <1>2 DEF NextItem
  <2>3. QED
    BY <2>1, <2>2, EachEndRan
<1>3. CASE w.items # 1
  <2> DEFINE v == [w EXCEPT !.items = @ - 1, !.at = "render"]
  <2>1. w.items - 1 \in 0..MaxItems
    BY <1>1
  <2>2. v \in Workers /\ v.at = "render" /\ v.env = w.env /\ v.reports = <<>> /\ ~v.aborted
    BY <2>1 DEF Pending, Workers, Busy
  <2>3. NextItem(j, w) = v
    BY <1>3 DEF NextItem
  <2> HIDE DEF v
  <2>4. QED
    BY <2>2, <2>3 DEF Ran, WorkerOK, OwnOrEarlier, Busy, Pending
<1>4. QED
  BY <1>2, <1>3

LEMMA FailsRan ==
  ASSUME NEW j \in Index, NEW w, Pending(j, w)
  PROVE  Ran(j, Fails(j, w))
<1> DEFINE v == [w EXCEPT !.broke = TRUE]
<1>1. Pending(j, v) /\ v.items = w.items
  BY DEF Pending, Workers, OwnOrEarlier
<1>2. QED
  BY <1>1, NextItemRan, StepFailsRan DEF Fails, ItemFails

-----------------------------------------------------------------------------
(* The end of a batch                                                      *)

\* The recursion that concatenates defines a function.
LEMMA Concatenation ==
  ASSUME NEW n \in Nat, NEW X
  PROVE  \E g : g = [j \in 0..n |-> IF j = 0 THEN <<>> ELSE g[j - 1] \o X[j]]
<1> DEFINE Defined(m) == \E g : g = [j \in 0..m |-> IF j = 0 THEN <<>> ELSE g[j - 1] \o X[j]]
           bad == {m \in Nat : ~Defined(m)}
<1>1. SUFFICES ASSUME bad # {}
               PROVE  FALSE
  OBVIOUS
<1>2. PICK m \in bad : \A y \in bad : m <= y
  <2> HIDE DEF Defined
  <2>1. bad \in SUBSET Nat
    OBVIOUS
  <2> HIDE DEF bad
  <2>2. QED
    BY <1>1, <2>1, LeastOfNaturals
<1>3. m \in Nat /\ ~Defined(m)
  BY <1>2
<1>4. CASE m = 0
  <2> DEFINE g == [j \in 0..0 |-> <<>>]
  <2>1. \A j \in 0..0 : j = 0
    OBVIOUS
  <2>2. g = [j \in 0..0 |-> IF j = 0 THEN <<>> ELSE g[j - 1] \o X[j]]
    BY <2>1
  <2>3. QED
    BY <1>3, <1>4, <2>2
<1>5. CASE m # 0
  <2>1. m - 1 \in Nat /\ ~(m <= m - 1)
    BY <1>3, <1>5
  <2>2. Defined(m - 1)
    BY <1>2, <2>1
  <2>3. PICK f : f = [j \in 0..(m - 1) |-> IF j = 0 THEN <<>> ELSE f[j - 1] \o X[j]]
    BY <2>2
  <2> DEFINE g == [j \in 0..m |-> IF j = m THEN f[m - 1] \o X[m] ELSE f[j]]
  <2>4. \A j \in 0..(m - 1) : j \in 0..m /\ j # m /\ g[j] = f[j]
    BY <1>3
  <2>5. ASSUME NEW j \in 0..m
        PROVE  g[j] = IF j = 0 THEN <<>> ELSE g[j - 1] \o X[j]
    <3>1. CASE j = m
      <4>1. j # 0 /\ j - 1 \in 0..(m - 1)
        BY <1>3, <1>5, <3>1
      <4>2. g[j] = f[m - 1] \o X[m] /\ g[j - 1] = f[m - 1]
        BY <2>4, <3>1, <4>1
      <4>3. QED
        BY <3>1, <4>1, <4>2
    <3>2. CASE j # m
      <4>1. j \in 0..(m - 1)
        BY <1>3, <3>2
      <4>2. j # 0 => j - 1 \in 0..(m - 1)
        BY <1>3, <4>1
      <4>3. g[j] = f[j] /\ (j # 0 => g[j - 1] = f[j - 1])
        BY <2>4, <4>1, <4>2
      <4>4. f[j] = IF j = 0 THEN <<>> ELSE f[j - 1] \o X[j]
        BY <2>3, <4>1
      <4> HIDE DEF g
      <4>5. QED
        BY <4>3, <4>4
    <3>3. QED
      BY <3>1, <3>2
  <2>6. g = [j \in 0..m |-> IF j = 0 THEN <<>> ELSE g[j - 1] \o X[j]]
    BY <2>5
  <2>7. QED
    BY <1>3, <2>6
<1>6. QED
  BY <1>4, <1>5

Succeeded == {j \in Running : \E i \in DOMAIN work[j].reports : work[j].reports[i].ok}

\* The same for the recursion that overlays the outputs of the steps that
\* succeeded.
LEMMA Overlaying ==
  ASSUME NEW n \in Nat
  PROVE  \E g : g = [j \in 0..n |->
                       IF j = 0 THEN store
                       ELSE IF j \in Succeeded
                       THEN Put(g[j - 1], Steps[j].key, work[j].env[Steps[j].key])
                       ELSE g[j - 1]]
<1> DEFINE a == store
           Next1(e, j) == IF j \in Succeeded
                          THEN Put(e, Steps[j].key, work[j].env[Steps[j].key]) ELSE e
           Defined(m) == \E g : g = [j \in 0..m |-> IF j = 0 THEN a ELSE Next1(g[j - 1], j)]
           bad == {m \in Nat : ~Defined(m)}
<1>1. SUFFICES ASSUME bad # {}
               PROVE  FALSE
  <2>1. Defined(n)
    BY <1>1
  <2>2. QED
    BY <2>1
<1>2. PICK m \in bad : \A y \in bad : m <= y
  <2> HIDE DEF Defined
  <2>1. bad \in SUBSET Nat
    OBVIOUS
  <2> HIDE DEF bad
  <2>2. QED
    BY <1>1, <2>1, LeastOfNaturals
<1> HIDE DEF Next1
<1>3. m \in Nat /\ ~Defined(m)
  BY <1>2
<1>4. CASE m = 0
  <2> DEFINE g == [j \in 0..0 |-> a]
  <2>1. \A j \in 0..0 : j = 0
    OBVIOUS
  <2>2. g = [j \in 0..0 |-> IF j = 0 THEN a ELSE Next1(g[j - 1], j)]
    BY <2>1
  <2>3. QED
    BY <1>3, <1>4, <2>2
<1>5. CASE m # 0
  <2>1. m - 1 \in Nat /\ ~(m <= m - 1)
    BY <1>3, <1>5
  <2>2. Defined(m - 1)
    BY <1>2, <2>1
  <2>3. PICK f : f = [j \in 0..(m - 1) |-> IF j = 0 THEN a ELSE Next1(f[j - 1], j)]
    BY <2>2
  <2> DEFINE g == [j \in 0..m |-> IF j = m THEN Next1(f[m - 1], m) ELSE f[j]]
  <2>4. \A j \in 0..(m - 1) : j \in 0..m /\ j # m /\ g[j] = f[j]
    BY <1>3
  <2>5. ASSUME NEW j \in 0..m
        PROVE  g[j] = IF j = 0 THEN a ELSE Next1(g[j - 1], j)
    <3>1. CASE j = m
      <4>1. j # 0 /\ j - 1 \in 0..(m - 1)
        BY <1>3, <1>5, <3>1
      <4>2. g[j] = Next1(f[m - 1], m) /\ g[j - 1] = f[m - 1]
        BY <2>4, <3>1, <4>1
      <4>3. QED
        BY <3>1, <4>1, <4>2
    <3>2. CASE j # m
      <4>1. j \in 0..(m - 1)
        BY <1>3, <3>2
      <4>2. j # 0 => j - 1 \in 0..(m - 1)
        BY <1>3, <4>1
      <4>3. g[j] = f[j] /\ (j # 0 => g[j - 1] = f[j - 1])
        BY <2>4, <4>1, <4>2
      <4>4. f[j] = IF j = 0 THEN a ELSE Next1(f[j - 1], j)
        BY <2>3, <4>1
      <4> HIDE DEF g
      <4>5. QED
        BY <4>3, <4>4
    <3>3. QED
      BY <3>1, <3>2
  <2>6. g = [j \in 0..m |-> IF j = 0 THEN a ELSE Next1(g[j - 1], j)]
    BY <2>5
  <2>7. QED
    BY <1>3, <2>6
<1>6. QED
  BY <1>4, <1>5

Part(j) == IF j \in Running THEN work[j].reports ELSE <<>>

LEMMA AllReportsUnfold ==
  \A j \in 0..Len(Steps) :
     AllReports[j] = IF j = 0 THEN <<>> ELSE AllReports[j - 1] \o Part(j)
<1> DEFINE n == Len(Steps)
           X == [j \in 1..n |-> Part(j)]
<1>1. n \in Nat
  BY SkillFacts
<1>2. PICK g : g = [j \in 0..n |-> IF j = 0 THEN <<>> ELSE g[j - 1] \o X[j]]
  <2> HIDE DEF X, n
  <2>1. QED
    BY <1>1, Concatenation
<1>3. \A j \in 0..n : j # 0 => X[j] = Part(j)
  BY <1>1
<1> HIDE DEF X
<1>4. g = [j \in 0..n |-> IF j = 0 THEN <<>> ELSE g[j - 1] \o Part(j)]
  BY <1>2, <1>3
<1>5. AllReports = [j \in 0..n |-> IF j = 0 THEN <<>> ELSE AllReports[j - 1] \o Part(j)]
  BY <1>4 DEF AllReports, Part
<1>6. QED
  BY <1>5

LEMMA MergedUnfold ==
  \A j \in 0..Len(Steps) :
     MergedUpTo[j] = IF j = 0 THEN store
                     ELSE IF j \in Succeeded
                     THEN Put(MergedUpTo[j - 1], Steps[j].key, work[j].env[Steps[j].key])
                     ELSE MergedUpTo[j - 1]
<1> DEFINE n == Len(Steps)
<1>1. PICK g : g = [j \in 0..n |-> IF j = 0 THEN store
              ELSE IF j \in Succeeded THEN Put(g[j - 1], Steps[j].key, work[j].env[Steps[j].key])
              ELSE g[j - 1]]
  BY SkillFacts, Overlaying
<1>2. MergedUpTo = [j \in 0..n |-> IF j = 0 THEN store
              ELSE IF j \in Succeeded
              THEN Put(MergedUpTo[j - 1], Steps[j].key, work[j].env[Steps[j].key])
              ELSE MergedUpTo[j - 1]]
  BY <1>1 DEF MergedUpTo, Succeeded
<1>3. QED
  BY <1>2

\* A batch is at its end: the steps that ran are those from next to e.
LEMMA BatchAtItsEnd ==
  ASSUME IInv, AllDone
  PROVE  /\ next \in Index /\ result = "running" /\ Running = Batch(next)
         /\ \A j \in Running : work[j].at = "done" /\ Ended(j, work[j])
         /\ \E e \in Index :
               /\ next <= e /\ Running = next..e /\ Cardinality(Running) = e + 1 - next
               /\ e + 1 \in Index => ~(Steps[e].parallel /\ Steps[e + 1].parallel)
               /\ ~Steps[next].parallel => e = next
<1>1. PICK r \in Index : work[r].at \notin {"idle", "joined"}
  BY DEF AllDone, Running
<1>2. next \in Nat /\ Len(Steps) \in Nat /\ Index = 1..Len(Steps)
  BY SkillFacts DEF IInv, Types
<1>3. /\ next \in Index /\ result # "success"
      /\ \A j \in Index : j >= next =>
            /\ j \notin Batch(next) => work[j].at = "idle"
            /\ j \in Batch(next) /\ result = "running" => work[j].at \in Busy
            /\ j \in Batch(next) /\ result = "failed" => work[j].at = "joined"
  BY <1>1, <1>2 DEF IInv, Phase
<1>4. \A j \in Index : j < next => work[j].at = "joined"
  BY DEF IInv, Phase
<1>5. PICK e \in Index :
         /\ next <= e /\ Batch(next) = next..e
         /\ e + 1 \in Index => ~(Steps[e].parallel /\ Steps[e + 1].parallel)
         /\ \A j \in next..e : next # e => Steps[j].parallel
  BY <1>3, BatchIsInterval
<1>6. r >= next /\ r \in Batch(next) /\ result = "running"
  <2>1. r >= next
    BY <1>1, <1>2, <1>4
  <2>2. r \in Batch(next) /\ result # "failed"
    BY <1>1, <1>3, <2>1
  <2>3. QED
    BY <1>3, <2>1, <2>2 DEF IInv, Types
<1>7. Running = Batch(next)
  <2>1. \A j \in Batch(next) : j \in Index /\ j >= next /\ work[j].at \in Busy
    BY <1>2, <1>3, <1>5, <1>6
  <2>2. \A j \in Index : j \notin Batch(next) => work[j].at \in {"idle", "joined"}
    BY <1>2, <1>3, <1>4
  <2>3. QED
    BY <2>1, <2>2 DEF Running, Busy
<1>8. Cardinality(next..e) = e + 1 - next
  <2>1. e \in Int /\ next \in Int /\ ~(next > e) /\ e - next + 1 = e + 1 - next
    BY <1>2, <1>5
  <2>2. QED
    BY <2>1, FS_Interval
<1>9. \A j \in Running : work[j].at = "done" /\ Ended(j, work[j])
  BY DEF AllDone, Running, IInv, WorkersOK, WorkerOK
<1>10. ~Steps[next].parallel => e = next
  BY <1>2, <1>5
<1>11. QED
  BY <1>3, <1>5, <1>6, <1>7, <1>8, <1>9, <1>10

\* s holds the reports of the steps of the batch up to n, in their order.
ReportsUpTo(n, s) ==
    /\ s \in Seq(Reports)
    /\ \A i \in DOMAIN s : /\ s[i].step \in Running /\ s[i].step <= n
                           /\ work[s[i].step].reports = <<s[i]>>
    /\ \A i, h \in DOMAIN s : i < h => s[i].step < s[h].step
    /\ \A j \in Running : j <= n =>
          work[j].reports = <<>> \/ \E i \in DOMAIN s : s[i].step = j

LEMMA OneReport ==
  ASSUME NEW j \in Index, Ended(j, work[j])
  PROVE  \/ work[j].reports = <<>> /\ work[j].broke /\ ~work[j].aborted
         \/ /\ work[j].reports # <<>>
            /\ \E ok \in BOOLEAN :
                  /\ work[j].reports = <<Report(j, ok)>>
                  /\ ok => ~work[j].aborted /\ Stored(j, work[j])
                  /\ ~ok => work[j].broke /\ work[j].aborted = (Steps[j].onFail # "skip")
<1>1. \A ok : <<Report(j, ok)>> # <<>>
  OBVIOUS
<1>2. QED
  BY <1>1 DEF Ended

LEMMA OneMoreReport ==
  ASSUME NEW n \in Index, NEW s, ReportsUpTo(n - 1, s),
         \A j \in Running : Ended(j, work[j])
  PROVE  ReportsUpTo(n, s \o Part(n))
<1>1. n \in Int /\ \A j \in Running : j \in Int /\ j \in Index
  BY SkillFacts DEF Running
<1>2. /\ s \in Seq(Reports) /\ DOMAIN s = 1..Len(s) /\ Len(s) \in Nat
      /\ \A i \in DOMAIN s : s[i] \in Reports
  BY LenProperties, ElementOfSeq DEF ReportsUpTo
<1>3. \A i \in DOMAIN s : s[i].step \in Int /\ s[i].step <= n - 1 /\ s[i].step < n
  BY <1>1, <1>2 DEF ReportsUpTo
<1>4. CASE Part(n) = <<>>
  <2>1. s \o Part(n) = s
    BY <1>2, <1>4, ConcatEmptySeq
  <2>2. \A j \in Running : j <= n =>
          work[j].reports = <<>> \/ \E i \in DOMAIN s : s[i].step = j
    <3>1. n \in Running => work[n].reports = <<>>
      BY <1>4 DEF Part
    <3>2. \A j \in Running : j <= n => j = n \/ j <= n - 1
      BY <1>1
    <3>3. QED
      BY <3>1, <3>2 DEF ReportsUpTo
  <2>3. \A i \in DOMAIN s : s[i].step <= n
    BY <1>1, <1>3
  <2>4. QED
    BY <2>1, <2>2, <2>3 DEF ReportsUpTo
<1>5. CASE Part(n) # <<>>
  <2>1. n \in Running /\ work[n].reports # <<>>
    BY <1>5 DEF Part
  <2>2. PICK ok \in BOOLEAN : work[n].reports = <<Report(n, ok)>>
    BY <1>1, <2>1, OneReport
  <2> DEFINE r == Report(n, ok)
             t == s \o <<r>>
  <2>3. r \in Reports /\ r.step = n /\ Part(n) = <<r>> /\ work[n].reports = <<r>>
    BY <2>1, <2>2 DEF Report, Reports, Part
  <2> HIDE DEF r
  <2>4. /\ <<r>> \in Seq(Reports) /\ Len(<<r>>) = 1 /\ <<r>>[1] = r
    BY <2>3
  <2>5. /\ t \in Seq(Reports) /\ Len(t) = Len(s) + 1 /\ DOMAIN t = 1..(Len(s) + 1)
        /\ t[Len(s) + 1] = r
        /\ \A i \in DOMAIN s : t[i] = s[i]
    <3>1. t \in Seq(Reports) /\ Len(t) = Len(s) + 1
      BY <1>2, <2>4, ConcatProperties
    <3>2. \A i \in 1..(Len(s) + 1) :
             t[i] = IF i <= Len(s) THEN s[i] ELSE <<r>>[i - Len(s)]
      BY <1>2, <2>4, ConcatProperties
    <3>3. DOMAIN t = 1..(Len(s) + 1)
      BY <3>1, LenProperties
    <3> HIDE DEF t
    <3>4. Len(s) + 1 \in 1..(Len(s) + 1) /\ ~(Len(s) + 1 <= Len(s)) /\ Len(s) + 1 - Len(s) = 1
      BY <1>2
    <3>5. \A i \in DOMAIN s : i \in 1..(Len(s) + 1) /\ i <= Len(s)
      BY <1>2
    <3>6. QED
      BY <2>4, <3>1, <3>2, <3>3, <3>4, <3>5
  <2> HIDE DEF t
  <2>6. \A i \in DOMAIN t : i \in DOMAIN s \/ i = Len(s) + 1
    BY <1>2, <2>5
  <2>7. \A i \in DOMAIN t : /\ t[i].step \in Running /\ t[i].step <= n
                            /\ work[t[i].step].reports = <<t[i]>>
    <3>1. ASSUME NEW i \in DOMAIN s
          PROVE  /\ t[i].step \in Running /\ t[i].step <= n
                 /\ work[t[i].step].reports = <<t[i]>>
      <4>1. s[i].step \in Running /\ work[s[i].step].reports = <<s[i]>>
        BY DEF ReportsUpTo
      <4>2. s[i].step \in Int /\ s[i].step < n
        BY <1>3
      <4>3. QED
        BY <1>1, <2>5, <4>1, <4>2
    <3>2. t[Len(s) + 1] = r /\ r.step <= n
      BY <1>1, <2>3, <2>5
    <3>3. QED
      BY <2>1, <2>3, <2>6, <3>1, <3>2
  <2>8. ASSUME NEW i \in DOMAIN t, NEW h \in DOMAIN t, i < h
        PROVE  t[i].step < t[h].step
    <3>1. i \in DOMAIN s
      BY <1>2, <2>5, <2>6, <2>8
    <3>2. CASE h \in DOMAIN s
      BY <2>5, <2>8, <3>1, <3>2 DEF ReportsUpTo
    <3>3. CASE h = Len(s) + 1
      BY <1>3, <2>3, <2>5, <3>1, <3>3
    <3>4. QED
      BY <2>6, <3>2, <3>3
  <2>9. ASSUME NEW j \in Running, j <= n
        PROVE  work[j].reports = <<>> \/ \E i \in DOMAIN t : t[i].step = j
    <3>1. CASE j = n
      <4>1. Len(s) + 1 \in DOMAIN t
        BY <1>2, <2>5
      <4>2. QED
        BY <2>3, <2>5, <3>1, <4>1
    <3>2. CASE j # n
      <4>1. j <= n - 1
        BY <1>1, <2>9, <3>2
      <4>2. \A i \in DOMAIN s : i \in DOMAIN t
        BY <1>2, <2>5
      <4>3. QED
        BY <2>5, <4>1, <4>2 DEF ReportsUpTo
    <3>3. QED
      BY <3>1, <3>2
  <2>10. ReportsUpTo(n, t)
    BY <2>5, <2>7, <2>8, <2>9 DEF ReportsUpTo
  <2>11. QED
    BY <2>3, <2>10 DEF t
<1>6. QED
  BY <1>4, <1>5

\* Run appends a batch's reports in the order of its steps.
LEMMA BatchReports ==
  ASSUME \A j \in Running : Ended(j, work[j])
  PROVE  ReportsUpTo(Len(Steps), AllReports[Len(Steps)])
<1> DEFINE bad == {n \in Nat : n <= Len(Steps) /\ ~ReportsUpTo(n, AllReports[n])}
<1>1. Len(Steps) \in Nat /\ Index = 1..Len(Steps)
  BY SkillFacts
<1>2. SUFFICES ASSUME bad # {}
               PROVE  FALSE
  BY <1>1
<1>3. PICK n \in bad : \A y \in bad : n <= y
  <2>1. bad \in SUBSET Nat
    OBVIOUS
  <2> HIDE DEF bad
  <2>2. QED
    BY <1>2, <2>1, LeastOfNaturals
<1>4. n \in 0..Len(Steps) /\ n \in Nat /\ ~ReportsUpTo(n, AllReports[n])
  BY <1>1, <1>3
<1>5. CASE n = 0
  <2>1. AllReports[n] = <<>>
    BY <1>4, <1>5, AllReportsUnfold
  <2>2. DOMAIN <<>> = {} /\ <<>> \in Seq(Reports)
    OBVIOUS
  <2>3. \A j \in Running : ~(j <= 0)
    BY <1>1 DEF Running
  <2>4. QED
    BY <1>4, <1>5, <2>1, <2>2, <2>3 DEF ReportsUpTo
<1>6. CASE n # 0
  <2>1. n \in Index /\ n - 1 \in Nat /\ n - 1 <= Len(Steps) /\ ~(n <= n - 1)
    BY <1>1, <1>4, <1>6
  <2>2. ReportsUpTo(n - 1, AllReports[n - 1])
    BY <1>3, <2>1
  <2>3. AllReports[n] = AllReports[n - 1] \o Part(n)
    BY <1>4, <1>6, AllReportsUnfold
  <2> HIDE DEF bad
  <2>4. ReportsUpTo(n, AllReports[n])
    BY <2>1, <2>2, <2>3, OneMoreReport
  <2>5. QED
    BY <1>4, <2>4
<1>7. QED
  BY <1>5, <1>6

\* e is the store overlaid with the outputs of the successful steps up to n.
MergedOK(n, e) ==
    /\ e \in Stores
    /\ \A k \in DOMAIN e : e[k].by \in Running \/ (k \in DOMAIN store /\ e[k] = store[k])
    /\ \A j \in Succeeded : j <= n =>
          Steps[j].key \in DOMAIN e /\ e[Steps[j].key].by >= j

\* The merge keeps the last successful output of each key.
LEMMA BatchMerge ==
  ASSUME Types, \A j \in Running : Ended(j, work[j])
  PROVE  MergedOK(Len(Steps), Merged)
<1> DEFINE bad == {n \in Nat : n <= Len(Steps) /\ ~MergedOK(n, MergedUpTo[n])}
<1>1. Len(Steps) \in Nat /\ Index = 1..Len(Steps)
  BY SkillFacts
<1>2. SUFFICES ASSUME bad # {}
               PROVE  FALSE
  BY <1>1 DEF Merged
<1>3. PICK n \in bad : \A y \in bad : n <= y
  <2>1. bad \in SUBSET Nat
    OBVIOUS
  <2> HIDE DEF bad
  <2>2. QED
    BY <1>2, <2>1, LeastOfNaturals
<1>4. n \in 0..Len(Steps) /\ n \in Nat /\ ~MergedOK(n, MergedUpTo[n])
  BY <1>1, <1>3
<1>5. \A j \in Succeeded : j \in Index /\ j \in Int /\ j \in Running
  BY <1>1 DEF Succeeded, Running
<1>6. CASE n = 0
  <2>1. MergedUpTo[n] = store
    BY <1>4, <1>6, MergedUnfold
  <2>2. \A j \in Succeeded : ~(j <= 0)
    BY <1>1, <1>5
  <2>3. QED
    BY <1>4, <1>6, <2>1, <2>2 DEF MergedOK, Types
<1>7. CASE n # 0
  <2> DEFINE d == MergedUpTo[n - 1]
             e == MergedUpTo[n]
  <2>1. n \in Index /\ n - 1 \in Nat /\ n - 1 <= Len(Steps) /\ ~(n <= n - 1)
    BY <1>1, <1>4, <1>7
  <2>2. MergedOK(n - 1, d)
    BY <1>3, <2>1
  <2>3. e = IF n \in Succeeded THEN Put(d, Steps[n].key, work[n].env[Steps[n].key]) ELSE d
    BY <1>4, <1>7, MergedUnfold
  <2> HIDE DEF bad, d, e
  <2>4. \A j \in Succeeded : j <= n => j = n \/ j <= n - 1
    BY <1>4, <1>5
  <2>5. CASE n \notin Succeeded
    BY <2>2, <2>3, <2>4, <2>5, <1>4 DEF MergedOK, e
  <2>6. CASE n \in Succeeded
    <3> DEFINE key == Steps[n].key
               v == work[n].env[key]
    <3>1. Stored(n, work[n])
      <4>1. PICK i \in DOMAIN work[n].reports : work[n].reports[i].ok
        BY <2>6 DEF Succeeded
      <4>2. work[n].reports # <<>> /\ work[n].reports # <<Report(n, FALSE)>>
        <5>1. DOMAIN <<>> = {}
          OBVIOUS
        <5>2. \A x \in DOMAIN <<Report(n, FALSE)>> : ~<<Report(n, FALSE)>>[x].ok
          BY DEF Report
        <5>3. QED
          BY <4>1, <5>1, <5>2
      <4>3. QED
        BY <1>5, <2>6, <4>2 DEF Ended
    <3>2. key \in Keys /\ v \in Outputs /\ v.by = n
      <4>1. work[n].env \in Stores
        BY <2>1 DEF Types, Workers
      <4>2. PICK D \in SUBSET Keys : work[n].env \in [D -> Outputs]
        BY <4>1 DEF Stores
      <4>3. QED
        BY <3>1, <4>2 DEF Stored
    <3> HIDE DEF key, v
    <3>3. d \in Stores
      BY <2>2 DEF MergedOK
    <3>4. e = Put(d, key, v)
      BY <2>3, <2>6 DEF key, v
    <3>5. /\ e \in Stores /\ DOMAIN e = DOMAIN d \cup {key}
          /\ \A x \in DOMAIN e : e[x] = IF x = key THEN v ELSE d[x]
      BY <3>2, <3>3, <3>4, PutFacts
    <3>6. \A k \in DOMAIN e :
             e[k].by \in Running \/ (k \in DOMAIN store /\ e[k] = store[k])
      BY <1>5, <2>2, <2>6, <3>2, <3>5 DEF MergedOK
    <3>7. ASSUME NEW j \in Succeeded, j <= n
          PROVE  Steps[j].key \in DOMAIN e /\ e[Steps[j].key].by >= j
      <4>1. CASE Steps[j].key = key
        BY <3>2, <3>5, <3>7, <4>1, <1>4, <1>5
      <4>2. CASE Steps[j].key # key
        <5>1. j <= n - 1
          BY <2>4, <3>7, <4>2 DEF key
        <5>2. QED
          BY <2>2, <3>5, <4>2, <5>1 DEF MergedOK
      <4>3. QED
        BY <4>1, <4>2
    <3>8. MergedOK(n, e)
      BY <3>5, <3>6, <3>7 DEF MergedOK
    <3>9. QED
      BY <1>4, <3>8 DEF e
  <2>7. QED
    BY <2>5, <2>6
<1>8. QED
  BY <1>6, <1>7

-----------------------------------------------------------------------------
(* Each action keeps the invariant                                         *)

LEMMA WorkerFacts ==
  ASSUME NEW at \in {"idle", "each", "render"}, NEW env \in Stores
  PROVE  LET w == Worker(at, env)
         IN  /\ w \in Workers /\ w.at = at /\ w.env = env
             /\ w.reports = <<>> /\ ~w.aborted
<1>1. 0 \in 0..MaxItems /\ <<>> \in Seq(Reports)
  BY SkillAssumption
<1>2. QED
  BY <1>1 DEF Worker, Workers, Busy

LEMMA InitIInv == Init => IInv
<1> SUFFICES ASSUME Init
             PROVE  IInv
  OBVIOUS
<1>1. /\ next = 1 /\ store = <<>> /\ reports = <<>> /\ result = "running" /\ error = 0
      /\ work = [j \in Index |-> Worker("idle", <<>>)]
  BY DEF Init
<1>2. Len(Steps) \in Nat \ {0} /\ Index = 1..Len(Steps)
  BY SkillFacts
<1>3. \A j \in Index : /\ work[j] \in Workers /\ work[j].at = "idle"
                       /\ work[j].reports = <<>> /\ ~work[j].aborted
  BY <1>1, EmptyStore, WorkerFacts
<1>4. Types
  <2>1. next \in 1..Len(Steps) + 1 /\ error \in 0..Len(Steps) /\ reports \in Seq(Reports)
    BY <1>1, <1>2
  <2>2. work \in [Index -> Workers]
    BY <1>1, <1>3
  <2>3. QED
    BY <1>1, <2>1, <2>2, EmptyStore DEF Types
<1>5. BatchBegins /\ Phase
  BY <1>1, <1>2, <1>3 DEF BatchBegins, Phase
<1>6. WorkersOK
  BY <1>1, <1>2, <1>3 DEF WorkersOK, WorkerOK, Busy
<1>7. ReportsOK
  <2>1. DOMAIN store = {} /\ DOMAIN reports = {} /\ \A j \in Index : ~(j < next)
    BY <1>1, <1>2
  <2>2. QED
    BY <2>1 DEF ReportsOK
<1>8. QED
  BY <1>4, <1>5, <1>6, <1>7 DEF IInv

LEMMA StartKeepsIInv == IInv /\ Start => IInv'
<1> SUFFICES ASSUME IInv, Start
             PROVE  IInv'
  OBVIOUS
<1> DEFINE B == Batch(next)
           at(j) == IF Steps[j].each = NoKey THEN "render" ELSE "each"
<1>1. /\ result = "running" /\ next <= Len(Steps) /\ Running = {}
      /\ work' = [j \in Index |-> IF j \in B THEN Worker(at(j), store) ELSE work[j]]
      /\ next' = next /\ store' = store /\ reports' = reports /\ result' = result
      /\ error' = error
  BY DEF Start
<1>2. /\ next \in Index /\ Index = 1..Len(Steps) /\ next \in Nat /\ Len(Steps) \in Nat
      /\ store \in Stores /\ work \in [Index -> Workers]
  BY <1>1, SkillFacts DEF IInv, Types
<1>3. \A j \in B : j \in Index /\ j >= next
  BY <1>2 DEF Batch
<1>4. next \in B
  <2>1. \A h \in next..next : h = next
    BY <1>2
  <2>2. QED
    BY <1>2, <2>1 DEF Batch
<1>5. \A j \in Index : j >= next => work[j].at = "idle"
  BY <1>1, <1>2, <1>3, <1>4 DEF IInv, Phase, Running, Busy
<1> HIDE DEF B
<1>6. ASSUME NEW j \in B
      PROVE  /\ work'[j] \in Workers /\ work'[j].at \in {"each", "render"}
             /\ work'[j].env = store
             /\ work'[j].reports = <<>> /\ ~work'[j].aborted
  <2>1. at(j) \in {"idle", "each", "render"} /\ at(j) \in {"each", "render"}
    OBVIOUS
  <2>2. work'[j] = Worker(at(j), store)
    BY <1>1, <1>3
  <2> HIDE DEF at
  <2>3. QED
    BY <1>2, <2>1, <2>2, WorkerFacts
<1>7. \A j \in Index \ B : work'[j] = work[j]
  BY <1>1
<1>8. Types'
  <2>1. work' \in [Index -> Workers]
    <3>1. \A j \in Index : work'[j] \in Workers
      BY <1>2, <1>6, <1>7
    <3> HIDE DEF at
    <3>2. QED
      BY <1>1, <3>1
  <2>2. QED
    BY <1>1, <2>1 DEF IInv, Types
<1>9. BatchBegins'
  BY <1>1 DEF IInv, BatchBegins
<1>10. Batch(next)' = B
  BY <1>1 DEF Batch, B
<1>11. Phase'
  <2>1. \A j \in Index : j < next => work'[j].at = "joined"
    BY <1>2, <1>3, <1>7 DEF IInv, Phase
  <2>2. \A j \in Index : j >= next =>
           /\ j \notin B => work'[j].at = "idle"
           /\ j \in B => work'[j].at \in Busy
    BY <1>5, <1>6, <1>7 DEF Busy
  <2>3. QED
    BY <1>1, <1>2, <1>10, <2>1, <2>2 DEF Phase
<1>12. WorkersOK'
  <2>1. \A k \in DOMAIN store : store[k].by < next
    BY <1>1 DEF IInv, ReportsOK
  <2>2. ASSUME NEW j \in Index
        PROVE  /\ WorkerOK(j, work'[j])
               /\ work'[j].at \in Busy =>
                     \A k \in DOMAIN work'[j].env :
                        work'[j].env[k].by = j \/ work'[j].env[k].by < next
               /\ j < next => ~work'[j].aborted
    <3>1. CASE j \in B
      BY <1>6, <2>1, <3>1 DEF WorkerOK
    <3>2. CASE j \notin B
      BY <1>7, <3>2 DEF IInv, WorkersOK, OwnOrEarlier
    <3>3. QED
      BY <3>1, <3>2
  <2>3. QED
    BY <1>1, <2>2 DEF WorkersOK, OwnOrEarlier, WorkerOK, Ended, Stored
<1>13. ReportsOK'
  <2>1. \A j \in Index : j < next => work'[j] = work[j]
    BY <1>2, <1>3, <1>7
  <2>2. QED
    BY <1>1, <2>1 DEF IInv, ReportsOK
<1>14. QED
  BY <1>8, <1>9, <1>11, <1>12, <1>13 DEF IInv

\* A worker's action changes its own record only, from one that has not ended
\* its step to one that may have.
LEMMA WorkRan ==
  ASSUME IInv, NEW j \in Index, Work(j)
  PROVE  /\ work[j].at \in Busy
         /\ \E w : work' = [work EXCEPT ![j] = w] /\ Ran(j, w)
<1> DEFINE w0 == work[j]
<1>1. /\ w0 \in Workers /\ WorkerOK(j, w0)
      /\ w0.at \in Busy => OwnOrEarlier(j, w0)
  BY DEF IInv, Types, WorkersOK
<1>2. w0.at \in {"each", "render", "call"}
  BY DEF Work, ResolveEach, ResolveEachFails, Render, RenderFails, CallOk, CallError, CallPanics
<1>3. Pending(j, w0) /\ w0.at \in Busy
  BY <1>1, <1>2 DEF Pending, WorkerOK, Busy
<1>4. ASSUME NEW at \in {"render", "call"}, NEW n \in 0..MaxItems
      PROVE  Ran(j, [w0 EXCEPT !.items = n, !.at = at])
  <2> DEFINE v == [w0 EXCEPT !.items = n, !.at = at]
  <2>1. v \in Workers /\ v.at = at /\ v.env = w0.env /\ v.reports = <<>> /\ ~v.aborted
    BY <1>3, <1>4 DEF Pending, Workers, Busy
  <2> HIDE DEF v
  <2>2. QED
    BY <1>3, <2>1 DEF Ran, WorkerOK, OwnOrEarlier, Busy, Pending, v
<1>5. CASE ResolveEach(j)
  <2>1. PICK n \in 0..MaxItems :
           work' = [work EXCEPT ![j] = IF n = 0 THEN EachEnd(j, w0)
                                       ELSE [w0 EXCEPT !.items = n, !.at = "render"]]
    BY <1>5 DEF ResolveEach, Set
  <2>2. QED
    BY <1>3, <1>4, <2>1, EachEndRan
<1>6. CASE ResolveEachFails(j)
  BY <1>3, <1>6, StepFailsRan DEF ResolveEachFails, Set
<1>7. CASE Render(j)
  <2>1. work' = [work EXCEPT ![j] = [w0 EXCEPT !.at = "call"]]
    BY <1>7 DEF Render, Set
  <2>2. w0.items \in 0..MaxItems
    BY <1>1 DEF Workers
  <2>3. [w0 EXCEPT !.at = "call"] = [w0 EXCEPT !.items = w0.items, !.at = "call"]
    BY <1>1 DEF Workers
  <2>4. QED
    BY <1>3, <1>4, <2>1, <2>2, <2>3
<1>8. CASE RenderFails(j) \/ CallError(j)
  BY <1>3, <1>8, FailsRan DEF RenderFails, CallError, Set
<1>9. CASE CallOk(j)
  <2>1. PICK kind \in {"list", "scalar"} :
           LET w == [w0 EXCEPT !.env = Put(@, Steps[j].key, Output(j, kind))]
           IN  work' = [work EXCEPT ![j] =
                  IF w.items > 0 THEN NextItem(j, [w EXCEPT !.outs = @ + 1])
                  ELSE [w EXCEPT !.at = "done", !.reports = <<Report(j, TRUE)>>]]
    BY <1>9 DEF CallOk, Set
  <2> DEFINE e == Put(w0.env, Steps[j].key, Output(j, kind))
             w == [w0 EXCEPT !.env = e]
             more == [w EXCEPT !.outs = @ + 1]
             last == [w EXCEPT !.at = "done", !.reports = <<Report(j, TRUE)>>]
  <2>2. work' = [work EXCEPT ![j] = IF w.items > 0 THEN NextItem(j, more) ELSE last]
    BY <2>1
  <2>3. /\ e \in Stores
        /\ Steps[j].key \in DOMAIN e /\ e[Steps[j].key].by = j
        /\ \A k \in DOMAIN e : e[k].by = j \/ e[k].by < next
    <3>1. kind \in {"list", "scalar", "nil"}
      OBVIOUS
    <3>2. QED
      BY <1>3, <3>1, PutOwn
  <2>4. <<Report(j, TRUE)>> \in Seq(Reports)
    BY ReportFacts
  <2> HIDE DEF e
  <2>5. /\ w \in Workers /\ w.env = e /\ w.at = w0.at /\ w.items = w0.items
        /\ w.reports = <<>> /\ ~w.aborted
    BY <1>3, <2>3 DEF Pending, Workers
  <2> HIDE DEF w
  <2>6. more \in Workers /\ more.env = e /\ more.items = w.items
        /\ more.reports = <<>> /\ ~more.aborted
    BY <2>5 DEF Workers
  <2>7. last \in Workers /\ last.at = "done" /\ last.env = e
        /\ last.reports = <<Report(j, TRUE)>> /\ ~last.aborted
    BY <2>4, <2>5 DEF Workers, Busy
  <2> HIDE DEF more, last
  <2>8. Pending(j, more)
    BY <2>3, <2>6 DEF Pending, OwnOrEarlier
  <2>9. Ran(j, last)
    BY <2>3, <2>7 DEF Ran, WorkerOK, Ended, Stored, OwnOrEarlier, Busy
  <2>10. w.items > 0 => Ran(j, NextItem(j, more))
    BY <2>6, <2>8, NextItemRan
  <2>11. QED
    BY <1>3, <2>2, <2>9, <2>10
<1>10. CASE CallPanics(j)
  <2> DEFINE w == [w0 EXCEPT !.broke = TRUE]
             last == [w EXCEPT !.at = "done"]
  <2>1. work' = [work EXCEPT ![j] = IF w.items > 0 THEN NextItem(j, w) ELSE last]
    BY <1>10 DEF CallPanics, Set
  <2>2. /\ w \in Workers /\ w.env = w0.env /\ w.broke
        /\ w.reports = <<>> /\ ~w.aborted
    BY <1>3 DEF Pending, Workers
  <2> HIDE DEF w
  <2>3. Pending(j, w)
    BY <1>3, <2>2 DEF Pending, OwnOrEarlier
  <2>4. last \in Workers /\ last.at = "done" /\ last.env = w0.env /\ last.broke
        /\ last.reports = <<>> /\ ~last.aborted
    BY <2>2 DEF Workers, Busy
  <2> HIDE DEF last
  <2>5. Ran(j, last)
    BY <1>3, <2>4 DEF Ran, WorkerOK, Ended, OwnOrEarlier, Busy, Pending
  <2>6. QED
    BY <1>3, <2>1, <2>3, <2>5, NextItemRan
<1>11. QED
  BY <1>5, <1>6, <1>7, <1>8, <1>9, <1>10 DEF Work

LEMMA WorkKeepsIInv == ASSUME IInv, NEW j \in Index, Work(j) PROVE IInv'
<1>1. PICK w : work' = [work EXCEPT ![j] = w] /\ Ran(j, w)
  BY WorkRan
<1>2. work[j].at \in Busy
  BY WorkRan
<1>3. UNCHANGED <<next, store, reports, result, error>>
  BY DEF Work
<1>4. /\ work \in [Index -> Workers] /\ w \in Workers /\ w.at \in Busy
      /\ work' \in [Index -> Workers] /\ work'[j] = w
      /\ \A h \in Index \ {j} : work'[h] = work[h]
  BY <1>1 DEF IInv, Types, Ran
<1>5. Types' /\ BatchBegins'
  BY <1>3, <1>4 DEF IInv, Types, BatchBegins
<1>6. j >= next
  <2>1. next \in Int /\ j \in Int
    BY SkillFacts DEF IInv, Types
  <2>2. ~(j < next)
    BY <1>2 DEF IInv, Phase, Busy
  <2>3. QED
    BY <2>1, <2>2
<1>7. next \in Int /\ \A h \in Index : h < next => h # j
  BY <1>6, SkillFacts DEF IInv, Types
<1>8. /\ next \in Index /\ result = "running" /\ j \in Batch(next)
      /\ \A h \in Index : h >= next =>
            /\ h \notin Batch(next) => work[h].at = "idle"
            /\ h \in Batch(next) => work[h].at \in Busy
  BY <1>2, <1>6 DEF IInv, Phase, Busy, Types
<1>9. Batch(next)' = Batch(next)
  BY <1>3 DEF Batch
<1>10. Phase'
  <2>1. \A h \in Index : h < next => work'[h].at = "joined"
    BY <1>4, <1>7 DEF IInv, Phase
  <2>2. \A h \in Index : h >= next =>
            /\ h \notin Batch(next) => work'[h].at = "idle"
            /\ h \in Batch(next) => work'[h].at \in Busy
    BY <1>4, <1>8
  <2>3. QED
    BY <1>3, <1>8, <1>9, <2>1, <2>2 DEF Phase
<1>11. WorkersOK'
  <2>1. ASSUME NEW h \in Index
        PROVE  /\ WorkerOK(h, work'[h])
               /\ work'[h].at \in Busy => OwnOrEarlier(h, work'[h])
               /\ h < next => ~work'[h].aborted
    BY <1>1, <1>4, <1>7 DEF IInv, WorkersOK, Ran
  <2>2. QED
    BY <1>3, <2>1 DEF WorkersOK, OwnOrEarlier, WorkerOK, Ended, Stored
<1>12. ReportsOK'
  BY <1>3, <1>4, <1>7 DEF IInv, ReportsOK
<1>13. QED
  BY <1>5, <1>10, <1>11, <1>12 DEF IInv

LEMMA JoinKeepsIInv == IInv /\ Join => IInv'
<1> SUFFICES ASSUME IInv, Join
             PROVE  IInv'
  OBVIOUS
<1> DEFINE all == AllReports[Len(Steps)]
<1>1. AllDone
  BY DEF Join
<1>2. /\ next \in Index /\ result = "running" /\ Running = Batch(next)
      /\ \A j \in Running : work[j].at = "done" /\ Ended(j, work[j])
  BY <1>1, BatchAtItsEnd
<1>3. PICK e \in Index :
         /\ next <= e /\ Running = next..e /\ Cardinality(Running) = e + 1 - next
         /\ e + 1 \in Index => ~(Steps[e].parallel /\ Steps[e + 1].parallel)
         /\ ~Steps[next].parallel => e = next
  BY <1>1, BatchAtItsEnd
<1>4. next \in Nat /\ e \in Nat /\ Len(Steps) \in Nat \ {0} /\ Index = 1..Len(Steps)
  BY <1>2, <1>3, SkillFacts
<1>5. ReportsUpTo(Len(Steps), all)
  BY <1>2, BatchReports
<1>6. MergedOK(Len(Steps), Merged)
  BY <1>2, BatchMerge DEF IInv
<1> HIDE DEF all
<1>7. /\ work \in [Index -> Workers] /\ store \in Stores
      /\ reports \in Seq(Reports) /\ DOMAIN reports = 1..Len(reports) /\ Len(reports) \in Nat
      /\ error \in 0..Len(Steps)
  BY LenProperties DEF IInv, Types
<1>8. /\ all \in Seq(Reports) /\ DOMAIN all = 1..Len(all) /\ Len(all) \in Nat
      /\ \A i \in DOMAIN all : all[i] \in Reports
  BY <1>5, LenProperties, ElementOfSeq DEF ReportsUpTo
<1>9. /\ reports' = reports \o all
      /\ store' = IF Steps[next].parallel THEN Merged ELSE work[next].env
      /\ work' = [j \in Index |-> IF j \in Running THEN [work[j] EXCEPT !.at = "joined"]
                                  ELSE work[j]]
      /\ Aborted => result' = "failed" /\ error' = LastError /\ next' = next
      /\ ~Aborted => next' = next + Cardinality(Running) /\ result' = result /\ error' = error
  BY DEF Join, all
<1>10. ASSUME NEW j \in Index
       PROVE  /\ work'[j] \in Workers
              /\ j \in Running => work'[j].at = "joined"
              /\ j \notin Running => work'[j] = work[j]
              /\ work'[j].env = work[j].env /\ work'[j].reports = work[j].reports
              /\ work'[j].aborted = work[j].aborted /\ work'[j].broke = work[j].broke
  BY <1>7, <1>9 DEF Workers
<1>11. store' \in Stores
  BY <1>2, <1>6, <1>7, <1>9 DEF MergedOK, Workers
<1>12. reports' \in Seq(Reports)
  BY <1>7, <1>8, <1>9, ConcatProperties
<1>13. work' \in [Index -> Workers]
  BY <1>9, <1>10
<1>14. \A j \in Index : WorkerOK(j, work'[j])
  <2>1. ASSUME NEW j \in Index
        PROVE  WorkerOK(j, work'[j])
    <3>1. CASE j \in Running
      <4> DEFINE w == work[j]
                 x == work'[j]
      <4>1. Ended(j, w)
        BY <1>2, <3>1
      <4>2. /\ x.at = "joined" /\ x.env = w.env /\ x.reports = w.reports
            /\ x.aborted = w.aborted /\ x.broke = w.broke
        BY <1>10, <3>1
      <4> HIDE DEF w, x
      <4>3. WorkerOK(j, x)
        BY ONLY <4>1, <4>2 DEF WorkerOK, Ended, Stored
      <4>4. QED
        BY <4>3 DEF x
    <3>2. CASE j \notin Running
      BY <1>10, <3>2 DEF IInv, WorkersOK
    <3>3. QED
      BY <3>1, <3>2
  <2>2. QED
    BY <2>1
<1>15. \A j \in Index : j < next => work'[j].at = "joined" /\ ~work'[j].aborted
  BY <1>3, <1>4, <1>10 DEF IInv, Phase, WorkersOK
<1>16. \A j \in Index : j > e => work'[j].at = "idle"
  BY <1>2, <1>3, <1>4, <1>10 DEF IInv, Phase, Busy
<1>17. \A j \in Index : j >= next /\ j <= e => work'[j].at = "joined"
  BY <1>3, <1>4, <1>10
<1>18. \A j \in Index : work'[j].at \notin Busy
  <2>1. \A j \in Index : j < next \/ j > e \/ (j >= next /\ j <= e)
    BY <1>4
  <2>2. QED
    BY <2>1, <1>15, <1>16, <1>17 DEF Busy
<1>19. CASE Aborted
  <2>1. result' = "failed" /\ error' = LastError /\ next' = next
    BY <1>9, <1>19
  <2>2. error' \in 0..Len(Steps)
    <3>1. PICK j \in Running : work[j].aborted
      BY <1>19 DEF Aborted
    <3>2. work[j].reports # <<>> /\ j \in Index /\ j <= Len(Steps)
      <4>1. j \in Index /\ j <= Len(Steps)
        BY <1>4 DEF Running
      <4>2. Ended(j, work[j])
        BY <1>2
      <4>3. QED
        BY <3>1, <4>1, <4>2, OneReport
    <3>3. Len(all) \in DOMAIN all
      <4>1. PICK i \in DOMAIN all : all[i].step = j
        BY <1>5, <3>1, <3>2 DEF ReportsUpTo
      <4>2. QED
        BY <1>8, <4>1
    <3>4. all[Len(all)].step \in Index
      BY <1>8, <3>3 DEF Reports
    <3>5. QED
      BY <1>4, <2>1, <3>4 DEF LastError, all
  <2>3. Types'
    BY <1>11, <1>12, <1>13, <2>1, <2>2 DEF IInv, Types
  <2>4. BatchBegins'
    BY <2>1 DEF IInv, BatchBegins
  <2>5. Phase'
    <3>1. Batch(next)' = next..e
      BY <1>2, <1>3, <2>1 DEF Batch
    <3>2. \A j \in Index : j >= next =>
             /\ j \notin next..e => work'[j].at = "idle"
             /\ j \in next..e => work'[j].at = "joined"
      BY <1>4, <1>16, <1>17
    <3>3. QED
      BY <1>2, <1>15, <2>1, <3>1, <3>2 DEF Phase
  <2>6. WorkersOK'
    BY <1>14, <1>15, <1>18, <2>1 DEF WorkersOK, WorkerOK, Ended, Stored
  <2>7. ReportsOK'
    BY <2>1 DEF ReportsOK
  <2>8. QED
    BY <2>3, <2>4, <2>5, <2>6, <2>7 DEF IInv
<1>20. CASE ~Aborted
  <2>1. next' = e + 1 /\ result' = "running" /\ error' = error
    BY <1>2, <1>3, <1>4, <1>9, <1>20
  <2>2. Types'
    BY <1>4, <1>7, <1>11, <1>12, <1>13, <2>1 DEF Types
  <2>3. BatchBegins'
    <3>1. e + 1 - 1 = e
      BY <1>4
    <3>2. QED
      BY <1>3, <2>1, <3>1 DEF BatchBegins
  <2>4. Phase'
    <3>1. \A j \in Index : j < e + 1 => work'[j].at = "joined"
      BY <1>4, <1>15, <1>17
    <3>2. \A j \in Index : j >= e + 1 => work'[j].at = "idle"
      BY <1>4, <1>16
    <3>3. QED
      BY <2>1, <3>1, <3>2 DEF Phase
  <2>5. \A j \in Running : ~work[j].aborted
    BY <1>20 DEF Aborted
  <2>6. WorkersOK'
    <3>1. \A j \in Index : j < e + 1 => ~work'[j].aborted
      <4>1. \A j \in Index : j < e + 1 => j < next \/ j \in Running
        BY <1>3, <1>4
      <4>2. QED
        BY <1>10, <1>15, <2>5, <4>1
    <3>2. QED
      BY <1>14, <1>18, <2>1, <3>1 DEF WorkersOK, WorkerOK, Ended, Stored
  <2>7. \A k \in DOMAIN store' : store'[k].by < e + 1
    <3>1. \A k \in DOMAIN store : store[k].by \in Int /\ store[k].by < next
      BY <1>2, <1>4, <1>7, StoreFacts DEF IInv, ReportsOK
    <3>2. CASE Steps[next].parallel
      <4>1. store' = Merged
        BY <1>9, <3>2
      <4>2. \A k \in DOMAIN Merged :
               \/ Merged[k].by \in next..e
               \/ k \in DOMAIN store /\ Merged[k] = store[k]
        BY <1>3, <1>6 DEF MergedOK
      <4>3. QED
        BY <1>3, <1>4, <3>1, <4>1, <4>2
    <3>3. CASE ~Steps[next].parallel
      <4>1. store' = work[next].env /\ e = next
        BY <1>3, <1>9, <3>3
      <4>2. next \in Running
        BY <1>3, <1>4
      <4>3. OwnOrEarlier(next, work[next])
        BY <1>2, <4>2 DEF IInv, WorkersOK, Busy
      <4>4. work[next].env \in Stores
        BY <1>2, <1>7 DEF Workers
      <4>5. \A k \in DOMAIN work[next].env : work[next].env[k].by \in Int
        BY <1>4, <4>4, StoreFacts
      <4>6. QED
        BY <1>4, <4>1, <4>3, <4>5 DEF OwnOrEarlier
    <3>4. QED
      BY <3>2, <3>3
  <2>8. /\ Len(reports') = Len(reports) + Len(all)
        /\ DOMAIN reports' = 1..(Len(reports) + Len(all))
        /\ \A i \in DOMAIN reports : i \in DOMAIN reports' /\ reports'[i] = reports[i]
        /\ \A i \in DOMAIN all :
              i + Len(reports) \in DOMAIN reports' /\ reports'[i + Len(reports)] = all[i]
        /\ \A i \in DOMAIN reports' :
              i \in DOMAIN reports \/ (i > Len(reports) /\ i - Len(reports) \in DOMAIN all)
    <3>1. /\ Len(reports') = Len(reports) + Len(all)
          /\ \A i \in 1..(Len(reports) + Len(all)) :
                reports'[i] = IF i <= Len(reports) THEN reports[i] ELSE all[i - Len(reports)]
      BY <1>7, <1>8, <1>9, ConcatProperties
    <3>2. DOMAIN reports' = 1..(Len(reports) + Len(all))
      BY <1>12, <3>1, LenProperties
    <3>3. ASSUME NEW i \in DOMAIN all
          PROVE  i + Len(reports) \in DOMAIN reports' /\ reports'[i + Len(reports)] = all[i]
      <4>1. /\ i + Len(reports) \in 1..(Len(reports) + Len(all))
            /\ ~(i + Len(reports) <= Len(reports)) /\ i + Len(reports) - Len(reports) = i
        BY <1>7, <1>8
      <4>2. QED
        BY <3>1, <3>2, <4>1
    <3>4. \A i \in DOMAIN reports : i \in 1..(Len(reports) + Len(all)) /\ i <= Len(reports)
      BY <1>7, <1>8
    <3>5. \A i \in 1..(Len(reports) + Len(all)) :
             i \in DOMAIN reports \/ (i > Len(reports) /\ i - Len(reports) \in DOMAIN all)
      BY <1>7, <1>8
    <3>6. QED
      BY <3>1, <3>2, <3>3, <3>4, <3>5
  <2>9. \A i \in DOMAIN reports :
           /\ reports[i].step \in Int /\ reports[i].step < next
           /\ reports[i].ok \/ Steps[reports[i].step].onFail = "skip"
    <3>1. \A i \in DOMAIN reports : reports[i] \in Reports
      BY <1>7, ElementOfSeq
    <3>2. QED
      BY <1>2, <1>4, <3>1 DEF IInv, ReportsOK, Reports
  <2>10. \A i \in DOMAIN all :
            /\ all[i].step \in Int /\ all[i].step >= next /\ all[i].step <= e
            /\ all[i].ok \/ Steps[all[i].step].onFail = "skip"
    <3>1. ASSUME NEW i \in DOMAIN all
          PROVE  /\ all[i].step \in Int /\ all[i].step >= next /\ all[i].step <= e
                 /\ all[i].ok \/ Steps[all[i].step].onFail = "skip"
      <4> DEFINE j == all[i].step
      <4>1. j \in Running /\ work[j].reports = <<all[i]>>
        BY <1>5 DEF ReportsUpTo
      <4>2. j \in Index /\ Ended(j, work[j]) /\ ~work[j].aborted
        BY <1>2, <2>5, <4>1 DEF Running
      <4>3. PICK ok \in BOOLEAN :
               /\ work[j].reports = <<Report(j, ok)>>
               /\ ~ok => work[j].aborted = (Steps[j].onFail # "skip")
        <5>1. work[j].reports # <<>>
          BY <4>1
        <5> HIDE DEF j
        <5>2. QED
          BY <4>2, <5>1, OneReport
      <4>4. all[i].ok = ok
        <5>1. <<all[i]>>[1] = <<Report(j, ok)>>[1]
          BY <4>1, <4>3
        <5>2. all[i] = Report(j, ok)
          BY <5>1
        <5>3. QED
          BY <5>2 DEF Report
      <4>5. all[i].ok \/ Steps[j].onFail = "skip"
        BY <4>2, <4>3, <4>4
      <4>6. j \in Int /\ j >= next /\ j <= e
        BY <1>3, <1>4, <4>1
      <4>7. QED
        BY <4>5, <4>6
    <3>2. QED
      BY <3>1
  <2>11. ASSUME NEW i \in DOMAIN reports', NEW h \in DOMAIN reports', i < h
         PROVE  reports'[i].step < reports'[h].step
    <3>1. i \in Int /\ h \in Int
      BY <1>7, <1>8, <2>8
    <3>2. CASE h \in DOMAIN reports
      <4>1. i \in DOMAIN reports
        BY <1>7, <2>8, <2>11, <3>1, <3>2
      <4>2. QED
        BY <1>2, <2>8, <2>11, <3>2, <4>1 DEF IInv, ReportsOK
    <3>3. CASE h - Len(reports) \in DOMAIN all /\ i \in DOMAIN reports
      <4>1. h - Len(reports) + Len(reports) = h
        BY <1>7, <3>1
      <4>2. reports'[h] = all[h - Len(reports)] /\ reports'[i] = reports[i]
        BY <2>8, <3>3, <4>1
      <4>3. QED
        BY <1>4, <2>9, <2>10, <3>3, <4>2
    <3>4. CASE h - Len(reports) \in DOMAIN all /\ i - Len(reports) \in DOMAIN all
      <4>1. /\ h - Len(reports) + Len(reports) = h /\ i - Len(reports) + Len(reports) = i
            /\ i - Len(reports) < h - Len(reports)
        BY <1>7, <2>11, <3>1
      <4>2. reports'[h] = all[h - Len(reports)] /\ reports'[i] = all[i - Len(reports)]
        BY <2>8, <3>4, <4>1
      <4>3. QED
        BY <1>5, <3>4, <4>1, <4>2 DEF ReportsUpTo
    <3>5. QED
      BY <2>8, <3>2, <3>3, <3>4
  <2>12. ASSUME NEW i \in DOMAIN reports'
         PROVE  /\ reports'[i].step < e + 1
                /\ reports'[i].ok \/ Steps[reports'[i].step].onFail = "skip"
    <3>1. CASE i \in DOMAIN reports
      BY <1>3, <1>4, <2>8, <2>9, <3>1
    <3>2. CASE i - Len(reports) \in DOMAIN all
      <4>1. i - Len(reports) + Len(reports) = i
        BY <1>7, <1>8, <2>8
      <4>2. reports'[i] = all[i - Len(reports)]
        BY <2>8, <3>2, <4>1
      <4>3. QED
        BY <1>4, <2>10, <3>2, <4>2
    <3>3. QED
      BY <2>8, <3>1, <3>2
  <2>13. ASSUME NEW j \in Index, j < e + 1
         PROVE  work'[j].broke \/ \E i \in DOMAIN reports' : reports'[i].step = j
    <3>1. CASE j < next
      <4>1. work[j].broke \/ \E i \in DOMAIN reports : reports[i].step = j
        BY <1>2, <3>1 DEF IInv, ReportsOK
      <4>2. QED
        BY <1>10, <2>8, <4>1
    <3>2. CASE ~(j < next)
      <4>1. j \in Running /\ j <= Len(Steps)
        BY <1>3, <1>4, <2>13, <3>2
      <4>2. work[j].broke \/ work[j].reports # <<>>
        BY <1>2, <4>1, OneReport
      <4>3. work[j].reports # <<>> => \E i \in DOMAIN all : all[i].step = j
        BY <1>5, <4>1 DEF ReportsUpTo
      <4>4. QED
        BY <1>10, <2>8, <4>2, <4>3
    <3>3. QED
      BY <3>1, <3>2
  <2>14. ReportsOK'
    BY <2>1, <2>7, <2>11, <2>12, <2>13 DEF ReportsOK
  <2>15. QED
    BY <2>2, <2>3, <2>4, <2>6, <2>14 DEF IInv
<1>21. QED
  BY <1>19, <1>20

LEMMA FinishKeepsIInv == IInv /\ Finish => IInv'
<1> SUFFICES ASSUME IInv, Finish
             PROVE  IInv'
  OBVIOUS
<1>1. /\ result = "running" /\ next > Len(Steps) /\ result' = "success"
      /\ next' = next /\ store' = store /\ reports' = reports /\ error' = error /\ work' = work
  BY DEF Finish
<1>2. next = Len(Steps) + 1 /\ next \notin Index
  BY <1>1, SkillFacts DEF IInv, Types
<1>3. Types' /\ BatchBegins'
  BY <1>1 DEF IInv, Types, BatchBegins
<1>4. Phase'
  BY <1>1, <1>2 DEF IInv, Phase
<1>5. WorkersOK'
  BY <1>1 DEF IInv, WorkersOK, OwnOrEarlier, WorkerOK, Ended, Stored
<1>6. ReportsOK'
  BY <1>1 DEF IInv, ReportsOK
<1>7. QED
  BY <1>3, <1>4, <1>5, <1>6 DEF IInv

LEMMA StutterKeepsIInv == IInv /\ UNCHANGED vars => IInv'
<1> SUFFICES ASSUME IInv, UNCHANGED vars
             PROVE  IInv'
  OBVIOUS
<1>1. /\ next' = next /\ store' = store /\ reports' = reports /\ result' = result
      /\ error' = error /\ work' = work
  BY DEF vars
<1>2. Types' /\ BatchBegins' /\ ReportsOK'
  BY <1>1 DEF IInv, Types, BatchBegins, ReportsOK
<1>3. Phase'
  BY <1>1 DEF IInv, Phase, Batch
<1>4. WorkersOK'
  BY <1>1 DEF IInv, WorkersOK, OwnOrEarlier, WorkerOK, Ended, Stored
<1>5. QED
  BY <1>2, <1>3, <1>4 DEF IInv

-----------------------------------------------------------------------------
(* The theorems                                                            *)

LEMMA NextKeepsIInv == IInv /\ [Next]_vars => IInv'
BY StartKeepsIInv, JoinKeepsIInv, FinishKeepsIInv, WorkKeepsIInv, StutterKeepsIInv
   DEF Next, Returned

\* In every reachable state the run is at one batch, the steps before it are
\* joined, the ones after it have not begun, and each worker's record agrees
\* with what runSingleStep is going to return.
THEOREM Invariance == Spec => []IInv
BY InitIInv, NextKeepsIInv, PTL DEF Spec

\* Each variable keeps its type, and each store maps keys of the skill to
\* outputs of its steps.
THEOREM TypeCorrect == Spec => []TypeOK
<1>1. IInv => TypeOK
  <2> SUFFICES ASSUME IInv
               PROVE  TypeOK
    OBVIOUS
  <2>1. \A j \in Index : work[j] \in Workers /\ IsStore(work[j].env)
    BY StoreFacts DEF IInv, Types, Workers
  <2>2. \A w \in Workers :
           /\ w.at \in {"idle", "each", "render", "call", "done", "joined"}
           /\ w.items \in 0..MaxItems /\ w.outs \in Nat
    BY DEF Workers, Busy
  <2>3. QED
    BY <2>1, <2>2, StoreFacts DEF IInv, Types, TypeOK, Reports
<1>2. QED
  BY Invariance, <1>1, PTL

\* Where the run is: a step that has begun and is not joined is in the batch
\* at next, which is the whole of the parallel steps around it.
LEMMA InBatch ==
  ASSUME IInv, NEW j \in Index, j >= next, work[j].at # "idle"
  PROVE  /\ next \in Index /\ j \in Batch(next)
         /\ \A i \in Index : i >= next /\ i < j => SameBatch(i, j)
         /\ \A i \in Index : i < next => ~SameBatch(i, j)
<1>1. /\ Index = 1..Len(Steps) /\ Len(Steps) \in Nat /\ next \in Nat
      /\ \A h \in Index : Steps[h].parallel \in BOOLEAN
  BY SkillFacts DEF IInv, Types
<1>2. next \in Index /\ j \in Batch(next)
  BY DEF IInv, Phase
<1>3. PICK e \in Index :
         next <= e /\ Batch(next) = next..e /\ \A h \in next..e : next # e => Steps[h].parallel
  BY <1>2, BatchIsInterval
<1>4. ASSUME NEW i \in Index, i >= next, i < j
      PROVE  SameBatch(i, j)
  BY <1>1, <1>2, <1>3, <1>4 DEF SameBatch
<1>5. ASSUME NEW i \in Index, i < next, SameBatch(i, j)
      PROVE  FALSE
  <2>1. /\ next - 1 \in Index /\ i <= next - 1 /\ next - 1 <= j
        /\ i <= next /\ next <= j /\ i # j /\ next > 1
    BY <1>1, <1>2, <1>5
  <2>2. Steps[next - 1].parallel /\ Steps[next].parallel
    BY <1>2, <1>5, <2>1 DEF SameBatch
  <2>3. QED
    BY <1>2, <2>1, <2>2 DEF IInv, BatchBegins
<1>6. QED
  BY <1>2, <1>4, <1>5

\* The steps of a batch run on copies of one store and in any order, and none
\* ever reads what another of the batch has produced.
THEOREM BatchesAreIsolated == Spec => []BatchIsolation
<1>1. IInv => BatchIsolation
  <2> SUFFICES ASSUME IInv, NEW j \in Running, NEW k \in DOMAIN work[j].env
               PROVE  work[j].env[k].by = j \/ ~SameBatch(work[j].env[k].by, j)
    BY DEF BatchIsolation
  <2> DEFINE by == work[j].env[k].by
  <2>1. /\ j \in Index /\ work[j].at # "idle" /\ work[j].at # "joined"
        /\ work[j] \in Workers
    BY DEF Running, IInv, Types
  <2>2. work[j].at \in Busy
    BY <2>1 DEF Workers
  <2>3. by = j \/ by < next
    BY <2>1, <2>2 DEF IInv, WorkersOK, OwnOrEarlier
  <2>4. by \in Index
    BY <2>1, StoreFacts DEF Workers
  <2>5. j >= next
    <3>1. j \in Int /\ next \in Int
      BY <2>1, SkillFacts DEF IInv, Types
    <3>2. ~(j < next)
      BY <2>1 DEF IInv, Phase
    <3>3. QED
      BY <3>1, <3>2
  <2> HIDE DEF by
  <2>6. by = j \/ ~SameBatch(by, j)
    BY <2>1, <2>3, <2>4, <2>5, InBatch
  <2>7. QED
    BY <2>6 DEF by
<1>2. QED
  BY Invariance, <1>1, PTL

\* No step after the batch of one that aborted is ever started.
THEOREM AbortIsTheLast == Spec => []NothingAfterAbort
<1>1. IInv => NothingAfterAbort
  <2> SUFFICES ASSUME IInv, NEW i \in Index, NEW j \in Index,
                      i < j, work[i].aborted, ~SameBatch(i, j), work[j].at # "idle"
               PROVE  FALSE
    BY DEF NothingAfterAbort
  <2>1. i \in Int /\ j \in Int /\ next \in Int
    BY SkillFacts DEF IInv, Types
  <2>2. ~(i < next)
    BY DEF IInv, WorkersOK
  <2>3. i >= next /\ j >= next
    BY <2>1, <2>2
  <2>4. QED
    BY <2>3, InBatch
<1>2. QED
  BY Invariance, <1>1, PTL

\* What a successful run returns: the reports in the order of the skill, each
\* step once, failures only where on_fail is skip, and no step without a
\* report but those whose tool panicked.
THEOREM SuccessIsComplete == Spec => []SuccessReportsAll
<1>1. IInv => SuccessReportsAll
  <2> SUFFICES ASSUME IInv, result = "success"
               PROVE  SuccessReportsAll
    BY DEF SuccessReportsAll
  <2>1. next = Len(Steps) + 1
    BY DEF IInv, Phase
  <2>2. \A j \in Index : j < next
    BY <2>1, SkillFacts
  <2>3. QED
    BY <2>2 DEF IInv, ReportsOK, SuccessReportsAll
<1>2. QED
  BY Invariance, <1>1, PTL

\* Whatever the order in which the goroutines of a batch end, its merge
\* leaves at each key the output of the last of its successful steps.
THEOREM MergesInOrder == Spec => MergeInOrder
<1>1. ASSUME IInv, Join, Steps[next].parallel, NEW j \in Running,
             work[j].reports # <<>>, work[j].reports[1].ok
      PROVE  store'[Steps[j].key].by >= j
  <2>1. MergedOK(Len(Steps), Merged)
    <3>1. \A h \in Running : Ended(h, work[h])
      BY <1>1, BatchAtItsEnd DEF Join
    <3>2. QED
      BY <1>1, <3>1, BatchMerge DEF IInv
  <2>2. store' = Merged
    BY <1>1 DEF Join
  <2>3. j \in Index /\ j <= Len(Steps)
    BY SkillFacts DEF Running
  <2>4. j \in Succeeded
    <3>1. work[j].reports \in Seq(Reports)
      BY <1>1, <2>3 DEF IInv, Types, Workers
    <3>2. 1 \in DOMAIN work[j].reports
      BY <1>1, <3>1, EmptySeq, LenProperties
    <3>3. QED
      BY <1>1, <3>2 DEF Succeeded
  <2>5. QED
    BY <2>1, <2>2, <2>3, <2>4 DEF MergedOK
<1>2. IInv /\ [Next]_vars =>
        [Join /\ Steps[next].parallel =>
            \A j \in Running : work[j].reports # <<>> /\ work[j].reports[1].ok =>
               store'[Steps[j].key].by >= j]_vars
  BY <1>1
<1>3. QED
  BY Invariance, <1>2, PTL DEF Spec, MergeInOrder

=============================================================================
