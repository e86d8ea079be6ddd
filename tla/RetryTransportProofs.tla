------------------------- MODULE RetryTransportProofs -------------------------
(***************************************************************************)
(* Proofs about RetryTransport, for every number of callers, every         *)
(* threshold, window and retry budget.                                     *)
(***************************************************************************)
EXTENDS RetryTransport, FiniteSetTheorems, TLAPS

-----------------------------------------------------------------------------
(* The breaker's methods, by themselves.                                   *)

\* A step of the breaker that any action of the composed system takes.
BreakerStep ==
    IsOpenTrue \/ IsOpenFalse \/ RecordSuccess \/ RecordFailure \/ BreakerTick
       \/ UNCHANGED breakerVars

\* Whichever method runs, the flag and the counter keep agreeing.
LEMMA BreakerStepKeepsConsistency ==
  ASSUME BreakerTypeOK, BreakerConsistent, BreakerStep
  PROVE  BreakerTypeOK' /\ BreakerConsistent'
<1> USE BreakerAssumption
<1>1. CASE IsOpenTrue \/ UNCHANGED breakerVars
  BY <1>1 DEF IsOpenTrue, breakerVars, BreakerTypeOK, BreakerConsistent
<1>2. CASE failures' = 0 /\ open' = FALSE /\ UNCHANGED sinceFailure
  <2>1. BreakerTypeOK'
    BY <1>2 DEF BreakerTypeOK
  <2>2. ~open' /\ ~(failures' >= FailureThreshold)
    BY <1>2
  <2>3. QED
    BY <2>1, <2>2 DEF BreakerConsistent
<1>3. CASE RecordFailure
  <2>1. BreakerTypeOK'
    BY <1>3 DEF RecordFailure, BreakerTypeOK
  <2>2. open' <=> (open \/ failures + 1 >= FailureThreshold)
    BY <1>3 DEF RecordFailure
  <2>3. failures \in Nat /\ failures' = failures + 1
    BY <1>3 DEF RecordFailure, BreakerTypeOK
  <2>4. QED
    BY <2>1, <2>2, <2>3 DEF BreakerConsistent
<1>4. CASE BreakerTick
  BY <1>4 DEF BreakerTick, BreakerTypeOK, BreakerConsistent
<1>5. QED
  BY <1>1, <1>2, <1>3, <1>4 DEF BreakerStep, IsOpenFalse, RecordSuccess, breakerVars

\* Every action of the transport takes one of those steps.
LEMMA NextIsBreakerStep ==
  ASSUME [Next]_vars
  PROVE  BreakerStep
<1>1. CASE Probe
  BY <1>1 DEF Probe, BreakerStep
<1>2. CASE Tick
  BY <1>2 DEF Tick, BreakerStep
<1>3. ASSUME NEW c \in Callers, Call(c)
      PROVE  BreakerStep
  BY <1>3 DEF Call, FailFast, Admit, BodyError, Send, Answer, TransportError, Success,
     Retry429, Retry5xx, RateLimited, ServerError, ClientError, Wake, Cancel,
     BreakerStep, breakerVars
<1>4. CASE UNCHANGED vars
  BY <1>4 DEF vars, BreakerStep, breakerVars
<1>5. QED
  BY <1>1, <1>2, <1>3, <1>4 DEF Next

-----------------------------------------------------------------------------
(* The retry loop of one caller.                                           *)

\* The loop variable counts exactly the retries taken: one per pass that is
\* over, one more for the pass whose backoff is running.  It is what keeps
\* the loop within its attempts.
AttemptsAccounted ==
    \A c \in Callers :
        /\ pc[c] # "backoff" => attempt[c] = retries429[c] + retries5xx[c]
        /\ pc[c] = "backoff" => attempt[c] + 1 = retries429[c] + retries5xx[c]

\* The inductive invariant.
IInv == TypeOK /\ BreakerConsistent /\ AttemptsAccounted

LEMMA TotalAttemptsType ==
  /\ TotalAttempts \in Nat
  /\ LongestDelay \in Nat
  /\ TotalAttempts <= LongestDelay
  /\ MaxRetryDelay <= LongestDelay
BY TransportAssumption DEF TotalAttempts, LongestDelay

LEMMA InitIInv == Init => IInv
<1> SUFFICES ASSUME Init PROVE IInv
  OBVIOUS
<1>1. BreakerTypeOK /\ BreakerConsistent
  <2>1. BreakerTypeOK
    <3>1. failures \in Nat /\ sinceFailure \in 0..ResetAfter
      BY BreakerAssumption DEF Init, BreakerInit
    <3>2. open \in BOOLEAN
      BY DEF Init, BreakerInit
    <3>3. QED
      BY <3>1, <3>2 DEF BreakerTypeOK
  <2>2. ~open /\ ~(failures >= FailureThreshold)
    BY BreakerAssumption DEF Init, BreakerInit
  <2>3. QED
    BY <2>1, <2>2 DEF BreakerConsistent
<1>2. TypeOK
  BY <1>1, TransportAssumption, TotalAttemptsType DEF Init, TypeOK, Results
<1>3. AttemptsAccounted
  BY DEF Init, AttemptsAccounted
<1>4. QED
  BY <1>1, <1>2, <1>3 DEF IInv

\* A return leaves the caller's locals cleared and everyone else alone.
LEMMA ReturnKeepsCalls ==
  ASSUME TypeOK, BreakerTypeOK', AttemptsAccounted,
         NEW c \in Callers, NEW r \in Results, Return(c, r)
  PROVE  TypeOK' /\ AttemptsAccounted'
<1>1. TypeOK'
  BY TransportAssumption, TotalAttemptsType DEF TypeOK, Return
<1>2. AttemptsAccounted'
  BY DEF TypeOK, Return, AttemptsAccounted, Results
<1>3. QED
  BY <1>1, <1>2

LEMMA NextKeepsIInv ==
  ASSUME IInv, [Next]_vars
  PROVE  IInv'
<1>1. BreakerTypeOK' /\ BreakerConsistent'
  BY NextIsBreakerStep, BreakerStepKeepsConsistency DEF IInv, TypeOK
<1> SUFFICES TypeOK' /\ AttemptsAccounted'
  BY <1>1 DEF IInv
<1> USE TransportAssumption, TotalAttemptsType
<1>2. CASE UNCHANGED callVars
  BY <1>1, <1>2 DEF IInv, TypeOK, AttemptsAccounted, callVars
<1>3. CASE Tick
  <2>1. delay' \in [Callers -> 0..LongestDelay]
    BY <1>3 DEF Tick, IInv, TypeOK
  <2>2. QED
    BY <1>1, <1>3, <2>1 DEF Tick, IInv, TypeOK, AttemptsAccounted
<1>4. ASSUME NEW c \in Callers, Call(c)
      PROVE  TypeOK' /\ AttemptsAccounted'
  <2>1. ASSUME NEW r \in Results, Return(c, r)
        PROVE  TypeOK' /\ AttemptsAccounted'
    BY <1>1, <2>1, ReturnKeepsCalls DEF IInv
  <2>2. CASE FailFast(c) \/ BodyError(c) \/ TransportError(c) \/ Success(c)
               \/ RateLimited(c) \/ ServerError(c) \/ ClientError(c) \/ Cancel(c)
    BY <2>1, <2>2 DEF FailFast, BodyError, TransportError, Success, RateLimited,
       ServerError, ClientError, Cancel, Results
  <2>3. CASE Admit(c)
    BY <1>1, <2>3 DEF Admit, Goto, IInv, TypeOK, AttemptsAccounted, Running, Labels
  <2>4. CASE Send(c)
    BY <1>1, <2>4 DEF Send, Goto, IInv, TypeOK, AttemptsAccounted, Labels
  <2>5. CASE Retry429(c)
    BY <1>1, <2>5 DEF Retry429, Backoff429, IInv, TypeOK, AttemptsAccounted, Labels
  <2>6. CASE Retry5xx(c)
    BY <1>1, <2>6 DEF Retry5xx, Backoff5xx, IInv, TypeOK, AttemptsAccounted, Labels, TotalAttempts
  <2>7. CASE Wake(c)
    BY <1>1, <2>7 DEF Wake, IInv, TypeOK, AttemptsAccounted, Labels, TotalAttempts
  <2>8. QED
    BY <1>4, <2>2, <2>3, <2>4, <2>5, <2>6, <2>7 DEF Call, Answer
<1>5. QED
  BY <1>2, <1>3, <1>4 DEF Next, Probe, vars, callVars

-----------------------------------------------------------------------------
(* The theorems.                                                           *)

THEOREM Invariance == Spec => []IInv
BY InitIInv, NextKeepsIInv, PTL DEF Spec

\* Every variable keeps its type: the counters stay within the retry
\* budgets, the backoff within its longest value (RoundTrip's locals).
THEOREM TypeCorrect == Spec => []TypeOK
BY Invariance, PTL DEF IInv

\* The breaker's flag and counter agree in every reachable state, for any
\* threshold and any interleaving of callers (circuitbreaker.go).
THEOREM BreakerAlwaysConsistent == Spec => []BreakerConsistent
BY Invariance, PTL DEF IInv

\* The code after the retry loop is dead for any pair of retry budgets
\* (transport.go:99-105).
THEOREM TailIsDead == Spec => []TailUnreachable
<1>1. IInv => TailUnreachable
  BY TransportAssumption DEF IInv, TypeOK, AttemptsAccounted, TailUnreachable, TotalAttempts
<1>2. QED
  BY <1>1, Invariance, PTL

-----------------------------------------------------------------------------
(* Admission and the failures still to come.                               *)

\* While the breaker stays open the set of running calls only shrinks: the
\* property the run RetryTransport_safety checks, for every number of
\* callers (the single IsOpen check of RoundTrip).
THEOREM OpenAdmits == Spec => OpenAdmitsNobody
<1>1. ASSUME IInv, [Next]_vars, open, open'
      PROVE  Running' \subseteq Running
  <2>1. CASE Probe \/ Tick \/ UNCHANGED vars
    BY <2>1 DEF Probe, Tick, vars, callVars, Running
  <2>2. ASSUME NEW c \in Callers, Call(c)
        PROVE  Running' \subseteq Running
    <3>1. ASSUME NEW r \in Results, Return(c, r)
          PROVE  Running' \subseteq Running
      BY <3>1, <1>1 DEF Return, Running, Labels, Results, IInv, TypeOK
    <3>2. CASE FailFast(c) \/ BodyError(c) \/ TransportError(c) \/ Success(c)
                 \/ RateLimited(c) \/ ServerError(c) \/ ClientError(c) \/ Cancel(c)
      BY <3>1, <3>2 DEF FailFast, BodyError, TransportError, Success, RateLimited,
         ServerError, ClientError, Cancel, Results
    <3>3. CASE Admit(c)
      BY <3>3, <1>1 DEF Admit, IsOpenFalse
    <3>4. CASE Send(c) \/ Retry429(c) \/ Retry5xx(c) \/ Wake(c)
      BY <3>4, <1>1 DEF Send, Goto, Retry429, Retry5xx, Wake, Running, Labels, IInv, TypeOK
    <3>5. QED
      BY <2>2, <3>2, <3>3, <3>4 DEF Call, Answer
  <2>3. QED
    BY <1>1, <2>1, <2>2 DEF Next
<1>2. QED
  BY <1>1, Invariance, PTL DEF Spec, OpenAdmitsNobody

LEMMA RunningFinite ==
  /\ IsFiniteSet(Running)
  /\ Cardinality(Running) \in Nat
  /\ Cardinality(Callers) \in Nat
  /\ Cardinality(Running) <= Cardinality(Callers)
<1>1. Running \subseteq Callers
  BY DEF Running
<1>2. QED
  BY <1>1, TransportAssumption, FS_Subset, FS_CardinalityType

\* A return takes exactly the returning caller out of Running.
LEMMA ReturnLeavesRunning ==
  ASSUME TypeOK, NEW c \in Running, NEW r \in Results, Return(c, r)
  PROVE  /\ Cardinality(Running)' = Cardinality(Running) - 1
         /\ Cardinality(Running)' < Cardinality(Callers)
<1>1. Running' = Running \ {c}
  BY DEF Return, Running, Labels, Results, TypeOK
<1>2. Cardinality(Running \ {c}) = Cardinality(Running) - 1
  BY RunningFinite, FS_RemoveElement
<1>3. QED
  BY <1>1, <1>2, RunningFinite

LEMMA NextKeepsFailuresBounded ==
  ASSUME IInv, FailuresBounded, [Next]_vars
  PROVE  FailuresBounded'
<1> USE BreakerAssumption DEF FailuresBounded
<1>1. failures \in Nat /\ (open <=> failures >= FailureThreshold) /\ open \in BOOLEAN
  BY DEF IInv, TypeOK, BreakerTypeOK, BreakerConsistent
<1>2. ASSUME ~open' PROVE FailuresBounded'
  BY <1>2
<1>3. ASSUME UNCHANGED <<failures, open>>, Running' = Running
      PROVE  FailuresBounded'
  BY <1>3
<1>4. CASE Probe \/ Tick \/ UNCHANGED vars
  <2>1. Running' = Running
    BY <1>4 DEF Probe, Tick, vars, callVars, Running
  <2>2. UNCHANGED <<failures, open>> \/ ~open'
    BY <1>4 DEF Probe, Tick, BreakerTick, IsOpenFalse, vars
  <2>3. QED
    BY <1>2, <1>3, <2>1, <2>2
<1>5. ASSUME NEW c \in Callers, Call(c)
      PROVE  FailuresBounded'
  <2>1. CASE FailFast(c)
    <3>1. Running' = Running
      BY <2>1 DEF FailFast, Return, Running, Labels, IInv, TypeOK
    <3>2. QED
      BY <1>3, <2>1, <3>1 DEF FailFast, IsOpenTrue, breakerVars
  <2>2. CASE Admit(c) \/ BodyError(c) \/ Success(c)
    <3>1. ~open'
      BY <2>2 DEF Admit, BodyError, Success, IsOpenFalse, RecordSuccess
    <3>2. QED
      BY <1>2, <3>1
  <2>3. CASE Send(c) \/ Retry429(c) \/ Retry5xx(c) \/ Wake(c)
    <3>1. Running' = Running
      BY <2>3 DEF Send, Goto, Retry429, Retry5xx, Wake, Running, Labels, IInv, TypeOK
    <3>2. UNCHANGED <<failures, open>>
      BY <2>3 DEF Send, Retry429, Retry5xx, Wake, breakerVars
    <3>3. QED
      BY <1>3, <3>1, <3>2
  <2>4. CASE RateLimited(c) \/ ClientError(c) \/ Cancel(c)
    <3>1. c \in Running
      BY <2>4 DEF RateLimited, ClientError, Cancel, Running, Labels
    <3>2. Cardinality(Running)' = Cardinality(Running) - 1
      BY <2>4, <3>1, ReturnLeavesRunning DEF RateLimited, ClientError, Cancel, Results, IInv
    <3>3. UNCHANGED <<failures, open>>
      BY <2>4 DEF RateLimited, ClientError, Cancel, breakerVars
    <3>4. QED
      BY <1>1, <3>2, <3>3, RunningFinite
  <2>5. CASE TransportError(c) \/ ServerError(c)
    <3>1. c \in Running
      BY <2>5 DEF TransportError, ServerError, Running, Labels
    <3>2. /\ Cardinality(Running)' = Cardinality(Running) - 1
          /\ Cardinality(Running)' < Cardinality(Callers)
      BY <2>5, <3>1, ReturnLeavesRunning DEF TransportError, ServerError, Results, IInv
    <3>3. failures' = failures + 1
      BY <2>5 DEF TransportError, ServerError, RecordFailure
    <3>4. CASE open
      BY <1>1, <3>2, <3>3, <3>4, RunningFinite
    <3>5. CASE ~open
      BY <1>1, <3>2, <3>3, <3>5, RunningFinite
    <3>6. QED
      BY <3>4, <3>5
  <2>6. QED
    BY <1>5, <2>1, <2>2, <2>3, <2>4, <2>5 DEF Call, Answer
<1>6. QED
  BY <1>4, <1>5 DEF Next

\* The failures of an open breaker together with the calls that may still
\* report one stay below the threshold plus the number of callers
\* (RecordFailure called by calls admitted before the breaker tripped).
THEOREM FailuresAlwaysBounded == Spec => []FailuresBounded
<1>1. Init => FailuresBounded
  BY DEF Init, BreakerInit, FailuresBounded
<1>2. QED
  BY <1>1, NextKeepsFailuresBounded, Invariance, PTL DEF Spec

=============================================================================
