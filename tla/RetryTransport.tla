---------------------------- MODULE RetryTransport ----------------------------
(***************************************************************************)
(* RetryTransport.RoundTrip (internal/api/transport.go) run by concurrent  *)
(* callers that share the circuit breaker of one service: goroutines of a  *)
(* batch upload, of a message listing, of an MCP tool call.                *)
(*                                                                         *)
(* The breaker is asked once, before the first attempt; the retry loop     *)
(* then runs to its end whatever the breaker does meanwhile.  Each label   *)
(* of pc is a point where the goroutine can be preempted:                  *)
(*   "loop"      at the head of the for loop, about to send an attempt     *)
(*   "inflight"  the attempt is with the server                            *)
(*   "backoff"   in sleepWithContext                                       *)
(* Any other label is the result of the caller's last RoundTrip.           *)
(***************************************************************************)
EXTENDS CircuitBreaker, FiniteSets

CONSTANTS
    Callers,            \* goroutines using the service's http.Client
    MaxRetry429,        \* maxRetry429
    MaxRetry5xx,        \* maxRetry5xx
    MaxRetryDelay,      \* maxRetryDelay, in time units
    RetryAfter          \* the Retry-After values the server may send

ASSUME TransportAssumption ==
    /\ IsFiniteSet(Callers)
    /\ MaxRetry429 \in Nat
    /\ MaxRetry5xx \in Nat
    /\ MaxRetryDelay \in Nat
    /\ RetryAfter \subseteq Nat \ {0}

VARIABLES
    pc,                 \* where each caller is, or its last result
    attempt,            \* the loop variable of each caller
    retries429,
    retries5xx,
    delay               \* what is left of each caller's backoff

callVars == <<pc, attempt, retries429, retries5xx, delay>>
vars == <<failures, open, sinceFailure, pc, attempt, retries429, retries5xx, delay>>

Results == {"none", "circuit_open", "body_error", "transport_error", "success",
            "client_error", "rate_limited", "server_error", "cancelled"}
Labels == {"loop", "inflight", "backoff"}

TotalAttempts == 1 + MaxRetry429 + MaxRetry5xx

\* Callers between an admission by the breaker and their return.
Running == {c \in Callers : pc[c] \in Labels}

-----------------------------------------------------------------------------
(* Backoff durations.                                                      *)

Clamp(d) == IF d <= 0 THEN 0 ELSE IF d > MaxRetryDelay THEN MaxRetryDelay ELSE d

\* 2^n seconds plus a jitter of up to half of it.
Exponential(n) == {2 ^ n + j : j \in 0 .. (2 ^ n) \div 2}

\* calculateBackoff: the header when there is one, else exponential.
Backoff429(n) ==
    {d \in 0..MaxRetryDelay : \E secs \in RetryAfter \cup Exponential(n) : d = Clamp(secs)}

\* The 5xx arm: (attempt+1) seconds, not clamped.
Backoff5xx(n) == n + 1

LongestDelay == IF MaxRetryDelay < TotalAttempts THEN TotalAttempts ELSE MaxRetryDelay

-----------------------------------------------------------------------------
Init ==
    /\ BreakerInit
    /\ pc = [c \in Callers |-> "none"]
    /\ attempt = [c \in Callers |-> 0]
    /\ retries429 = [c \in Callers |-> 0]
    /\ retries5xx = [c \in Callers |-> 0]
    /\ delay = [c \in Callers |-> 0]

\* RoundTrip returns r to the caller; its locals are gone.
Return(c, r) ==
    /\ pc' = [pc EXCEPT ![c] = r]
    /\ attempt' = [attempt EXCEPT ![c] = 0]
    /\ retries429' = [retries429 EXCEPT ![c] = 0]
    /\ retries5xx' = [retries5xx EXCEPT ![c] = 0]
    /\ delay' = [delay EXCEPT ![c] = 0]

Goto(c, label) ==
    /\ pc' = [pc EXCEPT ![c] = label]
    /\ UNCHANGED <<attempt, retries429, retries5xx, delay>>

\* RoundTrip called while the breaker rejects: CircuitOpenError.
FailFast(c) ==
    /\ c \notin Running
    /\ IsOpenTrue
    /\ Return(c, "circuit_open")

\* Seeded fault: the breaker is asked but its answer is ignored.
Admit_IgnoresBreaker(c) ==
    /\ c \notin Running
    /\ Goto(c, "loop")
    /\ IsOpenTrue \/ IsOpenFalse

\* RoundTrip called, the breaker lets it pass, the body is buffered.
Admit(c) ==
    /\ c \notin Running
    /\ IsOpenFalse
    /\ Goto(c, "loop")

\* ... or the body cannot be read: nothing was sent, nothing is recorded.
BodyError(c) ==
    /\ c \notin Running
    /\ IsOpenFalse
    /\ Return(c, "body_error")

Send(c) ==
    /\ pc[c] = "loop"
    /\ attempt[c] < TotalAttempts
    /\ Goto(c, "inflight")
    /\ UNCHANGED breakerVars

-----------------------------------------------------------------------------
(* The base RoundTripper answers.                                          *)

\* A transport error, which includes the cancellation of the request's
\* context while the attempt is with the server.
TransportError(c) ==
    /\ pc[c] = "inflight"
    /\ RecordFailure
    /\ Return(c, "transport_error")

Success(c) ==
    /\ pc[c] = "inflight"
    /\ RecordSuccess
    /\ Return(c, "success")

\* Seeded fault: the budget of 429 retries is checked after one too many.
Retry429_OffByOne(c) ==
    /\ pc[c] = "inflight"
    /\ retries429[c] <= MaxRetry429
    /\ retries429' = [retries429 EXCEPT ![c] = @ + 1]
    /\ pc' = [pc EXCEPT ![c] = "backoff"]
    /\ \E d \in Backoff429(attempt[c]) : delay' = [delay EXCEPT ![c] = d]
    /\ UNCHANGED <<attempt, retries5xx, failures, open, sinceFailure>>

Retry429(c) ==
    /\ pc[c] = "inflight"
    /\ retries429[c] < MaxRetry429
    /\ retries429' = [retries429 EXCEPT ![c] = @ + 1]
    /\ pc' = [pc EXCEPT ![c] = "backoff"]
    /\ \E d \in Backoff429(attempt[c]) : delay' = [delay EXCEPT ![c] = d]
    /\ UNCHANGED <<attempt, retries5xx, failures, open, sinceFailure>>

\* Seeded fault: the retry neither counts against its budget nor advances
\* the loop variable, as in a "continue" placed before the increments.
Retry5xx_Uncounted(c) ==
    /\ pc[c] = "inflight"
    /\ retries5xx[c] < MaxRetry5xx
    /\ pc' = [pc EXCEPT ![c] = "loop"]
    /\ UNCHANGED <<attempt, retries429, retries5xx, delay, failures, open, sinceFailure>>

Retry5xx(c) ==
    /\ pc[c] = "inflight"
    /\ retries5xx[c] < MaxRetry5xx
    /\ retries5xx' = [retries5xx EXCEPT ![c] = @ + 1]
    /\ pc' = [pc EXCEPT ![c] = "backoff"]
    /\ delay' = [delay EXCEPT ![c] = Backoff5xx(attempt[c])]
    /\ UNCHANGED <<attempt, retries429, failures, open, sinceFailure>>

\* The default arm: a 429 or 5xx whose budget is spent, or another 4xx.
RateLimited(c) ==
    /\ pc[c] = "inflight"
    /\ retries429[c] >= MaxRetry429
    /\ Return(c, "rate_limited")
    /\ UNCHANGED breakerVars

ServerError(c) ==
    /\ pc[c] = "inflight"
    /\ retries5xx[c] >= MaxRetry5xx
    /\ RecordFailure
    /\ Return(c, "server_error")

ClientError(c) ==
    /\ pc[c] = "inflight"
    /\ Return(c, "client_error")
    /\ UNCHANGED breakerVars

-----------------------------------------------------------------------------
(* The backoff ends: the timer fires, or the context is cancelled.  When   *)
(* both are ready the select may take either.                              *)

Wake(c) ==
    /\ pc[c] = "backoff"
    /\ delay[c] = 0
    /\ pc' = [pc EXCEPT ![c] = "loop"]
    /\ attempt' = [attempt EXCEPT ![c] = @ + 1]
    /\ UNCHANGED <<retries429, retries5xx, delay, failures, open, sinceFailure>>

Cancel(c) ==
    /\ pc[c] = "backoff"
    /\ Return(c, "cancelled")
    /\ UNCHANGED breakerVars

\* Client.IsCircuitOpen and CircuitBreaker.State ask IsOpen as well, and so
\* may close the breaker without a request.
Probe ==
    /\ IsOpenFalse
    /\ UNCHANGED callVars

Tick ==
    /\ BreakerTick
    /\ delay' = [c \in Callers |-> IF delay[c] > 0 THEN delay[c] - 1 ELSE 0]
    /\ UNCHANGED <<pc, attempt, retries429, retries5xx>>

\* The base transport answers, one way or another.
Answer(c) ==
    \/ TransportError(c) \/ Success(c)
    \/ Retry429(c) \/ Retry5xx(c)
    \/ RateLimited(c) \/ ServerError(c) \/ ClientError(c)

Call(c) ==
    \/ FailFast(c) \/ Admit(c) \/ BodyError(c)
    \/ Send(c) \/ Answer(c)
    \/ Wake(c) \/ Cancel(c)

Next == Probe \/ Tick \/ \E c \in Callers : Call(c)

Spec == Init /\ [][Next]_vars

(***************************************************************************)
(* Fairness.  Time passes; a runnable goroutine runs; the server answers   *)
(* or one of the timeouts of newOptimizedTransport turns silence into a    *)
(* transport error.  (A new token, which oauth2 may ask for within an      *)
(* attempt through another client, is assumed to come.)  Nothing obliges a *)
(* caller to make a request, a context to be cancelled, or anyone to probe *)
(* the breaker.                                                            *)
(***************************************************************************)
Fairness ==
    /\ WF_vars(Tick)
    /\ \A c \in Callers : WF_vars(Send(c)) /\ WF_vars(Answer(c)) /\ WF_vars(Wake(c))

FairSpec == Spec /\ Fairness

-----------------------------------------------------------------------------
TypeOK ==
    /\ BreakerTypeOK
    /\ pc \in [Callers -> Results \cup Labels]
    /\ attempt \in [Callers -> 0..TotalAttempts]
    /\ retries429 \in [Callers -> 0..MaxRetry429]
    /\ retries5xx \in [Callers -> 0..MaxRetry5xx]
    /\ delay \in [Callers -> 0..LongestDelay]

\* The code after the retry loop (a last RecordFailure, transport.go:99-105)
\* is never reached: whatever mix of 429 and 5xx answers arrives, the
\* default arm returns before the loop runs out of attempts.
TailUnreachable == \A c \in Callers : pc[c] = "loop" => attempt[c] < TotalAttempts

\* However the calls interleave, the count of an open breaker can exceed the
\* threshold only by the calls that were already admitted when it tripped,
\* so it stays below FailureThreshold plus the number of callers; calls
\* still running have their failures yet to come (RoundTrip's single IsOpen
\* check against RecordFailure on each of its exits).
FailuresBounded ==
    open => failures + Cardinality(Running) < FailureThreshold + Cardinality(Callers)

\* While the breaker stays open no call gets past it: the set of running
\* calls only shrinks, although calls return, back off and wake in any order.
OpenAdmitsNobody == [][open /\ open' => Running' \subseteq Running]_vars

\* A tripped breaker comes back: failures of the calls admitted before it
\* tripped push the window forward, but only finitely often, so rejecting
\* ends even if no probe and no success ever arrives.
RecoversEventually == Rejecting ~> ~Rejecting

\* Every RoundTrip returns: the retry budgets and the clamped backoff leave
\* no answer sequence that keeps a caller in the loop for ever.
CallReturns == \A c \in Callers : (pc[c] \in Labels) ~> (pc[c] \in Results)

=============================================================================
