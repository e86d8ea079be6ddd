---------------------------- MODULE CircuitBreaker ----------------------------
(***************************************************************************)
(* The per-service circuit breaker of internal/api/circuitbreaker.go.      *)
(*                                                                         *)
(* Every method runs under cb.mu, so each is one atomic step here; they    *)
(* are the steps a caller's action is composed of.  time.Time values are   *)
(* represented by what the code asks of them: sinceFailure is the number   *)
(* of time units since lastFailure, saturated at ResetAfter because the    *)
(* only question asked is time.Since(lastFailure) >= cbResetAfter.         *)
(***************************************************************************)
EXTENDS Integers

CONSTANTS
    FailureThreshold,   \* cbFailureThreshold
    ResetAfter          \* cbResetAfter, in time units

ASSUME BreakerAssumption ==
    /\ FailureThreshold \in Nat \ {0}
    /\ ResetAfter \in Nat \ {0}

VARIABLES
    failures,           \* cb.failures
    open,               \* cb.open
    sinceFailure        \* time since cb.lastFailure, at most ResetAfter

breakerVars == <<failures, open, sinceFailure>>

\* The zero lastFailure of a new breaker is long past.
BreakerInit ==
    /\ failures = 0
    /\ open = FALSE
    /\ sinceFailure = ResetAfter

-----------------------------------------------------------------------------
(* The methods.                                                            *)

\* IsOpen would answer true.
Rejecting == open /\ sinceFailure < ResetAfter

\* Seeded fault: a rejected request counts as a failure and moves the window.
IsOpenTrue_MovesWindow ==
    /\ Rejecting
    /\ sinceFailure' = 0
    /\ UNCHANGED <<failures, open>>

IsOpenTrue ==
    /\ Rejecting
    /\ UNCHANGED breakerVars

\* Seeded fault: the answer forgets the reset of the failure count.
IsOpenFalse_KeepsCount ==
    /\ ~Rejecting
    /\ open' = FALSE
    /\ UNCHANGED <<failures, sinceFailure>>

\* IsOpen answers false, closing an open breaker whose window has elapsed.
IsOpenFalse ==
    /\ UNCHANGED sinceFailure
    /\ \/ /\ ~open
          /\ UNCHANGED <<failures, open>>
       \/ /\ open
          /\ sinceFailure >= ResetAfter
          /\ open' = FALSE
          /\ failures' = 0

\* Seeded fault: a success forgets to clear the open flag.
RecordSuccess_StaysOpen ==
    /\ failures' = 0
    /\ UNCHANGED <<open, sinceFailure>>

RecordSuccess ==
    /\ failures' = 0
    /\ open' = FALSE
    /\ UNCHANGED sinceFailure

RecordFailure ==
    /\ failures' = failures + 1
    /\ sinceFailure' = 0
    /\ open' = (open \/ failures + 1 >= FailureThreshold)

\* One unit of time passes.
BreakerTick ==
    /\ sinceFailure' = IF sinceFailure < ResetAfter THEN sinceFailure + 1
                                                    ELSE sinceFailure
    /\ UNCHANGED <<failures, open>>

-----------------------------------------------------------------------------
BreakerTypeOK ==
    /\ failures \in Nat
    /\ open \in BOOLEAN
    /\ sinceFailure \in 0..ResetAfter

\* The flag and the counter agree: the breaker is open exactly when the
\* failures counted since the last success or reset reach the threshold.
\* The code writes the two in different methods and branches
\* (circuitbreaker.go IsOpen, RecordSuccess, RecordFailure); a disagreement
\* would be a breaker that never trips again, or one that trips on the first
\* failure after a recovery.
BreakerConsistent == open <=> failures >= FailureThreshold

=============================================================================
