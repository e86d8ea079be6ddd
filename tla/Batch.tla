--------------------------------- MODULE Batch ---------------------------------
(***************************************************************************)
(* What every fan-out of gwx promises its caller: each item is answered    *)
(* once, with a result or with an error, in any order, and the call        *)
(* returns when all are.  A panic may end the process before.              *)
(***************************************************************************)
EXTENDS Naturals

CONSTANT Items

VARIABLES
    answers,  \* [Items -> Nat]: how often an item was answered
    call      \* open, returned, crashed

Init == answers = [i \in Items |-> 0] /\ call = "open"

Answer(i) ==
    /\ call = "open" /\ answers[i] = 0
    /\ answers' = [answers EXCEPT ![i] = 1]
    /\ UNCHANGED call

Return ==
    /\ call = "open" /\ \A i \in Items : answers[i] = 1
    /\ call' = "returned"
    /\ UNCHANGED answers

Crash == call = "open" /\ call' = "crashed" /\ UNCHANGED answers

Next == (\E i \in Items : Answer(i)) \/ Return \/ Crash

Spec == Init /\ [][Next]_<<answers, call>> /\ WF_<<answers, call>>(Return)

=============================================================================
