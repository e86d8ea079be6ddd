---------------------------- MODULE CredentialMap ----------------------------
(***************************************************************************)
(* What a credential store promises its callers (the TokenStore interface  *)
(* of internal/auth/store.go): one map from keys to credentials, read and  *)
(* written one key at a time by concurrent clients.  A client's operation  *)
(* takes effect at one instant between its call and its return, or not at  *)
(* all; a client may disappear at any moment, before or after the instant. *)
(***************************************************************************)
CONSTANTS
    Procs,      \* clients
    Keys,       \* "token:...", "cred:...", "provider:...:..."
    Vals,       \* credentials
    None        \* no credential stored, no operation, no reply yet

VARIABLES
    store,      \* the credential under each key
    op,         \* the operation each client has called
    stage,      \* whether it has taken effect
    reply       \* what it will return

mapVars == <<store, op, stage, reply>>

Saves == [kind : {"save"}, key : Keys, val : Vals]
Deletes == [kind : {"delete"}, key : Keys, val : {None}]
Loads == [kind : {"load"}, key : Keys, val : {None}]
Ops == Saves \cup Deletes \cup Loads

\* Errors of an operation that had no effect.
Refusals == {"lock_timeout", "io_error", "unreadable"}
\* "chmod_error" is an error of an operation that did take effect.
Acknowledgements == {"ok", "chmod_error"}

Init ==
    /\ store \in [Keys -> Vals \cup {None}]
    /\ op = [p \in Procs |-> None]
    /\ stage = [p \in Procs |-> "idle"]
    /\ reply = [p \in Procs |-> None]

Invoke(p, o) ==
    /\ stage[p] = "idle"
    /\ op' = [op EXCEPT ![p] = o]
    /\ stage' = [stage EXCEPT ![p] = "pending"]
    /\ UNCHANGED <<store, reply>>

\* A save or a delete takes effect: its key changes, and no other.
Commit(p) ==
    /\ stage[p] = "pending"
    /\ \/ op[p] \in Saves
       \/ op[p] \in Deletes /\ store[op[p].key] # None
    /\ store' = [store EXCEPT ![op[p].key] = op[p].val]
    /\ stage' = [stage EXCEPT ![p] = "applied"]
    /\ UNCHANGED <<op, reply>>

Acknowledge(p) ==
    /\ stage[p] = "applied"
    /\ reply[p] = None
    /\ \E r \in Acknowledgements : reply' = [reply EXCEPT ![p] = r]
    /\ UNCHANGED <<store, op, stage>>

\* A load answers with the credential stored at that instant; a load or a
\* delete of an absent key answers that there is none.
Observe(p) ==
    /\ stage[p] = "pending"
    /\ op[p] \in Loads \cup Deletes
    /\ \/ /\ store[op[p].key] = None
          /\ reply' = [reply EXCEPT ![p] = "not_found"]
       \/ /\ op[p] \in Loads
          /\ store[op[p].key] # None
          /\ reply' = [reply EXCEPT ![p] = store[op[p].key]]
    /\ stage' = [stage EXCEPT ![p] = "applied"]
    /\ UNCHANGED <<store, op>>

Refuse(p) ==
    /\ stage[p] = "pending"
    /\ \E r \in Refusals : reply' = [reply EXCEPT ![p] = r]
    /\ stage' = [stage EXCEPT ![p] = "refused"]
    /\ UNCHANGED <<store, op>>

\* The client returns, or is gone.
Leave(p) ==
    /\ stage[p] # "idle"
    /\ op' = [op EXCEPT ![p] = None]
    /\ stage' = [stage EXCEPT ![p] = "idle"]
    /\ reply' = [reply EXCEPT ![p] = None]
    /\ UNCHANGED store

Next == \E p \in Procs :
    \/ \E o \in Ops : Invoke(p, o)
    \/ Commit(p) \/ Acknowledge(p) \/ Observe(p) \/ Refuse(p) \/ Leave(p)

Spec == Init /\ [][Next]_mapVars

=============================================================================
