------------------------------ MODULE FileStore ------------------------------
(***************************************************************************)
(* FileStore (internal/auth/filestore.go) and its lock (flock_unix.go,     *)
(* flock_windows.go): gwx processes, or goroutines of one, that keep all   *)
(* credentials as one encrypted map in credentials.enc.                    *)
(*                                                                         *)
(* Every operation is withLock(load the map, change one key, save it).     *)
(* The steps are the system calls, in the order the code makes them; each  *)
(* of them may fail and a process may be killed between any two.  A file   *)
(* is Missing, a map sealed under this machine's key, or Unreadable: cut   *)
(* short, damaged, or sealed under another key (loadMap's ErrCredential-   *)
(* Corrupted and ErrKeyMismatch).                                          *)
(***************************************************************************)
EXTENDS Integers, FiniteSets

CONSTANTS
    Procs, Keys, Vals, None,
    Missing,            \* the file does not exist
    Unreadable,         \* it exists and loadMap fails on it
    MaxPolls,           \* lock attempts that fit in lockTimeout
    UseFlock            \* FALSE on windows, where withLock only runs fn

Maps == [Keys -> Vals \cup {None}]

\* What an operation returns besides a credential; the refusals are errors
\* of operations without effect.
Refusals == {"lock_timeout", "io_error", "unreadable"}
Outcomes == Refusals \cup {"ok", "not_found", "chmod_error"}

ASSUME FileStoreAssumption ==
    /\ None \notin Vals \cup Procs \cup Outcomes
    /\ Vals \cap Outcomes = {}
    /\ Missing \notin Maps \cup {Unreadable}
    /\ Unreadable \notin Maps
    /\ MaxPolls \in Nat
    /\ UseFlock \in BOOLEAN

VARIABLES
    enc,                \* credentials.enc
    tmp,                \* credentials.enc.tmp
    holder,             \* the process whose descriptor holds the flock
    pc,                 \* the next system call of each process
    op,                 \* the operation it runs
    snap,               \* the map it has loaded
    polls,              \* its failed attempts to lock
    reply               \* what the operation returns

vars == <<enc, tmp, holder, pc, op, snap, polls, reply>>
procVars == <<pc, op, snap, polls, reply>>

Files == Maps \cup {Missing, Unreadable}
EmptyMap == [k \in Keys |-> None]
Labels == {"idle", "open", "lock", "load", "write", "fill", "rename", "chmod", "return"}

\* What is stored, as a caller sees it.
Contents(f) == IF f \in Maps THEN f ELSE EmptyMap

\* How far each operation has come, for the map it implements: the read or
\* the rename is the instant at which it takes effect.
Stage == [p \in Procs |->
    CASE pc[p] = "idle" -> "idle"
      [] pc[p] = "chmod" -> "applied"
      [] pc[p] = "return" -> IF reply[p] \in Refusals THEN "refused" ELSE "applied"
      [] OTHER -> "pending"]

Abstract == INSTANCE CredentialMap WITH store <- Contents(enc), stage <- Stage

Ops == Abstract!Ops

\* The processes between taking the lock and releasing it.
Inside == {p \in Procs : pc[p] \in {"load", "write", "fill", "rename", "chmod"}}

-----------------------------------------------------------------------------
\* A store may have been left by an earlier version, machine or backup.
Init ==
    /\ enc \in {Missing, Unreadable, EmptyMap}
    /\ tmp \in {Missing, Unreadable}
    /\ holder = None
    /\ pc = [p \in Procs |-> "idle"]
    /\ op = [p \in Procs |-> None]
    /\ snap = [p \in Procs |-> EmptyMap]
    /\ polls = [p \in Procs |-> 0]
    /\ reply = [p \in Procs |-> None]

Goto(p, label) ==
    /\ pc' = [pc EXCEPT ![p] = label]
    /\ UNCHANGED <<op, snap, polls, reply>>

\* fn, or withLock itself, has its result; the deferred calls remain.
Finish(p, r) ==
    /\ pc' = [pc EXCEPT ![p] = "return"]
    /\ reply' = [reply EXCEPT ![p] = r]
    /\ UNCHANGED <<op, snap, polls>>

Invoke(p, o) ==
    /\ pc[p] = "idle"
    /\ pc' = [pc EXCEPT ![p] = "open"]
    /\ op' = [op EXCEPT ![p] = o]
    /\ UNCHANGED <<enc, tmp, holder, snap, polls, reply>>

-----------------------------------------------------------------------------
(* withLock.                                                               *)

OpenLockFile(p) ==
    /\ pc[p] = "open"
    /\ Goto(p, IF UseFlock THEN "lock" ELSE "load")
    /\ UNCHANGED <<enc, tmp, holder>>

\* The lock file cannot be opened, or flock fails with another error than
\* EWOULDBLOCK.
LockError(p) ==
    /\ UseFlock
    /\ pc[p] \in {"open", "lock"}
    /\ Finish(p, "io_error")
    /\ UNCHANGED <<enc, tmp, holder>>

Acquire(p) ==
    /\ pc[p] = "lock"
    /\ holder = None
    /\ holder' = p
    /\ Goto(p, "load")
    /\ UNCHANGED <<enc, tmp>>

\* Seeded fault: no deadline, the lock is polled until it is free.
Poll_NoDeadline(p) ==
    /\ pc[p] = "lock"
    /\ holder # None
    /\ polls' = [polls EXCEPT ![p] = (@ + 1) % (MaxPolls + 1)]
    /\ UNCHANGED <<enc, tmp, holder, pc, op, snap, reply>>

\* Seeded fault: one attempt more than fits in the deadline.
Poll_OffByOne(p) ==
    /\ pc[p] = "lock"
    /\ holder # None
    /\ polls[p] <= MaxPolls
    /\ polls' = [polls EXCEPT ![p] = @ + 1]
    /\ UNCHANGED <<enc, tmp, holder, pc, op, snap, reply>>

\* EWOULDBLOCK before the deadline: sleep and try again.
Poll(p) ==
    /\ pc[p] = "lock"
    /\ holder # None
    /\ polls[p] < MaxPolls
    /\ polls' = [polls EXCEPT ![p] = @ + 1]
    /\ UNCHANGED <<enc, tmp, holder, pc, op, snap, reply>>

\* EWOULDBLOCK after the deadline, which a slow process reaches in fewer
\* than MaxPolls attempts.
LockTimeout(p) ==
    /\ pc[p] = "lock"
    /\ holder # None
    /\ Finish(p, "lock_timeout")
    /\ UNCHANGED <<enc, tmp, holder>>

\* Seeded fault: an operation that never got the lock unlocks it as well.
Return_UnlocksAlways(p) ==
    /\ pc[p] = "return"
    /\ holder' = None
    /\ pc' = [pc EXCEPT ![p] = "idle"]
    /\ op' = [op EXCEPT ![p] = None]
    /\ snap' = [snap EXCEPT ![p] = EmptyMap]
    /\ polls' = [polls EXCEPT ![p] = 0]
    /\ reply' = [reply EXCEPT ![p] = None]
    /\ UNCHANGED <<enc, tmp>>

\* The deferred LOCK_UN and Close, and the return to the caller.
Return(p) ==
    /\ pc[p] = "return"
    /\ holder' = IF holder = p THEN None ELSE holder
    /\ pc' = [pc EXCEPT ![p] = "idle"]
    /\ op' = [op EXCEPT ![p] = None]
    /\ snap' = [snap EXCEPT ![p] = EmptyMap]
    /\ polls' = [polls EXCEPT ![p] = 0]
    /\ reply' = [reply EXCEPT ![p] = None]
    /\ UNCHANGED <<enc, tmp>>

-----------------------------------------------------------------------------
(* loadMap and what the operation makes of the map.                        *)

LoadError(p) ==
    /\ pc[p] = "load"
    /\ Finish(p, "io_error")
    /\ UNCHANGED <<enc, tmp, holder>>

LoadUnreadable(p) ==
    /\ pc[p] = "load"
    /\ enc = Unreadable
    /\ Finish(p, "unreadable")
    /\ UNCHANGED <<enc, tmp, holder>>

\* The operation needs only what it has read: a load, or a delete of an
\* absent key.
Answer(p) ==
    /\ pc[p] = "load"
    /\ enc # Unreadable
    /\ op[p].kind # "save"
    /\ LET found == Contents(enc)[op[p].key] IN
       \/ found = None /\ Finish(p, "not_found")
       \/ found # None /\ op[p].kind = "load" /\ Finish(p, found)
    /\ UNCHANGED <<enc, tmp, holder>>

\* A save, or a delete of a present key: the map, with its key changed, is
\* to be written.
Change(p) ==
    /\ pc[p] = "load"
    /\ enc # Unreadable
    /\ \/ op[p].kind = "save"
       \/ op[p].kind = "delete" /\ Contents(enc)[op[p].key] # None
    /\ snap' = [snap EXCEPT ![p] = [Contents(enc) EXCEPT ![op[p].key] = op[p].val]]
    /\ pc' = [pc EXCEPT ![p] = "write"]
    /\ UNCHANGED <<enc, tmp, holder, op, polls, reply>>

-----------------------------------------------------------------------------
(* saveMap.  WriteFile opens and truncates the temporary file, then fills  *)
(* it; a failure in between leaves it cut short.                           *)

\* Seeded fault: the error of WriteFile is not looked at.
WriteError_Ignored(p) ==
    /\ pc[p] \in {"write", "fill"}
    /\ Goto(p, "rename")
    /\ UNCHANGED <<enc, tmp, holder>>

WriteError(p) ==
    /\ pc[p] \in {"write", "fill"}
    /\ Finish(p, "io_error")
    /\ UNCHANGED <<enc, tmp, holder>>

Truncate(p) ==
    /\ pc[p] = "write"
    /\ tmp' = Unreadable
    /\ Goto(p, "fill")
    /\ UNCHANGED <<enc, holder>>

\* Seeded fault: the file is renamed into place before it is filled, as a
\* plain WriteFile of credentials.enc would do.
Fill_InPlace(p) ==
    /\ pc[p] = "fill"
    /\ enc' = tmp
    /\ tmp' = snap[p]
    /\ Goto(p, "rename")
    /\ UNCHANGED holder

Fill(p) ==
    /\ pc[p] = "fill"
    /\ tmp' = snap[p]
    /\ Goto(p, "rename")
    /\ UNCHANGED <<enc, holder>>

\* The rename needs the temporary file, and on windows needs it closed.
Rename(p) ==
    /\ pc[p] = "rename"
    /\ tmp # Missing
    /\ \A q \in Procs \ {p} : pc[q] # "fill"
    /\ enc' = tmp
    /\ tmp' = Missing
    /\ Goto(p, "chmod")
    /\ UNCHANGED holder

\* The temporary file is then removed, if that works.
RenameError(p) ==
    /\ pc[p] = "rename"
    /\ tmp' \in {tmp, Missing}
    /\ Finish(p, "io_error")
    /\ UNCHANGED <<enc, holder>>

\* The new map is in place whether or not the chmod works.
Chmod(p) ==
    /\ pc[p] = "chmod"
    /\ \E r \in {"ok", "chmod_error"} : Finish(p, r)
    /\ UNCHANGED <<enc, tmp, holder>>

-----------------------------------------------------------------------------
\* The process is killed: the kernel closes its descriptors.
Crash(p) ==
    /\ pc[p] # "idle"
    /\ holder' = IF holder = p THEN None ELSE holder
    /\ pc' = [pc EXCEPT ![p] = "idle"]
    /\ op' = [op EXCEPT ![p] = None]
    /\ snap' = [snap EXCEPT ![p] = EmptyMap]
    /\ polls' = [polls EXCEPT ![p] = 0]
    /\ reply' = [reply EXCEPT ![p] = None]
    /\ UNCHANGED <<enc, tmp>>

\* What a process that is not killed does next.
Run(p) ==
    \/ OpenLockFile(p) \/ LockError(p) \/ Acquire(p) \/ Poll(p) \/ LockTimeout(p)
    \/ LoadError(p) \/ LoadUnreadable(p) \/ Answer(p) \/ Change(p)
    \/ WriteError(p) \/ Truncate(p) \/ Fill(p)
    \/ Rename(p) \/ RenameError(p) \/ Chmod(p) \/ Return(p)

Next == \E p \in Procs : (\E o \in Ops : Invoke(p, o)) \/ Run(p) \/ Crash(p)

Spec == Init /\ [][Next]_vars

\* A process that is running keeps running, and polls rather than sleeps
\* for ever; nothing obliges it to call or to crash.
FairSpec == Spec /\ \A p \in Procs : WF_vars(Run(p))

-----------------------------------------------------------------------------
TypeOK ==
    /\ enc \in Files
    /\ tmp \in Files
    /\ holder \in Procs \cup {None}
    /\ pc \in [Procs -> Labels]
    /\ op \in [Procs -> Ops \cup {None}]
    /\ snap \in [Procs -> Maps]
    /\ polls \in [Procs -> 0..MaxPolls]
    /\ reply \in [Procs -> Vals \cup Outcomes \cup {None}]

\* At most one process is between its flock and its unlock, whatever times
\* out, fails or is killed meanwhile (withLock's deferred calls).
MutualExclusion == \A p, q \in Inside : p = q

\* What a writer is about to put in place differs from what is in place at
\* its own key only: nothing has been stored since it loaded the map.  With
\* it, and the temporary file being the writer's own, no save of another
\* process is ever lost (loadMap ... saveMap under one lock).
SnapshotFresh ==
    \A p \in Procs :
        /\ pc[p] \in {"write", "fill", "rename"} =>
             snap[p] = [Contents(enc) EXCEPT ![op[p].key] = op[p].val]
        /\ pc[p] = "rename" => tmp = snap[p]

\* No operation, crash or failure turns a readable or absent file into an
\* unreadable one (saveMap's temporary file and rename, and the errors after
\* which it does not rename).
ReadabilityPreserved == [][enc # Unreadable => enc' # Unreadable]_vars

\* A lost update: the step that puts the new map in place changes the
\* credential under another key than its operation's.
NoLostUpdate ==
    [][\A p \in Procs : pc[p] = "rename" /\ pc'[p] = "chmod" =>
          \A k \in Keys \ {op[p].key} : Contents(enc')[k] = Contents(enc)[k]]_vars

\* The file store is a credential map: each operation takes effect at one
\* instant (the read, or the rename), or not at all, and reports it rightly.
RefinesCredentialMap == Abstract!Spec

\* Every operation returns, though the lock may be held by others all the
\* time: the deadline bounds the wait (lockTimeout).
OperationReturns == \A p \in Procs : (pc[p] # "idle") ~> (pc[p] = "idle")

=============================================================================
