---------------------------- MODULE FileStoreProofs ----------------------------
(***************************************************************************)
(* Proofs about FileStore with its lock (UseFlock), for any processes,     *)
(* keys, credentials and lock deadline.  The argument: whoever is past its *)
(* flock is the holder (LockHeld), so what a writer loaded is still what   *)
(* is in place when it renames (SnapshotFresh).                            *)
(***************************************************************************)
EXTENDS FileStore, TLAPS

\* The program counters of a process inside the lock.
Locked == {"load", "write", "fill", "rename", "chmod"}
Writing == {"write", "fill", "rename"}

\* Whoever is past its flock and not yet returning holds the lock.
LockHeld == \A p \in Procs : pc[p] \in Locked => holder = p

\* A process that is not idle runs an operation.
Busy == \A p \in Procs : pc[p] # "idle" => op[p] \in Ops

\* Only a readable or absent file is ever rewritten.
WritesOverReadable == \A p \in Procs : pc[p] \in Writing => enc # Unreadable

IInv == TypeOK /\ LockHeld /\ Busy /\ WritesOverReadable /\ SnapshotFresh

-----------------------------------------------------------------------------
(* Operations and files.                                                   *)

LEMMA OpFields ==
  ASSUME NEW o \in Ops
  PROVE  o.key \in Keys /\ o.val \in Vals \cup {None}
BY DEF Ops, Abstract!Ops, Abstract!Saves, Abstract!Deletes, Abstract!Loads

LEMMA ContentsType ==
  /\ EmptyMap \in Maps
  /\ \A f : Contents(f) \in Maps
BY DEF Contents, EmptyMap, Maps

LEMMA MapChange ==
  ASSUME NEW m \in Maps, NEW o \in Ops
  PROVE  [m EXCEPT ![o.key] = o.val] \in Maps
BY OpFields DEF Maps

\* A map is its own contents, and neither missing nor unreadable.
LEMMA MapsAreFiles ==
  ASSUME NEW m \in Maps
  PROVE  m \in Files /\ m # Unreadable /\ m # Missing /\ Contents(m) = m
BY FileStoreAssumption DEF Files, Contents

LEMMA InitIInv == Init => IInv
<1> SUFFICES ASSUME Init PROVE IInv
  OBVIOUS
<1>1. TypeOK
  BY ContentsType, FileStoreAssumption DEF Init, TypeOK, Files, Labels
<1>2. LockHeld /\ Busy /\ WritesOverReadable /\ SnapshotFresh
  BY DEF Init, LockHeld, Locked, Busy, WritesOverReadable, Writing, SnapshotFresh
<1>3. QED
  BY <1>1, <1>2 DEF IInv

-----------------------------------------------------------------------------
(* Types.                                                                  *)

LEMMA NextKeepsTypeOK ==
  ASSUME TypeOK, Busy, SnapshotFresh, [Next]_vars
  PROVE  TypeOK'
<1> USE FileStoreAssumption DEF Outcomes, Refusals
<1>1. CASE UNCHANGED vars
  BY <1>1 DEF vars, TypeOK
<1>2. ASSUME NEW p \in Procs, NEW o \in Ops, Invoke(p, o)
      PROVE  TypeOK'
  BY <1>2 DEF Invoke, TypeOK, Labels
<1>3. ASSUME NEW p \in Procs, Run(p)
      PROVE  TypeOK'
  <2>1. CASE OpenLockFile(p) \/ Acquire(p) \/ Rename(p) \/ Truncate(p)
    BY <1>3, <2>1 DEF OpenLockFile, Acquire, Rename, Truncate, Goto, TypeOK, Labels, Files
  <2>2. CASE LockError(p) \/ LockTimeout(p) \/ LoadError(p) \/ LoadUnreadable(p)
               \/ WriteError(p) \/ Chmod(p)
    BY <1>3, <2>2 DEF LockError, LockTimeout, LoadError, LoadUnreadable, WriteError,
       Chmod, Finish, TypeOK, Labels
  <2>3. CASE RenameError(p)
    BY <1>3, <2>3 DEF RenameError, Finish, TypeOK, Labels, Files
  <2>4. CASE Poll(p)
    BY <1>3, <2>4 DEF Poll, TypeOK
  <2>5. CASE Answer(p)
    <3>1. op[p].key \in Keys /\ Contents(enc)[op[p].key] \in Vals \cup {None}
      BY <2>5, OpFields, ContentsType DEF Answer, Busy, Maps
    <3>2. QED
      BY <1>3, <2>5, <3>1 DEF Answer, Finish, TypeOK, Labels
  <2>6. CASE Change(p)
    <3>1. [Contents(enc) EXCEPT ![op[p].key] = op[p].val] \in Maps
      BY <2>6, MapChange, ContentsType DEF Change, Busy
    <3>2. QED
      BY <1>3, <2>6, <3>1 DEF Change, TypeOK, Labels
  <2>7. CASE Fill(p)
    BY <1>3, <2>7 DEF Fill, Goto, TypeOK, Labels, Files
  <2>8. CASE Return(p)
    BY <1>3, <2>8, ContentsType DEF Return, TypeOK, Labels
  <2>9. QED
    BY <1>3, <2>1, <2>2, <2>3, <2>4, <2>5, <2>6, <2>7, <2>8 DEF Run
<1>4. ASSUME NEW p \in Procs, Crash(p)
      PROVE  TypeOK'
  BY <1>4, ContentsType DEF Crash, TypeOK, Labels
<1>5. QED
  BY <1>1, <1>2, <1>3, <1>4 DEF Next

-----------------------------------------------------------------------------
(* The lock.                                                               *)

LEMMA NextKeepsLockHeld ==
  ASSUME UseFlock, TypeOK, LockHeld, [Next]_vars
  PROVE  LockHeld'
<1> USE FileStoreAssumption DEF LockHeld, Locked, TypeOK
<1>1. CASE UNCHANGED vars
  BY <1>1 DEF vars
<1>2. ASSUME NEW p \in Procs, NEW o \in Ops, Invoke(p, o)
      PROVE  LockHeld'
  BY <1>2 DEF Invoke
<1>3. ASSUME NEW p \in Procs, Run(p)
      PROVE  LockHeld'
  <2>1. CASE OpenLockFile(p)
    BY <2>1 DEF OpenLockFile, Goto
  <2>2. CASE Acquire(p)
    BY <2>2 DEF Acquire, Goto
  <2>3. CASE Change(p) \/ Truncate(p) \/ Fill(p) \/ Rename(p)
    BY <2>3 DEF Change, Truncate, Fill, Rename, Goto
  <2>4. CASE LockError(p) \/ LockTimeout(p) \/ LoadError(p) \/ LoadUnreadable(p)
               \/ WriteError(p) \/ RenameError(p) \/ Chmod(p) \/ Answer(p)
    BY <2>4 DEF LockError, LockTimeout, LoadError, LoadUnreadable, WriteError,
       RenameError, Chmod, Answer, Finish
  <2>5. CASE Poll(p)
    BY <2>5 DEF Poll
  <2>6. CASE Return(p)
    BY <2>6 DEF Return
  <2>7. QED
    BY <1>3, <2>1, <2>2, <2>3, <2>4, <2>5, <2>6 DEF Run
<1>4. ASSUME NEW p \in Procs, Crash(p)
      PROVE  LockHeld'
  BY <1>4 DEF Crash
<1>5. QED
  BY <1>1, <1>2, <1>3, <1>4 DEF Next

LEMMA NextKeepsBusy ==
  ASSUME TypeOK, Busy, [Next]_vars
  PROVE  Busy'
<1> USE DEF Busy, TypeOK
<1>1. CASE UNCHANGED vars
  BY <1>1 DEF vars
<1>2. ASSUME NEW p \in Procs, NEW o \in Ops, Invoke(p, o)
      PROVE  Busy'
  BY <1>2 DEF Invoke
<1>3. ASSUME NEW p \in Procs, Run(p)
      PROVE  Busy'
  <2>1. CASE Return(p)
    BY <2>1 DEF Return
  <2>2. CASE ~Return(p)
    BY <1>3, <2>2 DEF Run, OpenLockFile, LockError, Acquire, Poll, LockTimeout, LoadError,
       LoadUnreadable, Answer, Change, WriteError, Truncate, Fill, Rename, RenameError,
       Chmod, Goto, Finish
  <2>3. QED
    BY <2>1, <2>2
<1>4. ASSUME NEW p \in Procs, Crash(p)
      PROVE  Busy'
  BY <1>4 DEF Crash
<1>5. QED
  BY <1>1, <1>2, <1>3, <1>4 DEF Next

-----------------------------------------------------------------------------
(* What a writer is about to put in place.                                 *)

\* Only the holder writes: with p inside the lock no other process is.
LEMMA OnlyHolderInside ==
  ASSUME LockHeld, NEW p \in Procs, NEW q \in Procs, pc[p] \in Locked, pc[q] \in Locked
  PROVE  p = q
BY DEF LockHeld

LEMMA NextKeepsWritesOverReadable ==
  ASSUME IInv, [Next]_vars
  PROVE  WritesOverReadable'
<1> USE FileStoreAssumption DEF WritesOverReadable, Writing, TypeOK, IInv
<1>1. CASE UNCHANGED vars
  BY <1>1 DEF vars
<1>2. ASSUME NEW p \in Procs, NEW o \in Ops, Invoke(p, o)
      PROVE  WritesOverReadable'
  BY <1>2 DEF Invoke
<1>3. ASSUME NEW p \in Procs, Run(p)
      PROVE  WritesOverReadable'
  <2>1. CASE Rename(p)
    <3>1. enc' # Unreadable
      BY <2>1, MapsAreFiles DEF Rename, SnapshotFresh
    <3>2. QED
      BY <3>1
  <2>2. CASE Return(p)
    BY <2>2 DEF Return
  <2>3. CASE Change(p)
    BY <2>3 DEF Change
  <2>4. CASE ~Rename(p) /\ ~Return(p) /\ ~Change(p)
    BY <1>3, <2>4 DEF Run, OpenLockFile, LockError, Acquire, Poll, LockTimeout, LoadError,
       LoadUnreadable, Answer, WriteError, Truncate, Fill, RenameError, Chmod, Goto, Finish
  <2>5. QED
    BY <2>1, <2>2, <2>3, <2>4
<1>4. ASSUME NEW p \in Procs, Crash(p)
      PROVE  WritesOverReadable'
  BY <1>4 DEF Crash
<1>5. QED
  BY <1>1, <1>2, <1>3, <1>4 DEF Next

LEMMA NextKeepsSnapshotFresh ==
  ASSUME IInv, [Next]_vars
  PROVE  SnapshotFresh'
<1> USE FileStoreAssumption DEF SnapshotFresh, TypeOK, IInv
<1>1. CASE UNCHANGED vars
  BY <1>1 DEF vars, Contents
<1>2. ASSUME NEW p \in Procs, NEW o \in Ops, Invoke(p, o)
      PROVE  SnapshotFresh'
  BY <1>2 DEF Invoke, Contents
<1>3. ASSUME NEW p \in Procs, Run(p)
      PROVE  SnapshotFresh'
  <2>1. CASE Change(p)
    BY <2>1 DEF Change, Contents
  <2>2. CASE Truncate(p) \/ Fill(p)
    <3>1. \A q \in Procs : pc[q] = "rename" => q = p
      BY <2>2, OnlyHolderInside DEF Truncate, Fill, Locked
    <3>2. QED
      BY <2>2, <3>1 DEF Truncate, Fill, Goto, Contents
  <2>3. CASE Rename(p)
    <3>1. \A q \in Procs : pc[q] \in Writing => q = p
      BY <2>3, OnlyHolderInside DEF Rename, Locked, Writing
    <3>2. QED
      BY <2>3, <3>1 DEF Rename, Goto, Writing
  <2>4. CASE RenameError(p)
    <3>1. \A q \in Procs : pc[q] = "rename" => q = p
      BY <2>4, OnlyHolderInside DEF RenameError, Locked
    <3>2. QED
      BY <2>4, <3>1 DEF RenameError, Finish, Contents
  <2>5. CASE Return(p)
    BY <2>5 DEF Return, Contents
  <2>6. CASE OpenLockFile(p) \/ Acquire(p) \/ Poll(p)
    BY <2>6 DEF OpenLockFile, Acquire, Poll, Goto, Contents
  <2>7. CASE LockError(p) \/ LockTimeout(p) \/ LoadError(p) \/ LoadUnreadable(p)
               \/ Answer(p) \/ WriteError(p) \/ Chmod(p)
    BY <2>7 DEF LockError, LockTimeout, LoadError, LoadUnreadable, Answer, WriteError,
       Chmod, Finish, Contents
  <2>8. QED
    BY <1>3, <2>1, <2>2, <2>3, <2>4, <2>5, <2>6, <2>7 DEF Run
<1>4. ASSUME NEW p \in Procs, Crash(p)
      PROVE  SnapshotFresh'
  BY <1>4 DEF Crash, Contents
<1>5. QED
  BY <1>1, <1>2, <1>3, <1>4 DEF Next

-----------------------------------------------------------------------------
(* The theorems.                                                           *)

\* The inductive invariant holds in every behaviour of the locked store.
THEOREM Invariance == UseFlock => (Spec => []IInv)
<1> SUFFICES ASSUME UseFlock PROVE Spec => []IInv
  OBVIOUS
<1>1. IInv /\ [Next]_vars => IInv'
  BY NextKeepsTypeOK, NextKeepsLockHeld, NextKeepsBusy, NextKeepsWritesOverReadable,
     NextKeepsSnapshotFresh DEF IInv
<1>2. QED
  BY InitIInv, <1>1, PTL DEF Spec

\* Every variable keeps its type (the files hold maps or nothing readable).
THEOREM TypeCorrect == UseFlock => (Spec => []TypeOK)
BY Invariance, PTL DEF IInv

\* Never two processes past the flock, whatever fails, times out or is
\* killed (withLock of flock_unix.go).
THEOREM LockExcludes == UseFlock => (Spec => []MutualExclusion)
<1>1. IInv => MutualExclusion
  BY DEF IInv, LockHeld, Locked, MutualExclusion, Inside
<1>2. QED
  BY <1>1, Invariance, PTL

\* What a writer puts in place is what is there with its own key changed
\* (loadMap ... saveMap under one lock).
THEOREM WritersSnapshotFresh == UseFlock => (Spec => []SnapshotFresh)
BY Invariance, PTL DEF IInv

\* No process ever undoes another's save or delete.
THEOREM NoUpdateIsLost == UseFlock => (Spec => NoLostUpdate)
<1> SUFFICES ASSUME UseFlock PROVE Spec => NoLostUpdate
  OBVIOUS
<1>1. ASSUME IInv, [Next]_vars
      PROVE  \A p \in Procs : pc[p] = "rename" /\ pc'[p] = "chmod" =>
               \A k \in Keys \ {op[p].key} : Contents(enc')[k] = Contents(enc)[k]
  <2> SUFFICES ASSUME NEW p \in Procs, pc[p] = "rename", pc'[p] = "chmod",
                      NEW k \in Keys \ {op[p].key}
               PROVE  Contents(enc')[k] = Contents(enc)[k]
    OBVIOUS
  <2>1. Rename(p)
    <3>1. PICK q \in Procs : (\E o \in Ops : Invoke(q, o)) \/ Run(q) \/ Crash(q)
      BY <1>1 DEF Next, vars
    <3>2. pc \in [Procs -> Labels]
      BY <1>1 DEF IInv, TypeOK
    <3>3. q = p
      BY <3>1, <3>2 DEF Invoke, Crash, Run, OpenLockFile, LockError, Acquire, Poll,
         LockTimeout, LoadError, LoadUnreadable, Answer, Change, WriteError, Truncate, Fill,
         Rename, RenameError, Chmod, Return, Goto, Finish
    <3>4. QED
      BY <3>1, <3>2, <3>3 DEF Invoke, Crash, Run, OpenLockFile, LockError, Acquire, Poll,
         LockTimeout, LoadError, LoadUnreadable, Answer, Change, WriteError, Truncate, Fill,
         RenameError, Chmod, Return, Goto, Finish
  <2>2. enc' = [Contents(enc) EXCEPT ![op[p].key] = op[p].val]
    BY <1>1, <2>1 DEF Rename, IInv, SnapshotFresh
  <2>3. enc' \in Maps
    <3>1. op[p] \in Ops
      BY <1>1 DEF IInv, Busy
    <3>2. [Contents(enc) EXCEPT ![op[p].key] = op[p].val] \in Maps
      BY <3>1, MapChange, ContentsType
    <3>3. QED
      BY <2>2, <3>2
  <2>4. QED
    BY <2>2, <2>3, ContentsType, MapsAreFiles DEF Maps
<1>2. QED
  BY <1>1, Invariance, PTL DEF Spec, NoLostUpdate

\* A readable or absent file never becomes unreadable, whatever fails and
\* whoever is killed (temporary file and rename).
THEOREM FileStaysReadable == UseFlock => (Spec => ReadabilityPreserved)
<1> SUFFICES ASSUME UseFlock PROVE Spec => ReadabilityPreserved
  OBVIOUS
<1>1. ASSUME IInv, [Next]_vars
      PROVE  enc # Unreadable => enc' # Unreadable
  <2>1. ASSUME NEW p \in Procs, Rename(p)
        PROVE  enc' # Unreadable
    <3>1. enc' = snap[p] /\ snap[p] \in Maps
      BY <1>1, <2>1 DEF Rename, IInv, SnapshotFresh, TypeOK
    <3>2. QED
      BY <3>1, MapsAreFiles
  <2>2. CASE \A p \in Procs : ~Rename(p)
    BY <1>1, <2>2 DEF Next, vars, Invoke, Crash, Run, OpenLockFile, LockError, Acquire, Poll,
       LockTimeout, LoadError, LoadUnreadable, Answer, Change, WriteError, Truncate, Fill,
       RenameError, Chmod, Return
  <2>3. QED
    BY <2>1, <2>2
<1>2. QED
  BY <1>1, Invariance, PTL DEF Spec, ReadabilityPreserved

-----------------------------------------------------------------------------
(* The file store implements the credential map.                           *)

\* An operation has a reply exactly while it returns, and only a save or a
\* delete of a present key gets as far as writing.
Replies ==
    \A p \in Procs :
        /\ reply[p] = None <=> pc[p] # "return"
        /\ pc[p] \in Writing =>
             \/ op[p].kind = "save"
             \/ op[p].kind = "delete" /\ Contents(enc)[op[p].key] # None

LEMMA StageType ==
  ASSUME TypeOK
  PROVE  /\ Stage \in [Procs -> {"idle", "pending", "applied", "refused"}]
         /\ \A p \in Procs : (Stage[p] = "idle") <=> (pc[p] = "idle")
         /\ \A p \in Procs : pc[p] \in {"open", "lock", "load", "write", "fill", "rename"}
                => Stage[p] = "pending"
         /\ \A p \in Procs : pc[p] = "chmod" => Stage[p] = "applied"
BY DEF TypeOK, Stage, Labels

\* One process moves: the others' stages stay what they are.
LEMMA StageStep ==
  ASSUME TypeOK, NEW p \in Procs, NEW l \in Labels, NEW r,
         pc' = [pc EXCEPT ![p] = l], reply' = [reply EXCEPT ![p] = r]
  PROVE  /\ l = "idle" => Stage' = [Stage EXCEPT ![p] = "idle"]
         /\ l \in {"open", "lock", "load", "write", "fill", "rename"}
              => Stage' = [Stage EXCEPT ![p] = "pending"]
         /\ l = "chmod" => Stage' = [Stage EXCEPT ![p] = "applied"]
         /\ l = "return" => Stage' = [Stage EXCEPT ![p] =
                               IF r \in Refusals THEN "refused" ELSE "applied"]
BY DEF TypeOK, Stage, Labels

LEMMA NextKeepsReplies ==
  ASSUME IInv, Replies, [Next]_vars
  PROVE  Replies'
<1> USE FileStoreAssumption DEF Replies, Writing, TypeOK, IInv
<1>1. CASE UNCHANGED vars
  BY <1>1 DEF vars, Contents
<1>2. ASSUME NEW p \in Procs, NEW o \in Ops, Invoke(p, o)
      PROVE  Replies'
  BY <1>2 DEF Invoke, Contents
<1>3. ASSUME NEW p \in Procs, Run(p)
      PROVE  Replies'
  <2>1. CASE Change(p)
    BY <2>1 DEF Change, Contents
  <2>2. CASE Truncate(p) \/ Fill(p) \/ OpenLockFile(p) \/ Acquire(p) \/ Poll(p)
    BY <2>2 DEF Truncate, Fill, OpenLockFile, Acquire, Poll, Goto, Contents
  <2>3. CASE Rename(p)
    <3>1. \A q \in Procs : pc[q] \in Writing => q = p
      BY <2>3, OnlyHolderInside DEF Rename, Locked, Writing
    <3>2. QED
      BY <2>3, <3>1 DEF Rename, Goto, Writing
  <2>4. CASE Return(p)
    BY <2>4 DEF Return, Contents
  <2>5. CASE LockError(p) \/ LockTimeout(p) \/ LoadError(p) \/ LoadUnreadable(p)
               \/ WriteError(p) \/ RenameError(p) \/ Chmod(p)
    BY <2>5 DEF LockError, LockTimeout, LoadError, LoadUnreadable, WriteError, RenameError,
       Chmod, Finish, Contents, Outcomes, Refusals
  <2>6. CASE Answer(p)
    BY <2>6 DEF Answer, Finish, Contents, Outcomes, Refusals
  <2>7. QED
    BY <1>3, <2>1, <2>2, <2>3, <2>4, <2>5, <2>6 DEF Run
<1>4. ASSUME NEW p \in Procs, Crash(p)
      PROVE  Replies'
  BY <1>4 DEF Crash, Contents
<1>5. QED
  BY <1>1, <1>2, <1>3, <1>4 DEF Next

LEMMA InitRefines == Init => Replies /\ Abstract!Init
<1> SUFFICES ASSUME Init PROVE Replies /\ Abstract!Init
  OBVIOUS
<1>1. Replies
  BY DEF Init, Replies, Writing
<1>2. Contents(enc) \in [Keys -> Vals \cup {None}]
  BY ContentsType DEF Maps
<1>3. Stage = [p \in Procs |-> "idle"]
  BY DEF Init, Stage
<1>4. QED
  BY <1>1, <1>2, <1>3 DEF Init, Abstract!Init

LEMMA NextRefines ==
  ASSUME IInv, Replies, [Next]_vars
  PROVE  [Abstract!Next]_(Abstract!mapVars)
<1> USE DEF Ops
<1>1. CASE UNCHANGED vars
  BY <1>1 DEF vars, Abstract!mapVars, Contents, Stage
<1>2. ASSUME NEW p \in Procs, NEW o \in Ops, Invoke(p, o)
      PROVE  Abstract!Next
  <2>1. Stage[p] = "idle" /\ Stage' = [Stage EXCEPT ![p] = "pending"]
    <3>1. reply' = [reply EXCEPT ![p] = reply[p]]
      BY <1>2 DEF Invoke, IInv, TypeOK
    <3>2. QED
      BY <1>2, <3>1, StageType, StageStep DEF Invoke, IInv, Labels
  <2>2. Abstract!Invoke(p, o)
    BY <1>2, <2>1 DEF Invoke, Abstract!Invoke, Contents
  <2>3. QED
    BY <2>2 DEF Abstract!Next
<1>3. ASSUME NEW p \in Procs, Run(p)
      PROVE  [Abstract!Next]_(Abstract!mapVars)
  <2>1. CASE OpenLockFile(p) \/ Acquire(p) \/ Poll(p) \/ Change(p) \/ Truncate(p) \/ Fill(p)
    <3>1. UNCHANGED <<enc, op, reply>>
      BY <2>1 DEF OpenLockFile, Acquire, Poll, Change, Truncate, Fill, Goto
    <3>2. pc[p] \in {"open", "lock", "load", "write", "fill", "rename"}
      BY <2>1 DEF OpenLockFile, Acquire, Poll, Change, Truncate, Fill
    <3>3. \E l \in {"open", "lock", "load", "write", "fill", "rename"} :
             pc' = [pc EXCEPT ![p] = l]
      BY <2>1 DEF OpenLockFile, Acquire, Poll, Change, Truncate, Fill, Goto, IInv, TypeOK
    <3>4. Stage' = [Stage EXCEPT ![p] = "pending"]
      <4>1. reply' = [reply EXCEPT ![p] = reply[p]]
        BY <3>1 DEF IInv, TypeOK
      <4>2. QED
        BY <3>3, <4>1, StageStep DEF IInv, Labels
    <3>5. Stage' = Stage
      BY <3>2, <3>4, StageType DEF IInv
    <3>6. QED
      BY <3>1, <3>5 DEF Abstract!mapVars, Contents
  <2>2. CASE LockError(p) \/ LockTimeout(p) \/ LoadError(p) \/ LoadUnreadable(p)
               \/ WriteError(p) \/ RenameError(p)
    <3>1. PICK r \in Refusals : Finish(p, r)
      BY <2>2 DEF LockError, LockTimeout, LoadError, LoadUnreadable, WriteError,
         RenameError, Refusals
    <3>2. pc[p] \in {"open", "lock", "load", "write", "fill", "rename"} /\ UNCHANGED enc
      BY <2>2 DEF LockError, LockTimeout, LoadError, LoadUnreadable, WriteError, RenameError
    <3>3. Stage[p] = "pending" /\ Stage' = [Stage EXCEPT ![p] = "refused"]
      BY <3>1, <3>2, StageType, StageStep DEF Finish, IInv, Labels
    <3>4. Abstract!Refuse(p)
      BY <3>1, <3>2, <3>3 DEF Finish, Abstract!Refuse, Abstract!Refusals, Refusals, Contents
    <3>5. QED
      BY <3>4 DEF Abstract!Next
  <2>3. CASE Answer(p)
    <3>1. op[p] \in Ops /\ op[p].kind # "save"
      BY <2>3 DEF Answer, IInv, Busy
    <3>2. op[p] \in Abstract!Loads \cup Abstract!Deletes /\ op[p].key \in Keys
          /\ (op[p].kind = "load" => op[p] \in Abstract!Loads)
      BY <3>1 DEF Abstract!Ops, Abstract!Loads, Abstract!Deletes, Abstract!Saves
    <3>3. Contents(enc)[op[p].key] \in Vals \cup {None}
      BY <3>2, ContentsType DEF Maps
    <3>4. PICK r : /\ Finish(p, r)
                   /\ r \notin Refusals
                   /\ \/ Contents(enc)[op[p].key] = None /\ r = "not_found"
                      \/ /\ Contents(enc)[op[p].key] # None
                         /\ op[p].kind = "load"
                         /\ r = Contents(enc)[op[p].key]
      BY <2>3, <3>3, FileStoreAssumption DEF Answer, Outcomes, Refusals
    <3>5. Stage[p] = "pending" /\ Stage' = [Stage EXCEPT ![p] = "applied"]
      BY <2>3, <3>4, StageType, StageStep DEF Answer, Finish, IInv, Labels
    <3>6. Abstract!Observe(p)
      BY <2>3, <3>2, <3>4, <3>5 DEF Answer, Finish, Abstract!Observe, Contents
    <3>7. QED
      BY <3>6 DEF Abstract!Next
  <2>4. CASE Rename(p)
    <3>1. op[p] \in Ops /\ reply[p] = None
      BY <2>4 DEF Rename, IInv, Busy, Replies
    <3>2. \/ op[p] \in Abstract!Saves
          \/ op[p] \in Abstract!Deletes /\ Contents(enc)[op[p].key] # None
      BY <2>4, <3>1 DEF Rename, Replies, Writing, Abstract!Ops, Abstract!Loads,
         Abstract!Deletes, Abstract!Saves
    <3>3. enc' = [Contents(enc) EXCEPT ![op[p].key] = op[p].val]
      BY <2>4 DEF Rename, IInv, SnapshotFresh
    <3>4. Contents(enc)' = [Contents(enc) EXCEPT ![op[p].key] = op[p].val]
      <4>1. [Contents(enc) EXCEPT ![op[p].key] = op[p].val] \in Maps
        BY <3>1, MapChange, ContentsType
      <4>2. QED
        BY <3>3, <4>1, MapsAreFiles DEF Contents
    <3>5. Stage[p] = "pending" /\ Stage' = [Stage EXCEPT ![p] = "applied"]
      <4>1. reply' = [reply EXCEPT ![p] = reply[p]]
        BY <2>4 DEF Rename, Goto, IInv, TypeOK
      <4>2. QED
        BY <2>4, <4>1, StageType, StageStep DEF Rename, Goto, IInv, Labels
    <3>6. Abstract!Commit(p)
      BY <2>4, <3>2, <3>4, <3>5 DEF Rename, Goto, Abstract!Commit
    <3>7. QED
      BY <3>6 DEF Abstract!Next
  <2>5. CASE Chmod(p)
    <3>1. PICK r \in {"ok", "chmod_error"} : Finish(p, r)
      BY <2>5 DEF Chmod
    <3>2. reply[p] = None
      BY <2>5 DEF Chmod, Replies
    <3>3. Stage[p] = "applied" /\ Stage' = [Stage EXCEPT ![p] = "applied"]
      BY <2>5, <3>1, StageType, StageStep DEF Chmod, Finish, IInv, Labels, Refusals
    <3>4. Stage' = Stage
      BY <3>3, StageType DEF IInv
    <3>5. Abstract!Acknowledge(p)
      BY <2>5, <3>1, <3>2, <3>3, <3>4 DEF Chmod, Finish, Abstract!Acknowledge,
         Abstract!Acknowledgements, Contents
    <3>6. QED
      BY <3>5 DEF Abstract!Next
  <2>6. CASE Return(p)
    <3>1. Stage[p] # "idle" /\ Stage' = [Stage EXCEPT ![p] = "idle"]
      BY <2>6, StageType, StageStep DEF Return, IInv, Labels
    <3>2. Abstract!Leave(p)
      BY <2>6, <3>1 DEF Return, Abstract!Leave, Contents
    <3>3. QED
      BY <3>2 DEF Abstract!Next
  <2>7. QED
    BY <1>3, <2>1, <2>2, <2>3, <2>4, <2>5, <2>6 DEF Run
<1>4. ASSUME NEW p \in Procs, Crash(p)
      PROVE  Abstract!Next
  <2>1. Stage[p] # "idle" /\ Stage' = [Stage EXCEPT ![p] = "idle"]
    BY <1>4, StageType, StageStep DEF Crash, IInv, Labels
  <2>2. Abstract!Leave(p)
    BY <1>4, <2>1 DEF Crash, Abstract!Leave, Contents
  <2>3. QED
    BY <2>2 DEF Abstract!Next
<1>5. QED
  BY <1>1, <1>2, <1>3, <1>4 DEF Next

\* With its lock the file store implements the credential map: every
\* operation takes effect at one instant or not at all, under crashes,
\* failed system calls and timeouts (filestore.go, flock_unix.go).
THEOREM Refinement == UseFlock => (Spec => RefinesCredentialMap)
<1> SUFFICES ASSUME UseFlock PROVE Spec => RefinesCredentialMap
  OBVIOUS
<1>1. Spec => []Replies
  BY Invariance, InitRefines, NextKeepsReplies, PTL DEF Spec
<1>2. QED
  BY <1>1, Invariance, InitRefines, NextRefines, PTL DEF Spec, RefinesCredentialMap, Abstract!Spec

=============================================================================
