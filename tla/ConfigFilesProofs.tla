-------------------------- MODULE ConfigFilesProofs ---------------------------
(***************************************************************************)
(* ConfigFiles keeps what it promises with any number of writers, in any   *)
(* processes, however they interleave, fail and die.  Both properties rest *)
(* on one invariant: a Set that had the file to itself has found it, and   *)
(* written it, as if there were no other.                                  *)
(***************************************************************************)
EXTENDS ConfigFiles, FiniteSetTheorems, TLAPS

-----------------------------------------------------------------------------
(* The inductive invariant                                                 *)

\* A writer has a file open while it writes; no inode has two names; only
\* the workflows' file has a temporary one.
Opened ==
    /\ \A w \in Writer : fd[w] # None <=> pc[w] = "write"
    /\ target # None => target # tmp
    /\ file = "preferences" => tmp = None /\ \A w \in Writer : pc[w] # "rename"

Counted ==
    /\ \A w \in Writer : set[w][2] <= sets
    /\ \A k \in Key : acked[k] <= sets

\* A Set marked alone runs by itself; if no two ever ran together, each is
\* marked so, and the one running is the latest.
NobodyBeside ==
    /\ \A v, w \in Writer : Active(v) /\ Active(w) /\ alone[w] => v = w
    /\ ~together => \A w \in Writer : Active(w) => alone[w] /\ set[w][2] = sets

Loaded(w) == pc[w] \in {"open", "write", "rename"}

\* The file a Set that is alone writes is the named one, cut to nothing and
\* then holding what it loaded.
OwnFile(w) ==
    /\ pc[w] = "write" => /\ content[fd[w]] = Empty
                          /\ fd[w] = IF file = "preferences" THEN target ELSE tmp
    /\ pc[w] = "rename" => tmp # None /\ content[tmp] = loaded[w]

AloneWrites ==
    \A w \in Writer :
       /\ Loaded(w) => loaded[w][set[w][1]] = set[w][2]
       /\ alone[w] => OwnFile(w)

ReadsAcked == \A k \in Key : Read[k] >= acked[k]

\* What was acknowledged is in the file, and in what a Set goes on with.
\* preferences.json is cut before it is written.
Kept ==
    ~together /\ ~hurt =>
       /\ (file = "preferences" => \A w \in Writer : pc[w] # "write") => ReadsAcked
       /\ \A w \in Writer : Loaded(w) => \A k \in Key : loaded[w][k] >= acked[k]

IInv == TypeOK /\ Opened /\ Counted /\ NobodyBeside /\ AloneWrites /\ Kept

-----------------------------------------------------------------------------
(* Operators                                                               *)

LEMMA ReadIsSettings == TypeOK => Read \in Settings
<1>1. NoSettings \in Settings
  BY ConfigFilesAssumption DEF NoSettings, Settings
<1>2. QED
  BY <1>1 DEF TypeOK, Read

LEMMA InodesAreNumbers == Cardinality(Writer) \in Nat /\ Inode \subseteq Nat \ {None}
<1>1. Cardinality(Writer) \in Nat
  BY ConfigFilesAssumption, FS_CardinalityType
<1>2. QED
  BY <1>1 DEF Inode, None

\* There is an inode for a file to be created: each writer has at most one
\* open, and one of the two names is free.
LEMMA NewInodeIsFree ==
  ASSUME TypeOK, None \in {target, tmp}
  PROVE  /\ NewInode \in Inode
         /\ NewInode \notin {target, tmp} /\ \A w \in Writer : fd[w] # NewInode
<1> DEFINE n == Cardinality(Writer)
           F == {fd[w] : w \in Writer}
<1>1. n \in Nat /\ Inode = 1 .. n + 2 /\ None \notin Inode
  BY InodesAreNumbers DEF Inode
<1>2. IsFiniteSet(F) /\ Cardinality(F) <= n /\ Cardinality(F) \in Nat
  <2>1. fd \in [Writer -> F]
    BY DEF TypeOK
  <2>2. fd \in Surjection(Writer, F)
    BY <2>1 DEF Surjection
  <2>3. QED
    BY <2>2, ConfigFilesAssumption, FS_Surjection, FS_CardinalityType
<1>3. PICK x : {target, tmp} = {None, x}
  OBVIOUS
<1>4. IsFiniteSet(F \cup {x}) /\ Cardinality(F \cup {x}) <= n + 1
      /\ Cardinality(F \cup {x}) \in Nat
  <2>1. /\ IsFiniteSet(F \cup {x})
        /\ Cardinality(F \cup {x}) = IF x \in F THEN Cardinality(F) ELSE Cardinality(F) + 1
    BY <1>2, FS_AddElement
  <2> HIDE DEF F, n
  <2>2. QED
    BY <1>1, <1>2, <2>1
<1>5. IsFiniteSet(Inode) /\ Cardinality(Inode) = n + 2
  <2> HIDE DEF n
  <2>1. 1 \in Int /\ n + 2 \in Int /\ ~(1 > n + 2) /\ n + 2 - 1 + 1 = n + 2
    BY <1>1
  <2>2. QED
    BY <1>1, <2>1, FS_Interval
<1>6. PICK i \in Inode : i \notin F \cup {x}
  <2>1. SUFFICES ASSUME Inode \subseteq F \cup {x}
                 PROVE  FALSE
    OBVIOUS
  <2>2. Cardinality(Inode) <= Cardinality(F \cup {x})
    BY <1>4, <2>1, FS_Subset
  <2> HIDE DEF n, F
  <2>3. QED
    BY <1>1, <1>4, <1>5, <2>2
<1>7. \E j \in Inode : j \notin {target, tmp} \cup F
  BY <1>1, <1>3, <1>6
<1>8. NewInode \in Inode /\ NewInode \notin {target, tmp} \cup F
  BY <1>7 DEF NewInode
<1>9. QED
  BY <1>8

-----------------------------------------------------------------------------
(* The initial states                                                      *)

LEMMA InitIInv == Init => IInv
<1> SUFFICES ASSUME Init
             PROVE  IInv
  OBVIOUS
<1>1. /\ \A w \in Writer : pc[w] = "idle" /\ fd[w] = None /\ alone[w]
      /\ target = None /\ tmp = None /\ sets = 0 /\ acked = NoSettings
  BY DEF Init
<1>2. NoSettings \in Settings /\ \A k \in Key : NoSettings[k] = 0
  BY ConfigFilesAssumption DEF NoSettings, Settings
<1>3. set \in [Writer -> Key \X (0 .. MaxSets)] /\ \A w \in Writer : set[w][2] = 0
  BY ConfigFilesAssumption DEF Init
<1>4. TypeOK
  <2>1. /\ file \in {"preferences", "workflow"}
        /\ content \in [Inode -> Settings \cup {Empty, Torn}]
        /\ pc \in [Writer -> {"idle", "load", "open", "write", "rename"}]
        /\ loaded \in [Writer -> Settings]
        /\ fd \in [Writer -> Inode \cup {None}]
        /\ alone \in [Writer -> BOOLEAN] /\ together \in BOOLEAN /\ hurt \in BOOLEAN
    BY <1>2 DEF Init
  <2>2. sets \in 0 .. MaxSets
    BY <1>1, ConfigFilesAssumption
  <2>3. QED
    BY <1>1, <1>2, <1>3, <2>1, <2>2 DEF TypeOK
<1>5. Opened /\ Counted /\ NobodyBeside /\ AloneWrites
  BY <1>1, <1>2, <1>3 DEF Opened, Counted, NobodyBeside, AloneWrites, Active, Loaded, OwnFile
<1>6. Kept
  <2>1. Read = NoSettings
    BY <1>1 DEF Read
  <2>2. QED
    BY <1>1, <1>2, <2>1 DEF Kept, ReadsAcked, Loaded
<1>7. QED
  BY <1>4, <1>5, <1>6 DEF IInv

-----------------------------------------------------------------------------
(* Each conjunct is kept by every step                                     *)

\* The inode a Set opens is the one of the file's name, or a new one.
LEMMA OpenedInode ==
  ASSUME TypeOK, Opened, NEW w \in Writer, Open(w)
  PROVE  \E i \in Inode :
            /\ content' = [content EXCEPT ![i] = Empty]
            /\ fd' = [fd EXCEPT ![w] = i]
            /\ file = "preferences" => target' = i /\ tmp' = tmp
            /\ file # "preferences" => tmp' = i /\ target' = target /\ i # target
<1> DEFINE name == IF file = "preferences" THEN target ELSE tmp
           i    == IF name = None THEN NewInode ELSE name
<1>1. i \in Inode
  BY NewInodeIsFree DEF TypeOK
<1>2. file # "preferences" => i # target
  BY NewInodeIsFree DEF Opened
<1>3. QED
  BY <1>1, <1>2 DEF Open

LEMMA TypeStep == TypeOK /\ Opened /\ [Next]_vars => TypeOK'
<1> SUFFICES ASSUME TypeOK, Opened, [Next]_vars
             PROVE  TypeOK'
  OBVIOUS
<1>1. ASSUME NEW w \in Writer, NEW k \in Key, Begin(w, k)
      PROVE  TypeOK'
  <2>1. sets + 1 \in 0 .. MaxSets
    BY <1>1, ConfigFilesAssumption DEF Begin, TypeOK
  <2>2. QED
    BY <1>1, <2>1 DEF Begin, TypeOK
<1>2. ASSUME NEW w \in Writer, Load(w)
      PROVE  TypeOK'
  <2>1. [Read EXCEPT ![set[w][1]] = set[w][2]] \in Settings
    BY ReadIsSettings DEF TypeOK, Settings
  <2>2. QED
    BY <1>2, <2>1 DEF Load, TypeOK
<1>3. ASSUME NEW w \in Writer, Open(w)
      PROVE  TypeOK'
  <2>1. PICK i \in Inode :
            /\ content' = [content EXCEPT ![i] = Empty]
            /\ fd' = [fd EXCEPT ![w] = i]
            /\ file = "preferences" => target' = i /\ tmp' = tmp
            /\ file # "preferences" => tmp' = i /\ target' = target /\ i # target
    BY <1>3, OpenedInode
  <2>2. QED
    BY <1>3, <2>1 DEF Open, TypeOK
<1>4. ASSUME NEW w \in Writer, Acknowledge(w)
      PROVE  /\ acked' \in Settings
             /\ pc' \in [Writer -> {"idle", "load", "open", "write", "rename"}]
  BY <1>4 DEF Acknowledge, TypeOK, Settings
<1>5. ASSUME NEW w \in Writer, Write(w)
      PROVE  TypeOK'
  <2>1. content' \in [Inode -> Settings \cup {Empty, Torn}]
    BY <1>5 DEF Write, TypeOK
  <2>2. acked' \in Settings /\ pc' \in [Writer -> {"idle", "load", "open", "write", "rename"}]
    BY <1>4, <1>5 DEF Write, TypeOK
  <2>3. QED
    BY <1>5, <2>1, <2>2 DEF Write, TypeOK
<1>6. ASSUME NEW w \in Writer, Rename(w)
      PROVE  TypeOK'
  BY <1>4, <1>6 DEF Rename, TypeOK
<1>7. ASSUME NEW w \in Writer, Fails(w)
      PROVE  TypeOK'
  BY <1>7 DEF Fails, TypeOK
<1>8. ASSUME NEW p \in Process, Kill(p)
      PROVE  TypeOK'
  BY <1>8 DEF Kill, TypeOK
<1>9. CASE UNCHANGED vars
  BY <1>9 DEF vars, TypeOK
<1>10. QED
  BY <1>1, <1>2, <1>3, <1>5, <1>6, <1>7, <1>8, <1>9 DEF Next

LEMMA OpenedStep == TypeOK /\ Opened /\ [Next]_vars => Opened'
<1> SUFFICES ASSUME TypeOK, Opened, [Next]_vars
             PROVE  Opened'
  OBVIOUS
<1>1. ASSUME NEW w \in Writer, NEW k \in Key, Begin(w, k)
      PROVE  Opened'
  BY <1>1 DEF Begin, TypeOK, Opened
<1>2. ASSUME NEW w \in Writer, Load(w)
      PROVE  Opened'
  BY <1>2 DEF Load, TypeOK, Opened
<1>3. ASSUME NEW w \in Writer, Open(w)
      PROVE  Opened'
  <2>1. PICK i \in Inode :
            /\ content' = [content EXCEPT ![i] = Empty]
            /\ fd' = [fd EXCEPT ![w] = i]
            /\ file = "preferences" => target' = i /\ tmp' = tmp
            /\ file # "preferences" => tmp' = i /\ target' = target /\ i # target
    BY <1>3, OpenedInode
  <2>2. i # None
    BY InodesAreNumbers
  <2>3. pc' = [pc EXCEPT ![w] = "write"] /\ file' = file
    BY <1>3 DEF Open
  <2>4. QED
    BY <2>1, <2>2, <2>3 DEF TypeOK, Opened
<1>4. ASSUME NEW w \in Writer, Write(w)
      PROVE  Opened'
  BY <1>4 DEF Write, Acknowledge, TypeOK, Opened
<1>5. ASSUME NEW w \in Writer, Rename(w)
      PROVE  Opened'
  BY <1>5 DEF Rename, Acknowledge, TypeOK, Opened
<1>6. ASSUME NEW w \in Writer, Fails(w)
      PROVE  Opened'
  BY <1>6 DEF Fails, TypeOK, Opened
<1>7. ASSUME NEW p \in Process, Kill(p)
      PROVE  Opened'
  BY <1>7 DEF Kill, TypeOK, Opened
<1>8. CASE UNCHANGED vars
  BY <1>8 DEF vars, Opened
<1>9. QED
  BY <1>1, <1>2, <1>3, <1>4, <1>5, <1>6, <1>7, <1>8 DEF Next

LEMMA CountedStep == TypeOK /\ Counted /\ [Next]_vars => Counted'
<1> SUFFICES ASSUME TypeOK, Counted, [Next]_vars
             PROVE  Counted'
  OBVIOUS
<1>1. /\ sets \in Int /\ \A w \in Writer : set[w][1] \in Key /\ set[w][2] \in Int
      /\ \A k \in Key : acked[k] \in Int
  BY ConfigFilesAssumption DEF TypeOK, Settings
<1>2. ASSUME NEW w \in Writer, NEW k \in Key, Begin(w, k)
      PROVE  Counted'
  <2>1. /\ sets' = sets + 1 /\ acked' = acked
        /\ \A v \in Writer : set'[v] = IF v = w THEN <<k, sets + 1>> ELSE set[v]
    BY <1>2 DEF Begin, TypeOK
  <2>2. QED
    BY <1>1, <2>1 DEF Counted
<1>3. ASSUME NEW w \in Writer, Acknowledge(w)
      PROVE  \A k \in Key : acked'[k] <= sets
  BY <1>1, <1>3 DEF Acknowledge, Counted, TypeOK, Settings
<1>4. ASSUME NEW w \in Writer, Write(w) \/ Rename(w)
      PROVE  Counted'
  <2>1. set' = set /\ sets' = sets /\ (Acknowledge(w) \/ acked' = acked)
    BY <1>4 DEF Write, Rename
  <2>2. QED
    BY <1>3, <2>1 DEF Counted
<1>5. ASSUME UNCHANGED <<set, sets, acked>>
      PROVE  Counted'
  BY <1>5 DEF Counted
<1>6. QED
  BY <1>2, <1>4, <1>5 DEF Next, Load, Open, Fails, Kill, vars

LEMMA NobodyBesideStep == TypeOK /\ NobodyBeside /\ [Next]_vars => NobodyBeside'
<1> SUFFICES ASSUME TypeOK, NobodyBeside, [Next]_vars
             PROVE  NobodyBeside'
  OBVIOUS
<1>1. ASSUME NEW w \in Writer, NEW k \in Key, Begin(w, k)
      PROVE  NobodyBeside'
  <2>1. \A v \in Writer \ {w} : Active(v) => v \in Beside(w)
    BY <1>1 DEF Begin, Unlocked, Beside, TypeOK
  <2>2. /\ \A v \in Writer \ {w} : pc'[v] = pc[v] /\ set'[v] = set[v]
                                   /\ alone'[v] = (alone[v] /\ v \notin Beside(w))
        /\ pc'[w] = "load" /\ set'[w] = <<k, sets + 1>> /\ set'[w][2] = sets'
        /\ alone'[w] = (Beside(w) = {})
        /\ together' = (together \/ Beside(w) # {})
    BY <1>1 DEF Begin, TypeOK
  <2>3. ASSUME NEW u \in Writer, NEW v \in Writer, Active(u)', Active(v)', alone'[v]
        PROVE  u = v
    <3>1. CASE v = w
      BY <2>1, <2>2, <2>3, <3>1 DEF Active
    <3>2. CASE v # w /\ u = w
      BY <2>1, <2>2, <2>3, <3>2 DEF Active
    <3>3. CASE v # w /\ u # w
      BY <2>2, <2>3, <3>3 DEF Active, NobodyBeside
    <3>4. QED
      BY <3>1, <3>2, <3>3
  <2>4. ASSUME ~together', NEW u \in Writer, Active(u)'
        PROVE  alone'[u] /\ set'[u][2] = sets'
    <3>1. u = w
      BY <2>1, <2>2, <2>4 DEF Active
    <3>2. QED
      BY <2>2, <2>4, <3>1
  <2>5. QED
    BY <2>3, <2>4 DEF NobodyBeside
<1>2. ASSUME UNCHANGED <<set, sets, alone, together>>,
             \A v \in Writer : pc'[v] # "idle" => pc[v] # "idle"
      PROVE  NobodyBeside'
  BY <1>2 DEF NobodyBeside, Active
<1>3. ASSUME NEW w \in Writer, Load(w) \/ Open(w) \/ Write(w) \/ Rename(w) \/ Fails(w)
      PROVE  NobodyBeside'
  BY <1>2, <1>3 DEF Load, Open, Write, Rename, Acknowledge, Fails, TypeOK
<1>4. ASSUME NEW p \in Process, Kill(p)
      PROVE  NobodyBeside'
  BY <1>2, <1>4 DEF Kill
<1>5. CASE UNCHANGED vars
  BY <1>2, <1>5 DEF vars
<1>6. QED
  BY <1>1, <1>3, <1>4, <1>5 DEF Next

\* Over a file that is empty, the text that is written is all there is.
LEMMA WriteAlone ==
  ASSUME TypeOK, Opened, AloneWrites, NEW w \in Writer, alone[w], Write(w)
  PROVE  /\ content' = [content EXCEPT ![fd[w]] = loaded[w]]
         /\ fd[w] \in Inode /\ fd[w] # None
         /\ fd[w] = IF file = "preferences" THEN target ELSE tmp
<1>1. OwnFile(w) /\ pc[w] = "write"
  BY DEF AloneWrites, Write
<1>2. QED
  BY <1>1 DEF Write, OwnFile, Opened, TypeOK

LEMMA AloneWritesStep ==
  TypeOK /\ Opened /\ NobodyBeside /\ AloneWrites /\ [Next]_vars => AloneWrites'
<1> SUFFICES ASSUME TypeOK, Opened, NobodyBeside, AloneWrites, [Next]_vars
             PROVE  AloneWrites'
  OBVIOUS
<1>1. ASSUME NEW v \in Writer, NEW w \in Writer, v # w, Active(w), alone[v]
      PROVE  pc[v] = "idle"
  BY <1>1 DEF NobodyBeside, Active
<1>2. ASSUME NEW w \in Writer, NEW k \in Key, Begin(w, k)
      PROVE  AloneWrites'
  BY <1>2 DEF Begin, AloneWrites, OwnFile, Loaded, TypeOK
<1>3. ASSUME NEW w \in Writer, Load(w)
      PROVE  AloneWrites'
  <2>1. /\ loaded' = [loaded EXCEPT ![w] = [Read EXCEPT ![set[w][1]] = set[w][2]]]
        /\ pc' = [pc EXCEPT ![w] = "open"]
        /\ UNCHANGED <<file, content, target, tmp, set, fd, alone>>
    BY <1>3 DEF Load
  <2>2. Read \in Settings /\ set[w][1] \in Key
    BY ReadIsSettings DEF TypeOK
  <2>3. loaded'[w][set[w][1]] = set[w][2]
    BY <2>1, <2>2 DEF TypeOK, Settings
  <2>4. ASSUME NEW v \in Writer
        PROVE  /\ Loaded(v)' => loaded'[v][set'[v][1]] = set'[v][2]
               /\ alone'[v] => OwnFile(v)'
    <3>1. CASE v = w
      BY <2>1, <2>3, <3>1 DEF OwnFile, TypeOK
    <3>2. CASE v # w
      BY <2>1, <3>2 DEF AloneWrites, OwnFile, Loaded, TypeOK
    <3>3. QED
      BY <3>1, <3>2
  <2>5. QED
    BY <2>4 DEF AloneWrites
<1>4. ASSUME NEW w \in Writer, Open(w)
      PROVE  AloneWrites'
  <2>1. PICK i \in Inode :
            /\ content' = [content EXCEPT ![i] = Empty]
            /\ fd' = [fd EXCEPT ![w] = i]
            /\ file = "preferences" => target' = i /\ tmp' = tmp
            /\ file # "preferences" => tmp' = i /\ target' = target /\ i # target
    BY <1>4, OpenedInode
  <2>2. /\ pc[w] = "open" /\ pc' = [pc EXCEPT ![w] = "write"]
        /\ UNCHANGED <<file, set, loaded, alone>>
    BY <1>4 DEF Open
  <2>3. OwnFile(w)'
    BY <2>1, <2>2 DEF OwnFile, TypeOK
  <2>4. ASSUME NEW v \in Writer, v # w, alone[v]
        PROVE  OwnFile(v)'
    <3>1. pc'[v] = "idle"
      BY <1>1, <2>2, <2>4 DEF Active, TypeOK
    <3>2. QED
      BY <3>1 DEF OwnFile
  <2>5. QED
    BY <2>2, <2>3, <2>4 DEF AloneWrites, Loaded, TypeOK
<1>5. ASSUME NEW w \in Writer, Write(w)
      PROVE  AloneWrites'
  <2>1. /\ pc[w] = "write" /\ UNCHANGED <<file, target, tmp, set, loaded, alone>>
        /\ file = "preferences" => pc' = [pc EXCEPT ![w] = "idle"]
        /\ file # "preferences" => pc' = [pc EXCEPT ![w] = "rename"]
    BY <1>5 DEF Write, Acknowledge
  <2>2. ASSUME alone[w]
        PROVE  OwnFile(w)'
    <3>1. CASE file = "preferences"
      BY <2>1, <3>1 DEF OwnFile, TypeOK
    <3>2. CASE file # "preferences"
      <4>1. content'[tmp] = loaded[w] /\ tmp # None
        BY <1>5, <2>2, <3>2, WriteAlone DEF TypeOK
      <4>2. pc'[w] = "rename"
        BY <2>1, <3>2 DEF TypeOK
      <4>3. QED
        BY <2>1, <4>1, <4>2 DEF OwnFile
    <3>3. QED
      BY <3>1, <3>2
  <2>3. ASSUME NEW v \in Writer, v # w, alone[v]
        PROVE  OwnFile(v)'
    <3>1. pc'[v] = "idle"
      BY <1>1, <2>1, <2>3 DEF Active, TypeOK
    <3>2. QED
      BY <3>1 DEF OwnFile
  <2>4. QED
    BY <2>1, <2>2, <2>3 DEF AloneWrites, Loaded, TypeOK
<1>6. ASSUME UNCHANGED <<set, loaded, alone>>, \A v \in Writer : pc'[v] \in {pc[v], "idle"},
             NEW w \in Writer, Active(w), pc'[w] = "idle"
      PROVE  AloneWrites'
  <2>1. ASSUME NEW v \in Writer, alone[v]
        PROVE  OwnFile(v)'
    <3>1. pc'[v] = "idle"
      BY <1>1, <1>6, <2>1
    <3>2. QED
      BY <3>1 DEF OwnFile
  <2>2. QED
    BY <1>6, <2>1 DEF AloneWrites, Loaded
<1>7. ASSUME NEW w \in Writer, Rename(w) \/ Fails(w)
      PROVE  AloneWrites'
  BY <1>6, <1>7 DEF Rename, Acknowledge, Fails, Active, TypeOK
<1>8. ASSUME NEW p \in Process, Kill(p)
      PROVE  AloneWrites'
  <2>1. PICK w \in Writer : ProcessOf[w] = p /\ Active(w)
    BY <1>8 DEF Kill
  <2>2. pc'[w] = "idle" /\ \A v \in Writer : pc'[v] \in {pc[v], "idle"}
    BY <1>8, <2>1 DEF Kill
  <2>3. QED
    BY <1>6, <1>8, <2>1, <2>2 DEF Kill
<1>9. CASE UNCHANGED vars
  BY <1>9 DEF vars, AloneWrites, OwnFile, Loaded
<1>10. QED
  BY <1>2, <1>3, <1>4, <1>5, <1>7, <1>8, <1>9 DEF Next

\* The write of preferences.json, and the rename of the workflows' file, make
\* what a Set that is alone loaded the named file's content.
LEMMA CommitAlone ==
  ASSUME TypeOK, Opened, AloneWrites, NEW w \in Writer, alone[w],
         (Write(w) /\ file = "preferences") \/ Rename(w)
  PROVE  /\ Read' = loaded[w] /\ loaded[w] \in Settings
         /\ set[w][1] \in Key /\ loaded[w][set[w][1]] = set[w][2]
         /\ acked' = [acked EXCEPT ![set[w][1]] = set[w][2]]
         /\ pc' = [pc EXCEPT ![w] = "idle"] /\ loaded' = loaded
<1>1. /\ loaded[w] \in Settings /\ set[w][1] \in Key
      /\ loaded[w][set[w][1]] = set[w][2]
  BY DEF TypeOK, AloneWrites, Loaded, Write, Rename
<1>2. /\ acked' = [acked EXCEPT ![set[w][1]] = set[w][2]]
      /\ pc' = [pc EXCEPT ![w] = "idle"] /\ loaded' = loaded
  BY DEF Write, Rename, Acknowledge
<1>3. target' # None /\ content'[target'] = loaded[w]
  <2>1. CASE Write(w) /\ file = "preferences"
    <3>1. target' = target /\ target = fd[w]
      BY <2>1, WriteAlone DEF Write
    <3>2. QED
      BY <2>1, <3>1, WriteAlone DEF TypeOK
  <2>2. CASE Rename(w)
    BY <2>2 DEF Rename, AloneWrites, OwnFile
  <2>3. QED
    BY <2>1, <2>2
<1>4. QED
  BY <1>1, <1>2, <1>3 DEF Read

LEMMA KeptStep ==
  TypeOK /\ Opened /\ Counted /\ NobodyBeside /\ AloneWrites /\ Kept /\ [Next]_vars => Kept'
<1> SUFFICES ASSUME TypeOK, Opened, Counted, NobodyBeside, AloneWrites, Kept, [Next]_vars,
                    ~together', ~hurt'
             PROVE  /\ (file' = "preferences" => \A v \in Writer : pc'[v] # "write")
                          => ReadsAcked'
                    /\ \A v \in Writer : Loaded(v)' =>
                          \A k \in Key : loaded'[v][k] >= acked'[k]
  BY DEF Kept
<1>1. ~together /\ ~hurt /\ file' = file
  <2>1. file' = file /\ (together => together') /\ (hurt => hurt')
    <3>1. CASE \E w \in Writer, k \in Key : Begin(w, k)
      BY <3>1 DEF Begin, TypeOK
    <3>2. CASE (\E w \in Writer : Fails(w)) \/ \E p \in Process : Kill(p)
      BY <3>2 DEF Fails, Kill, TypeOK
    <3>3. CASE UNCHANGED <<file, together, hurt>>
      BY <3>3
    <3>4. \/ UNCHANGED <<file, together, hurt>>
          \/ \E w \in Writer, k \in Key : Begin(w, k)
          \/ (\E w \in Writer : Fails(w)) \/ \E p \in Process : Kill(p)
      BY DEF Next, Load, Open, Write, Rename, vars
    <3>5. QED
      BY <3>1, <3>2, <3>3, <3>4
  <2>2. QED
    BY <2>1
<1>2. /\ (file = "preferences" => \A v \in Writer : pc[v] # "write") => ReadsAcked
      /\ \A v \in Writer : Loaded(v) => \A k \in Key : loaded[v][k] >= acked[k]
  BY <1>1 DEF Kept
<1>3. ASSUME NEW w \in Writer, Active(w)
      PROVE  /\ alone[w] /\ set[w][2] = sets
             /\ \A v \in Writer \ {w} : pc[v] = "idle"
  BY <1>1, <1>3 DEF NobodyBeside, Active
<1>4. ASSUME UNCHANGED <<content, target, acked>>, ReadsAcked
      PROVE  ReadsAcked'
  BY <1>4 DEF ReadsAcked, Read
<1>5. /\ sets \in Int /\ \A w \in Writer : set[w][1] \in Key /\ set[w][2] \in Int
      /\ \A k \in Key : acked[k] \in Int /\ Read[k] \in Int
  BY ConfigFilesAssumption, ReadIsSettings DEF TypeOK, Settings
<1>6. ASSUME NEW w \in Writer, NEW k \in Key, Begin(w, k)
      PROVE  /\ (file' = "preferences" => \A v \in Writer : pc'[v] # "write") => ReadsAcked'
             /\ \A v \in Writer : Loaded(v)' => \A h \in Key : loaded'[v][h] >= acked'[h]
  <2>1. /\ UNCHANGED <<content, target, acked, loaded>>
        /\ \A v \in Writer : pc'[v] = IF v = w THEN "load" ELSE pc[v]
        /\ pc[w] = "idle"
    BY <1>6 DEF Begin, TypeOK
  <2>2. QED
    BY <1>1, <1>2, <1>4, <2>1 DEF Loaded
<1>7. ASSUME NEW w \in Writer, Load(w)
      PROVE  /\ (file' = "preferences" => \A v \in Writer : pc'[v] # "write") => ReadsAcked'
             /\ \A v \in Writer : Loaded(v)' => \A h \in Key : loaded'[v][h] >= acked'[h]
  <2>1. /\ UNCHANGED <<content, target, acked>>
        /\ loaded' = [loaded EXCEPT ![w] = [Read EXCEPT ![set[w][1]] = set[w][2]]]
        /\ \A v \in Writer : pc'[v] = IF v = w THEN "open" ELSE pc[v]
        /\ pc[w] = "load"
    BY <1>7 DEF Load, TypeOK
  <2>2. ReadsAcked /\ \A v \in Writer : Loaded(v)' => v = w
    BY <1>2, <1>3, <2>1 DEF Active, Loaded
  <2>3. ASSUME NEW h \in Key
        PROVE  loaded'[w][h] >= acked[h]
    <3>1. loaded'[w][h] = IF h = set[w][1] THEN sets ELSE Read[h]
      BY <1>3, <2>1, ReadIsSettings DEF TypeOK, Settings, Active
    <3>2. QED
      BY <1>5, <2>2, <3>1 DEF ReadsAcked, Counted
  <2>4. QED
    BY <1>4, <2>1, <2>2, <2>3
<1>8. ASSUME NEW w \in Writer, Open(w)
      PROVE  /\ (file' = "preferences" => \A v \in Writer : pc'[v] # "write") => ReadsAcked'
             /\ \A v \in Writer : Loaded(v)' => \A h \in Key : loaded'[v][h] >= acked'[h]
  <2>1. PICK i \in Inode :
            /\ content' = [content EXCEPT ![i] = Empty]
            /\ fd' = [fd EXCEPT ![w] = i]
            /\ file = "preferences" => target' = i /\ tmp' = tmp
            /\ file # "preferences" => tmp' = i /\ target' = target /\ i # target
    BY <1>8, OpenedInode
  <2>2. /\ UNCHANGED <<loaded, acked>> /\ pc[w] = "open"
        /\ \A v \in Writer : pc'[v] = IF v = w THEN "write" ELSE pc[v]
    BY <1>8 DEF Open, TypeOK
  <2>3. ASSUME file # "preferences"
        PROVE  ReadsAcked'
    <3>1. ReadsAcked /\ target' = target
      BY <1>2, <2>1, <2>3
    <3>2. target # None => content'[target] = content[target]
      BY <2>1, <2>3 DEF TypeOK
    <3>3. Read' = Read
      BY <3>1, <3>2 DEF Read
    <3>4. QED
      BY <2>2, <3>1, <3>3 DEF ReadsAcked
  <2>4. QED
    BY <1>1, <1>2, <2>2, <2>3 DEF Loaded
<1>9. ASSUME NEW w \in Writer, (Write(w) /\ file = "preferences") \/ Rename(w)
      PROVE  /\ (file' = "preferences" => \A v \in Writer : pc'[v] # "write") => ReadsAcked'
             /\ \A v \in Writer : Loaded(v)' => \A h \in Key : loaded'[v][h] >= acked'[h]
  <2>1. Loaded(w) /\ Active(w)
    BY <1>9 DEF Loaded, Active, Write, Rename
  <2>2. alone[w] /\ \A v \in Writer \ {w} : pc[v] = "idle"
    BY <1>3, <2>1
  <2>3. /\ Read' = loaded[w] /\ loaded[w] \in Settings
        /\ set[w][1] \in Key /\ loaded[w][set[w][1]] = set[w][2]
        /\ acked' = [acked EXCEPT ![set[w][1]] = set[w][2]]
        /\ pc' = [pc EXCEPT ![w] = "idle"] /\ loaded' = loaded
    BY <1>9, <2>2, CommitAlone
  <2>4. \A v \in Writer : ~Loaded(v)'
    BY <2>2, <2>3 DEF Loaded, TypeOK
  <2>5. ASSUME NEW h \in Key
        PROVE  Read'[h] >= acked'[h]
    <3>1. acked'[h] = IF h = set[w][1] THEN set[w][2] ELSE acked[h]
      BY <2>3 DEF TypeOK, Settings
    <3>2. loaded[w][h] >= acked[h] /\ set[w][2] >= set[w][2]
      BY <1>2, <1>5, <2>1
    <3>3. QED
      BY <2>3, <3>1, <3>2
  <2>6. QED
    BY <2>4, <2>5 DEF ReadsAcked
<1>10. ASSUME NEW w \in Writer, Write(w), file # "preferences"
       PROVE  /\ (file' = "preferences" => \A v \in Writer : pc'[v] # "write") => ReadsAcked'
              /\ \A v \in Writer : Loaded(v)' => \A h \in Key : loaded'[v][h] >= acked'[h]
  <2>1. /\ UNCHANGED <<target, loaded, acked>> /\ pc[w] = "write"
        /\ \A v \in Writer : pc'[v] = IF v = w THEN "rename" ELSE pc[v]
    BY <1>10 DEF Write, TypeOK
  <2>2. /\ content' = [content EXCEPT ![fd[w]] = loaded[w]]
        /\ fd[w] # target
    <3>1. alone[w]
      BY <1>3, <2>1 DEF Active
    <3>2. QED
      BY <1>10, <3>1, WriteAlone DEF Opened
  <2>3. Read' = Read
    <3>1. target # None => content'[target] = content[target]
      BY <2>2 DEF TypeOK
    <3>2. QED
      BY <2>1, <3>1 DEF Read
  <2>4. ReadsAcked'
    BY <1>2, <1>10, <2>1, <2>3 DEF ReadsAcked
  <2>5. QED
    BY <1>2, <2>1, <2>4 DEF Loaded
<1>11. ASSUME NEW w \in Writer, Fails(w)
       PROVE  /\ (file' = "preferences" => \A v \in Writer : pc'[v] # "write") => ReadsAcked'
              /\ \A v \in Writer : Loaded(v)' => \A h \in Key : loaded'[v][h] >= acked'[h]
  <2>1. /\ UNCHANGED <<target, loaded, acked>> /\ Active(w)
        /\ \A v \in Writer : pc'[v] = IF v = w THEN "idle" ELSE pc[v]
        /\ file = "preferences" => pc[w] # "write"
        /\ pc[w] # "write" => content' = content
        /\ pc[w] = "write" => content' = [content EXCEPT ![fd[w]] = Torn]
    BY <1>11 DEF Fails, TypeOK
  <2>2. /\ alone[w] /\ \A v \in Writer \ {w} : pc[v] = "idle"
    BY <1>3, <2>1
  <2>3. ReadsAcked
    BY <1>2, <2>1, <2>2
  <2>4. Read' = Read
    <3>1. CASE pc[w] # "write"
      BY <2>1, <3>1 DEF Read
    <3>2. CASE pc[w] = "write"
      <4>1. fd[w] = tmp /\ fd[w] # None
        BY <2>1, <2>2, <3>2 DEF AloneWrites, OwnFile, Opened
      <4>2. target # None => content'[target] = content[target]
        BY <2>1, <3>2, <4>1 DEF Opened, TypeOK
      <4>3. QED
        BY <2>1, <4>2 DEF Read
    <3>3. QED
      BY <3>1, <3>2
  <2>5. QED
    BY <1>2, <2>1, <2>3, <2>4 DEF ReadsAcked, Loaded
<1>12. ASSUME NEW p \in Process, Kill(p)
       PROVE  /\ (file' = "preferences" => \A v \in Writer : pc'[v] # "write") => ReadsAcked'
              /\ \A v \in Writer : Loaded(v)' => \A h \in Key : loaded'[v][h] >= acked'[h]
  <2>1. /\ UNCHANGED <<content, target, loaded, acked>>
        /\ \A v \in Writer : pc'[v] = IF ProcessOf[v] = p THEN "idle" ELSE pc[v]
        /\ file = "preferences" =>
              \A v \in Writer : ProcessOf[v] = p => pc[v] # "write"
    BY <1>12 DEF Kill
  <2>2. QED
    BY <1>1, <1>2, <1>4, <2>1 DEF Loaded
<1>13. CASE UNCHANGED vars
  BY <1>2, <1>4, <1>13 DEF vars, Loaded
<1>14. QED
  BY <1>6, <1>7, <1>8, <1>9, <1>10, <1>11, <1>12, <1>13 DEF Next

-----------------------------------------------------------------------------
(* The theorems                                                            *)

\* Every reachable state satisfies the invariant the two results rest on: in
\* it a Set marked alone is the only one running and owns the file it writes.
THEOREM Invariance == Spec => []IInv
<1>1. IInv /\ [Next]_vars => IInv'
  BY TypeStep, OpenedStep, CountedStep, NobodyBesideStep, AloneWritesStep, KeptStep DEF IInv
<1>2. QED
  BY InitIInv, <1>1, PTL DEF Spec

\* Nothing acknowledged is lost while no two processes write at once: SetWorkflowConfig
\* may be interrupted at any step, Set of preferences only outside its write.
THEOREM NothingAcknowledgedIsLost == Spec => []AloneNothingIsLost
<1>1. IInv => AloneNothingIsLost
  BY DEF IInv, Kept, AloneNothingIsLost, ReadsAcked, Active
<1>2. QED
  BY Invariance, <1>1, PTL

\* Whatever torn, mixed or left-over files it meets, a Set that had the file
\* to itself and returned without an error is what a reader then finds.
THEOREM AcknowledgedIsFound == Spec => AckedAloneIsFound
<1>1. ASSUME IInv, [Next]_vars, NEW w \in Writer,
             acked' # acked, Active(w), ~Active(w)', alone[w]
      PROVE  Read'[set[w][1]] = set[w][2]
  <2>1. PICK v \in Writer : (Write(v) /\ file = "preferences") \/ Rename(v)
    BY <1>1 DEF Next, Begin, Load, Open, Write, Fails, Kill, vars
  <2>2. v = w
    BY <1>1, <2>1 DEF IInv, NobodyBeside, Active, Write, Rename
  <2>3. QED
    BY <1>1, <2>1, <2>2, CommitAlone DEF IInv
<1>2. IInv /\ [Next]_vars =>
        [\A w \in Writer : acked' # acked /\ Active(w) /\ ~Active(w)' /\ alone[w]
            => Read'[set[w][1]] = set[w][2]]_vars
  BY <1>1
<1>3. QED
  BY Invariance, <1>2, PTL DEF Spec, AckedAloneIsFound

=============================================================================
