----------------------------- MODULE ConfigFiles ------------------------------
(***************************************************************************)
(* The two configuration files of gwx, maps from keys to strings that are  *)
(* read, changed and written back whole:                                   *)
(*                                                                         *)
(*   preferences   preferences.json, `config set`: no lock, written in     *)
(*                 place                                                   *)
(*   workflow      workflow.json, the spreadsheet ids of the workflows: a  *)
(*                 mutex in each process, a temporary file and a rename    *)
(*                                                                         *)
(* Writers are goroutines, in one process or another; a process may die    *)
(* at any step and a write may fail.  What a file holds belongs to its     *)
(* inode, and the names of the files refer to inodes: a file still open    *)
(* when it is renamed is written under its new name.                       *)
(***************************************************************************)
EXTENDS Integers, FiniteSets

CONSTANTS
    Process,
    Writer,
    ProcessOf,  \* [Writer -> Process]
    Key,
    MaxSets     \* bound on the calls of Set

ASSUME ConfigFilesAssumption ==
    /\ ProcessOf \in [Writer -> Process]
    /\ IsFiniteSet(Writer) /\ Key # {} /\ MaxSets \in Nat

None == 0

\* Two names and an open file for each writer.
Inode == 1 .. Cardinality(Writer) + 2

\* Settings: the number of the Set that made it, 0 for a key that is absent.
Settings == [Key -> 0 .. MaxSets]
NoSettings == [k \in Key |-> 0]

\* What an inode holds that is no map: nothing yet; a part of one, or the
\* parts of two.
Empty == [k \in Key |-> -1]
Torn  == [k \in Key |-> -2]

VARIABLES
    file,      \* which of the two files
    content,   \* [Inode -> Settings, Empty or Torn]
    target,    \* the inode of the file's name, or None
    tmp,       \* the inode of its name with .tmp, or None
    pc,        \* [Writer -> idle, load, open, write, rename]
    set,       \* [Writer -> the key and number of its Set]
    loaded,    \* [Writer -> the map it changes]
    fd,        \* [Writer -> the inode it has open, or None]
    sets,      \* calls of Set so far
    acked,     \* [Key -> the last Set that returned without an error]
    alone,     \* [Writer -> nobody it is not kept from ran during its Set]
    together,  \* two such Sets have run at once
    hurt       \* a Set has failed or died while it wrote in place

vars == <<file, content, target, tmp, pc, set, loaded, fd, sets, acked, alone,
          together, hurt>>

TypeOK ==
    /\ file \in {"preferences", "workflow"}
    /\ content \in [Inode -> Settings \cup {Empty, Torn}]
    /\ target \in Inode \cup {None} /\ tmp \in Inode \cup {None}
    /\ pc \in [Writer -> {"idle", "load", "open", "write", "rename"}]
    /\ set \in [Writer -> Key \X (0 .. MaxSets)]
    /\ loaded \in [Writer -> Settings]
    /\ fd \in [Writer -> Inode \cup {None}]
    /\ sets \in 0 .. MaxSets
    /\ acked \in Settings
    /\ alone \in [Writer -> BOOLEAN] /\ together \in BOOLEAN /\ hurt \in BOOLEAN

Init ==
    /\ file \in {"preferences", "workflow"}
    /\ content = [i \in Inode |-> Empty]
    /\ target = None /\ tmp = None
    /\ pc = [w \in Writer |-> "idle"]
    /\ set \in [Writer -> {<<CHOOSE k \in Key : TRUE, 0>>}]
    /\ loaded = [w \in Writer |-> NoSettings]
    /\ fd = [w \in Writer |-> None]
    /\ sets = 0 /\ acked = NoSettings
    /\ alone = [w \in Writer |-> TRUE] /\ together = FALSE /\ hurt = FALSE

-----------------------------------------------------------------------------
Active(w) == pc[w] # "idle"

\* os.ReadFile of the name, and Unmarshal: a file that is absent or that does
\* not parse is an empty map.
Read ==
    IF target = None \/ content[target] \notin Settings
    THEN NoSettings ELSE content[target]

\* Seeded fault: no mutex.
Unlocked_Always(w) == TRUE

\* workflowMu: one Set at a time in each process.
Unlocked(w) ==
    file = "workflow" =>
        \A v \in Writer : Active(v) => ProcessOf[v] # ProcessOf[w]

\* Whom the code lets run beside w: for workflow.json, other processes.
Beside(w) ==
    {v \in Writer \ {w} : Active(v) /\
        (file = "preferences" \/ ProcessOf[v] # ProcessOf[w])}

Begin(w, k) ==
    /\ pc[w] = "idle" /\ sets < MaxSets /\ Unlocked(w)
    /\ pc' = [pc EXCEPT ![w] = "load"]
    /\ sets' = sets + 1
    /\ set' = [set EXCEPT ![w] = <<k, sets + 1>>]
    /\ alone' = [v \in Writer |->
                    IF v = w THEN Beside(w) = {}
                    ELSE alone[v] /\ v \notin Beside(w)]
    /\ together' = (together \/ Beside(w) # {})
    /\ UNCHANGED <<file, content, target, tmp, loaded, fd, acked, hurt>>

Load(w) ==
    /\ pc[w] = "load"
    /\ loaded' = [loaded EXCEPT ![w] = [Read EXCEPT ![set[w][1]] = set[w][2]]]
    /\ pc' = [pc EXCEPT ![w] = "open"]
    /\ UNCHANGED <<file, content, target, tmp, set, fd, sets, acked, alone,
                   together, hurt>>

\* os.WriteFile opens the file, or creates it, and truncates it.
NewInode ==
    CHOOSE i \in Inode : i \notin {target, tmp} \cup {fd[w] : w \in Writer}

\* Seeded fault: a file that is there is not truncated.
Open_NoTruncation(w) ==
    LET name == IF file = "preferences" THEN target ELSE tmp
        i    == IF name = None THEN NewInode ELSE name
    IN  /\ pc[w] = "open"
        /\ fd' = [fd EXCEPT ![w] = i]
        /\ IF file = "preferences"
           THEN target' = i /\ UNCHANGED tmp
           ELSE tmp' = i /\ UNCHANGED target
        /\ pc' = [pc EXCEPT ![w] = "write"]
        /\ UNCHANGED <<file, content, set, loaded, sets, acked, alone, together, hurt>>

Open(w) ==
    LET name == IF file = "preferences" THEN target ELSE tmp
        i    == IF name = None THEN NewInode ELSE name
    IN  /\ pc[w] = "open"
        /\ content' = [content EXCEPT ![i] = Empty]
        /\ fd' = [fd EXCEPT ![w] = i]
        /\ IF file = "preferences"
           THEN target' = i /\ UNCHANGED tmp
           ELSE tmp' = i /\ UNCHANGED target
        /\ pc' = [pc EXCEPT ![w] = "write"]
        /\ UNCHANGED <<file, set, loaded, sets, acked, alone, together, hurt>>

Acknowledge(w) ==
    /\ pc' = [pc EXCEPT ![w] = "idle"]
    /\ acked' = [acked EXCEPT ![set[w][1]] = set[w][2]]

\* Over what another wrote since, a shorter text leaves the other's tail.
Write(w) ==
    LET i == fd[w] IN
    /\ pc[w] = "write"
    /\ \E c \in {loaded[w]} \cup
                (IF content[i] = Empty THEN {} ELSE {Torn}) :
           content' = [content EXCEPT ![i] = c]
    /\ fd' = [fd EXCEPT ![w] = None]
    /\ IF file = "preferences"
       THEN Acknowledge(w)
       ELSE pc' = [pc EXCEPT ![w] = "rename"] /\ UNCHANGED acked
    /\ UNCHANGED <<file, target, tmp, set, loaded, sets, alone, together, hurt>>

\* The temporary file goes by its name, whoever wrote it last.
Rename(w) ==
    /\ pc[w] = "rename" /\ tmp # None
    /\ target' = tmp /\ tmp' = None
    /\ Acknowledge(w)
    /\ UNCHANGED <<file, content, set, loaded, fd, sets, alone, together, hurt>>

\* An error at any step is returned: the file cannot be read or opened, the
\* disk is full, another process has renamed the temporary file away.
Fails(w) ==
    /\ Active(w)
    /\ pc' = [pc EXCEPT ![w] = "idle"]
    /\ fd' = [fd EXCEPT ![w] = None]
    /\ IF pc[w] = "write"
       THEN content' = [content EXCEPT ![fd[w]] = Torn]
       ELSE UNCHANGED content
    /\ hurt' = (hurt \/ (file = "preferences" /\ pc[w] = "write"))
    /\ UNCHANGED <<file, target, tmp, set, loaded, sets, acked, alone, together>>

\* A process dies; another may be started in its place.
Kill(p) ==
    LET dead == {w \in Writer : ProcessOf[w] = p} IN
    /\ \E w \in dead : Active(w)
    /\ pc' = [w \in Writer |-> IF w \in dead THEN "idle" ELSE pc[w]]
    /\ fd' = [w \in Writer |-> IF w \in dead THEN None ELSE fd[w]]
    /\ hurt' = (hurt \/ (file = "preferences" /\ \E w \in dead : pc[w] = "write"))
    /\ UNCHANGED <<file, content, target, tmp, set, loaded, sets, acked, alone,
                   together>>

Next ==
    \/ \E w \in Writer :
        \/ \E k \in Key : Begin(w, k)
        \/ Load(w) \/ Open(w) \/ Write(w) \/ Rename(w) \/ Fails(w)
    \/ \E p \in Process : Kill(p)

Spec == Init /\ [][Next]_vars

-----------------------------------------------------------------------------
(* Properties                                                              *)

\* As long as no two processes write workflow.json at once, GetWorkflowConfig
\* finds every acknowledged setting, or a later one, at any time: while
\* others are written and after processes died or failed at any step.  For
\* preferences.json this is so between the Sets, as long as no two overlapped
\* and none failed or died while it wrote.
AloneNothingIsLost ==
    /\ ~together /\ ~hurt
    /\ file = "preferences" => \A w \in Writer : ~Active(w)
    => \A k \in Key : Read[k] >= acked[k]

\* A Set that had the file to itself and was acknowledged is found at that
\* moment, whatever earlier ones left behind: a torn file, a temporary file,
\* a mixture of two texts.
AckedAloneIsFound ==
    [][\A w \in Writer :
        acked' # acked /\ Active(w) /\ ~Active(w)' /\ alone[w]
            => Read'[set[w][1]] = set[w][2]]_vars

=============================================================================
