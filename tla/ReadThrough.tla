------------------------------ MODULE ReadThrough ------------------------------
(***************************************************************************)
(* Calls of the cached service methods, sharing one Client and its cache.  *)
(*                                                                         *)
(* A caller is a goroutine: the command itself, the MCP server's loop, a   *)
(* parallel step of a skill, one fetch of an aggregation.  Its stack holds *)
(* a frame per method being executed; methods that call methods push.  The *)
(* cache's mutex is held only inside Get, Set and InvalidatePrefix, so     *)
(* between any two of them, and around the remote call, others run.        *)
(*                                                                         *)
(* Remote state is a version per service, raised by every write.           *)
(***************************************************************************)
EXTENDS LruCache

CONSTANTS
    Callers,
    Methods,            \* name -> record of ApiMethods
    Calls,              \* the methods callers call
    Unit,               \* minutes in a unit of time
    MaxWrites           \* bound on the writes per service

Services == {Methods[m].service : m \in DOMAIN Methods}

ASSUME ReadThroughAssumption ==
    /\ Calls \subseteq DOMAIN Methods
    /\ Unit \in Nat \ {0}
    /\ MaxWrites \in Nat

\* What a table of methods is: a method's keys are the cache's, the methods it
\* calls are of its service, what it caches it makes of what is cached, and
\* methods that share a key share service and TTL.
ASSUME MethodsAssumption ==
    \A m \in DOMAIN Methods :
       /\ Methods[m].looks \cup Methods[m].fills \subseteq Keys
       /\ Methods[m].ttl \in Nat
       /\ Methods[m].remote \in {"read", "write", "none"}
       /\ Methods[m].inner \in Seq(DOMAIN Methods)
       /\ \A i \in DOMAIN Methods[m].inner :
             /\ Methods[Methods[m].inner[i]].service = Methods[m].service
             /\ Methods[m].fills # {} => Methods[Methods[m].inner[i]].fills # {}
       /\ Methods[m].fills # {} => Methods[m].remote # "write"
       /\ \A n \in DOMAIN Methods :
             /\ (Methods[m].looks \cup Methods[m].fills) \cap Methods[n].fills # {}
                   => Methods[m].service = Methods[n].service
             /\ Methods[m].fills \cap Methods[n].fills # {}
                   => Methods[m].ttl = Methods[n].ttl

VARIABLES
    version,            \* remote state of each service
    stack,              \* the frames of each caller, innermost last
    cleared,            \* ghost: last version whose write cleared the cache
    acked,              \* ghost: last version acknowledged to its writer
    since               \* ghost: cleared when a caller's call began

vars == <<entries, eviction, version, stack, cleared, acked, since>>

Max(a, b) == IF a >= b THEN a ELSE b
Min(a, b) == IF a <= b THEN a ELSE b

-----------------------------------------------------------------------------
(* Data: its version, and how long it sat in the cache.  A cached value    *)
(* keeps the age it had when it was Set.                                   *)

Newest == [ver |-> MaxWrites, age |-> 0]

\* A result built from two pieces of data is as old as the older.
Combine(a, b) == [ver |-> Min(a.ver, b.ver), age |-> Max(a.age, b.age)]

Fresh(service) == [ver |-> version[service], age |-> 0]

\* The TTL with which a key is Set, in units.
Ttl(k) == (CHOOSE t \in {Methods[m].ttl : m \in {n \in DOMAIN Methods : k \in Methods[n].fills}} :
             TRUE) \div Unit

FromCache(k) ==
    [ver |-> entries[k].value.ver,
     age |-> entries[k].value.age + Ttl(k) - entries[k].left]

(* Frames.  at: "enter", about to look its keys up; "body", its inner and  *)
(* remote calls; "finish", about to Set or InvalidatePrefix and return.    *)

Frame(m) == [method |-> m, at |-> "enter", called |-> 0, held |-> Newest]

Idle(c) == stack[c] = <<>>
Top(c) == stack[c][Len(stack[c])]
Method(c) == Methods[Top(c).method]
Below(c) == SubSeq(stack[c], 1, Len(stack[c]) - 1)

At(c, label) == ~Idle(c) /\ Top(c).at = label

Update(c, frame) == stack' = [stack EXCEPT ![c] = Append(Below(c), frame)]

\* The method on top returns data to the one below it, or to the caller.
Return(c, data) ==
    IF Len(stack[c]) = 1
    THEN /\ stack' = [stack EXCEPT ![c] = <<>>]
         /\ since' = [since EXCEPT ![c] = 0]
    ELSE LET below == stack[c][Len(stack[c]) - 1]
         IN  /\ stack' = [stack EXCEPT ![c] =
                   Append(SubSeq(stack[c], 1, Len(stack[c]) - 2),
                          [below EXCEPT !.called = @ + 1,
                                        !.held = Combine(@, data)])]
             /\ UNCHANGED since

-----------------------------------------------------------------------------
Init ==
    /\ CacheInit
    /\ version = [s \in Services |-> 0]
    /\ stack = [c \in Callers |-> <<>>]
    /\ cleared = [s \in Services |-> 0]
    /\ acked = [s \in Services |-> 0]
    /\ since = [c \in Callers |-> 0]

Begin(c, m) ==
    /\ Idle(c)
    /\ stack' = [stack EXCEPT ![c] = <<Frame(m)>>]
    /\ since' = [since EXCEPT ![c] = cleared[Methods[m].service]]
    /\ UNCHANGED <<entries, eviction, version, cleared, acked>>

\* The lookup hits: the cached data is returned.
Hit(c) ==
    /\ At(c, "enter")
    /\ \E k \in Method(c).looks :
          /\ GetHit(k)
          /\ Return(c, FromCache(k))
    /\ UNCHANGED <<version, cleared, acked>>

\* It misses, or the method is not cached.
Miss(c) ==
    /\ At(c, "enter")
    /\ IF Method(c).looks = {} THEN UNCHANGED cacheVars
                               ELSE \E k \in Method(c).looks : GetMiss(k)
    /\ Update(c, [Top(c) EXCEPT !.at = "body"])
    /\ UNCHANGED <<version, cleared, acked, since>>

CallInner(c) ==
    /\ At(c, "body")
    /\ Top(c).called < Len(Method(c).inner)
    /\ stack' = [stack EXCEPT ![c] =
                   Append(@, Frame(Method(c).inner[Top(c).called + 1]))]
    /\ UNCHANGED <<entries, eviction, version, cleared, acked, since>>

InnerDone(c) == At(c, "body") /\ Top(c).called = Len(Method(c).inner)

\* The service answers a read, or there is none to make.
RemoteRead(c) ==
    /\ InnerDone(c)
    /\ Method(c).remote # "write"
    /\ Update(c, [Top(c) EXCEPT !.at = "finish",
                                !.held = IF Method(c).remote = "read"
                                         THEN Combine(@, Fresh(Method(c).service))
                                         ELSE @])
    /\ UNCHANGED <<entries, eviction, version, cleared, acked, since>>

\* The service applies a write; its answer is on the way.
RemoteWrite(c) ==
    LET s == Method(c).service IN
    /\ InnerDone(c)
    /\ Method(c).remote = "write"
    /\ version[s] < MaxWrites
    /\ version' = [version EXCEPT ![s] = @ + 1]
    /\ Update(c, [Top(c) EXCEPT !.at = "finish",
                                !.held = [ver |-> version[s] + 1, age |-> 0]])
    /\ UNCHANGED <<entries, eviction, cleared, acked, since>>

\* The rate limiter, the service object or the service fails, or the answer
\* to a write that was applied is lost: the error ends every frame, and
\* nothing is cleared.
Fail(c) ==
    /\ InnerDone(c) \/ (At(c, "finish") /\ Method(c).remote = "write")
    /\ Method(c).remote # "none"
    /\ stack' = [stack EXCEPT ![c] = <<>>]
    /\ since' = [since EXCEPT ![c] = 0]
    /\ UNCHANGED <<entries, eviction, version, cleared, acked>>

\* A read ends: it Sets its key, if it is cached, and returns.
FinishRead(c) ==
    /\ At(c, "finish")
    /\ Method(c).remote # "write"
    /\ IF Method(c).fills = {}
       THEN UNCHANGED cacheVars
       ELSE \E k \in Method(c).fills : Set(k, Top(c).held, Method(c).ttl \div Unit)
    /\ Return(c, Top(c).held)
    /\ UNCHANGED <<version, cleared, acked>>

\* The keys with the prefix of service s.
Prefixed(s) == UNION {Methods[m].fills : m \in {n \in DOMAIN Methods : Methods[n].service = s}}

\* Seeded fault: the call of InvalidatePrefix is missing.
FinishWrite_ClearsNothing(c) ==
    LET s == Method(c).service
        v == Top(c).held.ver
    IN
    /\ At(c, "finish")
    /\ Method(c).remote = "write"
    /\ acked' = [acked EXCEPT ![s] = Max(@, v)]
    /\ cleared' = IF Method(c).clears THEN [cleared EXCEPT ![s] = Max(@, v)] ELSE cleared
    /\ Return(c, Top(c).held)
    /\ UNCHANGED <<entries, eviction, version>>

\* A write was acknowledged: InvalidatePrefix, in the methods that have it.
FinishWrite(c) ==
    LET s == Method(c).service
        v == Top(c).held.ver
    IN
    /\ At(c, "finish")
    /\ Method(c).remote = "write"
    /\ acked' = [acked EXCEPT ![s] = Max(@, v)]
    /\ IF Method(c).clears
       THEN /\ Invalidate(Prefixed(s))
            /\ cleared' = [cleared EXCEPT ![s] = Max(@, v)]
       ELSE UNCHANGED <<entries, eviction, cleared>>
    /\ Return(c, Top(c).held)
    /\ UNCHANGED version

Tick ==
    /\ CacheTick
    /\ UNCHANGED <<version, stack, cleared, acked, since>>

Step(c) ==
    \/ Hit(c) \/ Miss(c) \/ CallInner(c)
    \/ RemoteRead(c) \/ RemoteWrite(c) \/ Fail(c)
    \/ FinishRead(c) \/ FinishWrite(c)

Next ==
    \/ Tick
    \/ \E c \in Callers : Step(c) \/ \E m \in Calls : Begin(c, m)

Spec == Init /\ [][Next]_vars

(***************************************************************************)
(* Time passes and a call that was begun goes on; nothing obliges a caller *)
(* to make another one.                                                    *)
(***************************************************************************)
FairSpec == Spec /\ WF_vars(Tick) /\ \A c \in Callers : WF_vars(Step(c))

-----------------------------------------------------------------------------
Data == [ver : 0..MaxWrites, age : Nat]

TypeOK ==
    /\ Cached \subseteq Keys
    /\ \A k \in Cached : entries[k].value \in Data /\ entries[k].left \in Int
    /\ eviction \in Seq(Keys)
    /\ Len(eviction) <= MaxEntries
    /\ version \in [Services -> 0..MaxWrites]
    /\ \A c \in Callers : \A i \in DOMAIN stack[c] :
          stack[c][i] \in [method : DOMAIN Methods, at : {"enter", "body", "finish"},
                           called : Nat, held : Data]
    /\ cleared \in [Services -> 0..MaxWrites]
    /\ acked \in [Services -> 0..MaxWrites]
    /\ since \in [Callers -> 0..MaxWrites]

\* A call begun after a clearing write was acknowledged returns that write's
\* effect or something newer, through however many cached methods its data
\* came (the order of remote call and InvalidatePrefix in sheets.go, drive.go
\* and calendar.go).  s1_dev_spec.md:655 promises it of drive_upload and
\* drive_list.  It holds for one caller; for several, see StaleOnlyByLateFill.
ReadsSeeClearedWrites ==
    \A c \in Callers : Len(stack[c]) = 1 =>
       /\ At(c, "finish") => Top(c).held.ver >= since[c]
       /\ At(c, "enter") =>
             \A k \in Method(c).looks : Live(k) => FromCache(k).ver >= since[c]

\* data, of key k, is older than a clearing write that was acknowledged.
Outdated(k, data) == \E s \in Services : k \in Prefixed(s) /\ data.ver < cleared[s]

Stale(k) == k \in Cached /\ Outdated(k, entries[k].value)

\* With several callers stale data gets into the cache in one way only: a
\* call that read the service, or a cached result, before the write and Sets
\* its key after the write's InvalidatePrefix.  Nothing else, in particular
\* no acknowledgement and no lookup, makes a cached result stale.
StaleOnlyByLateFill ==
    [][\A k \in Keys : Stale(k)' /\ ~Stale(k) =>
          \E c \in Callers :
             At(c, "finish") /\ k \in Method(c).fills /\ Outdated(k, Top(c).held)]_vars

\* The longest a method's data can have been in the cache: its own entry may
\* be filled from entries of the methods it is built on.
LongestInner(m, chain) ==
    LET inner == {chain[Methods[m].inner[i]] : i \in DOMAIN Methods[m].inner}
    IN  IF inner = {} THEN 0 ELSE CHOOSE t \in inner : \A u \in inner : u <= t

ChainTtl[m \in DOMAIN Methods] ==
    Methods[m].ttl \div Unit + LongestInner(m, ChainTtl)

\* No method is built on itself, so the recursion ends; and what a method
\* finds under the keys it looks up is no older than what it would set.
ASSUME ChainAssumption ==
    \A m \in DOMAIN Methods :
       /\ ChainTtl[m] \in Nat
       /\ ChainTtl[m] = Methods[m].ttl \div Unit + LongestInner(m, ChainTtl)
       /\ \A n \in DOMAIN Methods :
             Methods[m].looks \cap Methods[n].fills # {} => ChainTtl[n] <= ChainTtl[m]

\* Data that another program changed stays visible no longer than the TTLs
\* along the chain of cached methods add up to (and one unit for the entry
\* that expires strictly after its time), which for DescribeSheet is twice
\* the TTL it passes.
AgeBounded ==
    \A c \in Callers :
       At(c, "finish") => Top(c).held.age <= ChainTtl[Top(c).method]

\* Once the writes are over, every cached result that can still be returned
\* becomes current: no chain of results filled from one another keeps old
\* data alive.
EventuallyCurrent ==
    \A s \in Services :
       (version[s] = MaxWrites) ~>
          [](\A k \in Prefixed(s) \cap Keys : Live(k) => entries[k].value.ver = MaxWrites)

=============================================================================
