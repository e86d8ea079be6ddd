------------------------------- MODULE PlanRules -------------------------------
(***************************************************************************)
(* The rules the plans keep, and what becomes of them while one of them is *)
(* executed.  A step that fails inside a block is followed by what the     *)
(* block does instead, so a rule speaks of a step With what may be done in *)
(* its place.  IInv says of each rule that the steps ahead keep it, given  *)
(* what was done so far: it is the inductive invariant under the safety    *)
(* properties of Program, for whatever plans keep the rules.               *)
(***************************************************************************)
EXTENDS Program, FiniteSets

Names == DOMAIN Command \cup DOMAIN Tool

Plan(who) == IF who \in DOMAIN Command THEN Command[who] ELSE Tool[who]

Steps(p) == {p[n] : n \in DOMAIN p}

With(s) == {s} \cup Steps(s.instead)

AllSteps == UNION {UNION {With(s) : s \in Steps(p)} : p \in UNION {Plan(who) : who \in Names}}

Suffix(p, i) == SubSeq(p, i + 1, Len(p))

\* Each block a step is in has its end, the first of its level from there on,
\* and nothing outside the block before it.
Nested(p) ==
    \A n \in DOMAIN p : \A level \in 1 .. p[n].level :
       \E i \in n .. Len(p) :
          /\ p[i].op = "end" /\ p[i].level = level
          /\ \A j \in n .. i - 1 : /\ p[j].level >= level
                                   /\ ~(p[j].op = "end" /\ p[j].level = level)

\* And so it is when a failure has led to what a block does instead.
Nests(p) ==
    /\ Nested(p)
    /\ \A i \in DOMAIN p : p[i].op = "end" => Nested(p[i].instead \o Suffix(p, i))

\* What a table of plans is.  What a block does instead has no other instead.
ASSUME PlansAssumption ==
    /\ \A s \in AllSteps :
          /\ s.level \in Nat
          /\ s.instead \in Seq(AllSteps)
          /\ \A t \in Steps(s.instead) : t.instead = <<>>
    /\ \A who \in Names : \A p \in Plan(who) : p \in Seq(AllSteps) /\ Nests(p)
    /\ DOMAIN Command \cap DOMAIN Tool = {}
    /\ ReadOnlyTools \subseteq DOMAIN Tool

-----------------------------------------------------------------------------
(* The rules, of a path p.                                                 *)

GoogleGate == <<"login", "google">>
LocalGate  == <<"allow", "local">>

\* The gates that whatever who does to x has behind it.
Needs(who, x) ==
       {g \in {GoogleGate} : x \in Limited}
  \cup {g \in {<<"token", x>>} : x \in Providers}
  \cup {g \in {LocalGate} : who \in DOMAIN Command \ NoAllowlist}

\* A failure outside every block ends it all, so a gate at level 0 that is in
\* front of p's n-th step is passed before it.
GateBefore(p, n, g) ==
    \E j \in 1 .. n - 1 :
       /\ p[j].op \in {"allow", "login", "token"} /\ p[j].level = 0
       /\ <<p[j].op, p[j].of>> = g

GatesInFront(who, p, done) ==
    \A n \in DOMAIN p : \A t \in With(p[n]) :
       t.op \in Changing \cup {"get"} =>
          \A g \in Needs(who, t.of) : g \in done \/ GateBefore(p, n, g)

\* The n-th step of p, or what is done instead of it, changes something.
MayChange(p, n) == \E t \in With(p[n]) : t.op \in Changing

LooksBeforeChanging(p) ==
    \A n \in DOMAIN p :
       MayChange(p, n) => \E j \in 1 .. n - 1 : p[j].op = "dry" /\ p[j].level = 0

ChangesNothing(p) == \A n \in DOMAIN p : ~MayChange(p, n)

\* A change that fails is a failure of the command or tool.
FailuresSurface(p) ==
    \A n \in DOMAIN p : \A t \in With(p[n]) : t.op \in Changing => t.level = 0

\* t can fail, and then it all fails.  Without a deadline a wait does not.
MayEnd(who, t) ==
    /\ t.level = 0
    /\ t.op \notin {"end", "call", "dry"}
    /\ t.op = "wait" => who \in DOMAIN Tool

\* Behind a change nothing ends in an error.
ChangesLast(who, p) ==
    \A n \in DOMAIN p :
       /\ \A m \in 1 .. n - 1 : MayChange(p, m) => \A t \in With(p[n]) : ~MayEnd(who, t)
       /\ \A b \in DOMAIN p[n].instead : \A a \in 1 .. b - 1 :
             p[n].instead[a].op \in Changing => ~MayEnd(who, p[n].instead[b])

\* The id of the spreadsheet is remembered behind every other change of the
\* service, none of which may be passed over, and there is one (or was: made).
RemembersLast(p, made) ==
    \A n \in DOMAIN p : \A t \in With(p[n]) :
       t.op = "swap" /\ t.of = "workflow.json" =>
          /\ made \/ \E j \in 1 .. n - 1 : p[j].op = "put" /\ p[j].level = 0
          /\ \A m \in DOMAIN p : \A u \in With(p[m]) : u.op = "put" => m < n /\ u.level = 0

\* How many of the a-th to b-th steps of p do one of ops to s.
Count(p, ops, s, a, b) == Cardinality({j \in a .. b : p[j].op \in ops /\ p[j].of = s})

Waits(p, s, a, b)    == Count(p, {"wait"}, s, a, b)
Requests(p, s, a, b) == Count(p, {"get", "put"}, s, a, b)

\* With the grants there are, each request of p will have its own.
Covered(p, grants) ==
    \A n \in DOMAIN p : p[n].op \in {"get", "put"} /\ p[n].of \in Limited =>
       grants[p[n].of] + Waits(p, p[n].of, 1, n - 1) > Requests(p, p[n].of, 1, n - 1)

NoGrants == [s \in Limited |-> 0]

PaysForItself(p) ==
    /\ Covered(p, NoGrants)
    /\ \A s \in Limited : Requests(p, s, 1, Len(p)) <= Waits(p, s, 1, Len(p))

\* From any step of a block to its end there are as many requests as grants:
\* the grants that a failure passes over are not missed behind it.
BlocksPay(p) ==
    \A i \in DOMAIN p : \A n \in 1 .. i :
       p[i].op = "end" /\ (\A j \in n .. i : p[j].level > 0) =>
          \A s \in Limited : Waits(p, s, n, i) <= Requests(p, s, n, i)

Pays(p) ==
    /\ BlocksPay(p)
    /\ \A i \in DOMAIN p : p[i].op = "end" =>
          BlocksPay(p[i].instead \o Suffix(p, i)) /\ PaysForItself(p[i].instead)

-----------------------------------------------------------------------------
(* That the plans keep them, but for those named.                          *)

GatesRule ==
    /\ \A c \in DOMAIN Command : \A p \in Command[c] : GatesInFront(c, p, {})
    /\ \A t \in DOMAIN Tool : \A p \in Tool[t] : GatesInFront(t, p, {GoogleGate})
    /\ \A p \in Plan("mcp-server") : GateBefore(p, Len(p) + 1, GoogleGate)

PreviewRule ==
    /\ \A c \in DOMAIN Command \ IgnoresDryRun : \A p \in Command[c] : LooksBeforeChanging(p)
    /\ \A t \in ReadOnlyTools : \A p \in Tool[t] : ChangesNothing(p)

ReportRule  == \A who \in Names \ ReportsInside : \A p \in Plan(who) : FailuresSurface(p)

PartialRule == \A who \in Names \ PartialWriters : \A p \in Plan(who) : ChangesLast(who, p)

SheetRule   == \A who \in Names : \A p \in Plan(who) : RemembersLast(p, FALSE)

GrantsRule  ==
    \A who \in Names \ MoreRequests : \A p \in Plan(who) : Covered(p, NoGrants) /\ Pays(p)

-----------------------------------------------------------------------------
(* And that the steps ahead do.                                            *)

PathOK == path \in Seq(AllSteps) /\ Nests(path)

PhaseOK ==
    /\ phase = "idle" => effects = {} /\ passed = {} /\ outcome = "none"
    /\ phase \in {"running", "answering", "killed"} => outcome = "none"
    /\ phase = "running" => name \in DOMAIN Command
    /\ phase = "answering" => name \in DOMAIN Tool
    /\ phase \in {"serving", "answering"} => "mcp-server" \in DOMAIN Command

GatesKept ==
    /\ GatesInFront(name, path, passed)
    /\ \A e \in effects : Needs(name, e.of) \subseteq passed
    /\ phase \in {"serving", "answering"} => GoogleGate \in passed
    /\ phase = "running" /\ name = "mcp-server" =>
          GoogleGate \in passed \/ GateBefore(path, Len(path) + 1, GoogleGate)

PreviewKept ==
    /\ dryRun /\ name \in DOMAIN Command \ IgnoresDryRun =>
          LooksBeforeChanging(path) /\ Changes(Outcomes) = {}
    /\ name \in ReadOnlyTools => ChangesNothing(path) /\ Changes(Outcomes) = {}

ReportKept ==
    name \notin ReportsInside =>
       /\ FailuresSurface(path)
       /\ Changes({"refused", "unknown"}) # {} => outcome = "error" \/ phase = "killed"

PartialKept ==
    name \notin PartialWriters =>
       /\ ChangesLast(name, path)
       /\ Changes({"done"}) # {} =>
             /\ outcome # "error"
             /\ \A s \in Steps(path) : \A t \in With(s) : ~MayEnd(name, t)

Puts == {e \in effects : e.op = "put"}

AllDone == \A e \in Puts : e.outcome = "done"

SheetKept ==
    /\ RemembersLast(path, Puts # {})
    /\ (\E s \in Steps(path) : \E t \in With(s) : t.op = "swap" /\ t.of = "workflow.json") => AllDone
    /\ (\E e \in effects : e.op = "swap" /\ e.of = "workflow.json" /\ e.outcome = "done") =>
          /\ Puts # {} /\ AllDone
          /\ \A s \in Steps(path) : \A t \in With(s) : t.op # "put"

GrantsKept ==
    /\ phase = "idle" => granted = NoGrants /\ ~ungranted
    /\ name \notin MoreRequests => ~ungranted /\ Covered(path, granted) /\ Pays(path)

\* The types, and of every rule that what is ahead keeps it.
IInv ==
    /\ TypeOK /\ PathOK /\ PhaseOK
    /\ GatesKept /\ PreviewKept /\ ReportKept /\ PartialKept /\ SheetKept
    /\ GrantsKept

=============================================================================
