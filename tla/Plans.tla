-------------------------------- MODULE Plans ---------------------------------
(***************************************************************************)
(* A small vocabulary in which the bodies of gwx's commands, MCP tools,    *)
(* workflows and service methods are written down.                         *)
(*                                                                         *)
(* A plan is the set of the paths a piece of straight-line Go code may     *)
(* take when nothing fails; a path is a sequence of steps, in the order of *)
(* the code.  What a failure does is not part of the path: it is decided   *)
(* by the interpreter (Program) from the step's level.  A step of level 0  *)
(* is followed by `return err`; a step inside a block whose error is kept, *)
(* logged or replaced by other work has a level, and the block's closing   *)
(* "end" step says what is done instead.                                   *)
(*                                                                         *)
(* op        the code it stands for                                        *)
(*   allow   CheckAllowlist                                                *)
(*   login   EnsureAuth: Google credentials for the services in of         *)
(*   token   LoadProviderToken of the provider in of                       *)
(*   dry     the branch `if rctx.DryRun { ...; return nil }`               *)
(*   check   validation, a local read, or an answer awaited of what is in  *)
(*           of: may fail, changes nothing                                 *)
(*   wait    WaitRate of the service in of                                 *)
(*   get     a call to the service in of that changes nothing              *)
(*   put     a call that changes something there                           *)
(*   save    a local file written in place                                 *)
(*   swap    a local file replaced by rename, or an entry of the keyring   *)
(*   call    CallTool by a step of a skill: sixty seconds of its own       *)
(*   end     the end of a block whose failure is not the caller's          *)
(***************************************************************************)
EXTENDS Integers, Sequences

Step(op, of) == [op |-> op, of |-> of, level |-> 0, instead |-> <<>>]

One(op, of) == {<<Step(op, of)>>}

Nothing == {<<>>}

\* First a, then b.
a && b == {p \o q : p \in a, q \in b}

Maybe(a) == Nothing \cup a

\* A loop whose every iteration does a: no, one and two iterations.
Each(a) == Nothing \cup a \cup (a && a)

Check     == One("check", "local")
Await(x)  == One("check", x)
Wait(s)   == One("wait", s)
Get(s)    == One("get", s)
Put(s)    == One("put", s)
Save(f)   == One("save", f)
Swap(f)   == One("swap", f)
Allow     == One("allow", "local")
DryRun    == One("dry", "local")
Login(ss) == One("login", ss)
Token(s)  == One("token", s)

\* The shape of nearly every method: WaitRate, then one request.
Ask(s)  == Wait(s) && Get(s)
Tell(s) == Wait(s) && Put(s)

\* Requests page by page after one WaitRate.
Pages(s) == Wait(s) && Get(s) && Maybe(Get(s))

-----------------------------------------------------------------------------
Raise(p) == [i \in 1 .. Len(p) |-> [p[i] EXCEPT !.level = @ + 1]]

Inside(p) ==
    [i \in 1 .. Len(p) |->
        [p[i] EXCEPT !.level = @ + 1, !.instead = Raise(@)]]

End(b) == [op |-> "end", of |-> "local", level |-> 1, instead |-> b]

\* A block whose failure is answered by b: `if err != nil { b }`.
Try(a, b) == {Inside(p) \o <<End(q)>> : p \in a, q \in b}

\* A block whose error is kept in the result, or logged, and nothing more.
Tolerate(a) == Try(a, Nothing)

\* Where the path goes on when a step of level l fails: behind the end of
\* its block, after what the block does instead.
AfterFailure(p, l) ==
    LET i == CHOOSE k \in 1 .. Len(p) :
                 /\ p[k].op = "end" /\ p[k].level = l
                 /\ \A j \in 1 .. k - 1 : ~(p[j].op = "end" /\ p[j].level = l)
    IN  p[i].instead \o SubSeq(p, i + 1, Len(p))

=============================================================================
