---------------------------- MODULE MCSkillEngine ----------------------------
(* SkillEngine with skills small enough for TLC.                           *)
EXTENDS SkillEngine

S(parallel, onFail, each, needs, key) ==
    [parallel |-> parallel, onFail |-> onFail, each |-> each, needs |-> needs, key |-> key]

\* A batch of three, two of which store under one key and one of which names
\* a batch mate's output; a loop that skips, a loop that aborts; a last batch
\* that overwrites the first one's key.
Tour == <<S(TRUE, "abort", NoKey, {}, "found"),
          S(TRUE, "skip", NoKey, {}, "found"),
          S(TRUE, "skip", NoKey, {"found"}, "joined"),
          S(FALSE, "skip", "found", {}, "sent"),
          S(FALSE, "abort", "sent", {"sent"}, "kept"),
          S(TRUE, "abort", NoKey, {"kept"}, "found"),
          S(TRUE, "skip", NoKey, {"found"}, "done")>>

Pair == <<S(TRUE, "abort", NoKey, {}, "a"), S(TRUE, "skip", NoKey, {}, "b"),
          S(FALSE, "abort", NoKey, {}, "c"), S(FALSE, "skip", "a", {}, "d")>>

=============================================================================
