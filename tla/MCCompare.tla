----------------------------- MODULE MCCompare -----------------------------
(***************************************************************************)
(* The instance of Compare for TLC: rule own proves an obligation that is  *)
(* always required, rule risk one that may be; the first case takes every  *)
(* pair of sides, the second a few.                                        *)
(***************************************************************************)
EXTENDS CompareProps, TLC

MCRules == {"own", "risk"}
MCProves == [own |-> "owner", risk |-> "score"]

Gate(id, kinds) ==
    [gateId |-> id, failOnKinds |-> kinds, defaultVerdict |-> "fail",
     acceptance |-> "per-delta-identity"]
MCGates ==
    <<Gate("zero-missed-destructive", {"destructive-or-authorization-intervention-missed"}),
      Gate("zero-missed-authorization-ownership", {"destructive-or-authorization-intervention-missed"}),
      Gate("no-unexpected-obligation-removal", {"subject-or-obligation-uncovered"}),
      Gate("bounded-auto-merge-widening", {"newly-auto-mergeable"}),
      Gate("explicitly-accepted-deltas", {"stricter-intervention-added", "score-threshold-change"})>>

Rule(effect, on, points, words) ==
    [has |-> TRUE, effect |-> effect, on |-> on, points |-> points, words |-> words]
NoRule == [Rule("comment", {}, 0, "w1") EXCEPT !.has = FALSE]
Quiet == Rule("comment", {}, 0, "w1")
Own == {NoRule, Quiet, Rule("require-review", {1}, 0, "w1"), Rule("require-review", {1}, 0, "w2")}
       \union {Rule(e, on, 0, "w1") : e \in {"block", "comment"}, on \in {{1}, {1, 2}}}
Risk == {NoRule, Quiet, Rule("comment", {2}, 1, "w1"), Rule("comment", {2}, 5, "w1"),
         Rule("challenge", {2}, 0, "w1")}
Sides == [own : Own, risk : Risk]

Delta(kind, rule, subject, obligation) ==
    [case |-> "c1", kind |-> kind, rule |-> rule, subject |-> subject, obligation |-> obligation]
Missed == "destructive-or-authorization-intervention-missed"
Allowlists ==
    {{}, {[Delta("newly-auto-mergeable", "own", 1, "") EXCEPT !.case = "other"]},
     {Delta("newly-auto-mergeable", "own", 1, ""), Delta(Missed, "own", 1, "owner")},
     {Delta(Missed, "own", 2, ""), Delta("newly-auto-mergeable", "risk", 2, "")},
     {Delta("newly-auto-mergeable", "own", 1, "score")}}

Case(bundle, b, c) == [bundle |-> bundle, subjects |-> {1, 2}, base |-> b, cand |-> c]
World(mode, require, accepted, cases) ==
    [mode |-> mode, require |-> require, accepted |-> accepted, cases |-> cases,
     refsMatch |-> TRUE, recordDir |-> "writable"]
Calm == [own |-> Quiet, risk |-> Quiet]
Blocks == [own |-> Rule("block", {1}, 0, "w1"), risk |-> Quiet]
Second == {Case("pinned", Calm, Calm), Case("replaced", Calm, Calm), Case("pinned", Blocks, Calm)}

Requires == {{"owner"}, {"owner", "score"}}
SuiteWorlds ==
    {World("suite", q, a, "c1" :> Case("pinned", b, c) @@ "c2" :> d) :
        q \in Requires, a \in Allowlists, b, c \in Sides, d \in Second}
DirWorlds ==
    {World("dir", q, {}, "c1" :> Case("pinned", b, c)) : q \in Requires, b, c \in Sides}
BrokenWorlds ==
    LET w == World("suite", {"owner"}, {}, "c1" :> Case("pinned", Calm, Calm))
    IN  {[w EXCEPT !.refsMatch = FALSE], [w EXCEPT !.recordDir = "unwritable"],
         [w EXCEPT !.cases["c1"].bundle = "missing"],
         [w EXCEPT !.cases["c1"].bundle = "missing", !.mode = "dir"]}
MCWorlds == SuiteWorlds \union DirWorlds \union BrokenWorlds
=============================================================================
