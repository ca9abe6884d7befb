----------------------------- MODULE MCDecision -----------------------------
(***************************************************************************)
(* Requests for TLC: one family for each part of the engine, so that every *)
(* combination the part can tell apart occurs.                             *)
(***************************************************************************)
EXTENDS DecisionProps, TLC

(* Two edits of one subject, one of another, a delete and an add of a file. *)
AllChanges ==
    "e1" :> [subject |-> "s1", file |-> "f", path |-> "/a", kind |-> "modify"] @@
    "e2" :> [subject |-> "s1", file |-> "f", path |-> "/b", kind |-> "add"] @@
    "e3" :> [subject |-> "s2", file |-> "f", path |-> "/a", kind |-> "modify"] @@
    "del" :> [subject |-> "s2", file |-> "f", path |-> "", kind |-> "delete"] @@
    "add" :> [subject |-> "s1", file |-> "g", path |-> "", kind |-> "add"]
ChangesNamed(names) == [c \in names |-> AllChanges[c]]

M(domain, paths, pointers, kinds) ==
    [domain |-> domain, paths |-> paths, pointers |-> pointers, kinds |-> kinds]
Files == M("files", {"f"}, {}, {})
ValuesA == M("values", {}, {"/a"}, {})
AddedValues == M("valueChanges", {"f"}, {"/a", "/b"}, {"add"})
Deletes == M("fileEvents", {"f", "g"}, {}, {"delete"})
Bare == M("values", {}, {}, {})
Absent == M("absent", {}, {}, {})

OneLeaf == <<[op |-> "leaf", kids |-> {}]>>
AllAre(v) == [c \in DOMAIN AllChanges |-> <<v>>]
Mixed == [AllAre("true") EXCEPT !["e1"] = <<"false">>, !["e2"] = <<"error">>]
BothFalse == [AllAre("true") EXCEPT !["e1"] = <<"false">>, !["e2"] = <<"false">>]

(* Sets of rules and of requests: each argument lists the values of a field. *)
RuleSet(phases, matches, prove, effects, leaves, pts) ==
    [phase : phases, match : matches, prove : {prove}, onFailure : effects,
     when : {OneLeaf}, leaf : leaves, points : pts]
RequestSet(guards, changes, rules, require, ceilings) ==
    [reserved : guards, opaque : guards, changes : {ChangesNamed(cs) : cs \in changes},
     rules : rules, require : require, threshold : {1}, ceiling : ceilings, evidence : {<<>>},
     sourceSha : {""}, author : {"ann"}, env : {"prod"}, class : {"topic"},
     precedence : {<<>>}, profiles : {<<>>}]
Unguarded == {FALSE}

(* Two rules on two obligations, of which one or both are required.        *)
CoverageRequests ==
    RequestSet(Unguarded,
        {{"e1"}, {"e1", "e2"}, {"e1", "e2", "e3"}, {"e3", "del"}, {"add"}},
        [r1 : RuleSet({"off", "observe", "enforce"}, {Files, ValuesA}, "o1",
                      {"block", "require-review", ""}, {AllAre("true"), BothFalse, Mixed}, {1}),
         r2 : RuleSet({"enforce"}, {AddedValues, Deletes}, "o2",
                      {"comment", "challenge"}, {AllAre("true"), AllAre("false")}, {1})],
        {{"o1"}, {"o1", "o2"}}, {"", "observe", "off"})

(* Decide's guards, rules without a proof and matches that are in error.   *)
GuardRequests ==
    RequestSet(BOOLEAN, {{}, {"e1"}},
        [r1 : RuleSet({"off", "observe", "enforce", ""}, {Files, Bare, Absent}, "o1",
                      {"block"}, {AllAre("true")}, {1}),
         r2 : RuleSet({"enforce"}, {Files}, "", {"block"}, {AllAre("false")}, {1})],
        {{}, {"o1"}}, {"enforce", "off"})

(* Remarks of up to two points on up to three edits against a threshold.   *)
RiskRequests ==
    {[q EXCEPT !.threshold = t] : t \in 1 .. 4, q \in
        RequestSet(Unguarded, {{"e1"}, {"e1", "e2"}, {"e1", "e2", "e3"}},
            [r1 : RuleSet({"enforce"}, {Files}, "o1", {"block"}, {AllAre("true")}, {5}),
             r2 : RuleSet({"enforce"}, {Files}, "o2", {"comment"},
                          {AllAre("false"), BothFalse}, 0 .. 2),
             r3 : RuleSet({"enforce"}, {ValuesA}, "o3", {"comment"}, {AllAre("false")}, {1})],
            {{"o1"}}, {""})}

Person(id) == [id |-> id, username |-> id, isAuthor |-> FALSE]
Approvals ==
    {<<Person("bob")>>, <<Person("bob"), Person("bob")>>, <<Person("ann"), Person("bob")>>,
     <<Person("bob"), Person("bot")>>, <<Person("bob"), Person("cy")>>}
Evidence ==
    [s1 : [capability : {"approval-rules-api", "none", "other"}, expired : BOOLEAN,
           sha : {"", "h0", "h1"}, required : 0 .. 2, approvedBy : Approvals,
           eligible : {{"ann", "bob", "cy"}}]]
EvidenceRequests ==
    {[q EXCEPT !.evidence = ev, !.sourceSha = sha] : ev \in Evidence, sha \in {"", "h1"}, q \in
        RequestSet(Unguarded, {{"e1", "e2"}},
            [r1 : RuleSet({"enforce"}, {Files}, "o1", {"require-review", "block"},
                          {BothFalse, Mixed}, {1})],
            {{"o1"}}, {""})}

Simple ==
    RequestSet(Unguarded, {{"e1"}},
        [r1 : RuleSet({"enforce"}, {Files}, "o1", {"block"}, {AllAre("true")}, {1})],
        {{"o1"}}, {""})

Scoped(name, envs, classes, writes) ==
    [name : {name}, envs : {envs}, classes : {classes}, writes : writes]
Profiles ==
    [wide : Scoped("wide", {"*"}, {"*"}, BOOLEAN), prod : Scoped("prod", {"prod"}, {"*"}, BOOLEAN),
     topics : Scoped("topics", {"*"}, {"topic"}, BOOLEAN),
     test : Scoped("test", {"test"}, {"*"}, {TRUE})]
ProfileRequests ==
    {[q EXCEPT !.reserved = res, !.precedence = rows, !.profiles = ps] :
        q \in Simple, res \in BOOLEAN, ps \in Profiles,
        rows \in {<<>>, <<"wide">>, <<"wide", "prod">>, <<"prod", "wide", "test">>,
                  <<"topics", "prod", "wide">>, <<"prod", "topics">>, <<"wide", "gone">>}}

N(op, kids) == [op |-> op, kids |-> kids]
Trees ==
    {<<N(a, {2, 3}), N(b, {4, 5}), N("leaf", {}), N(c, d), N("leaf", {})>> :
        a, b \in {"all", "any"}, c \in {"leaf", "not", "all", "any", "none"}, d \in {{}, {5}}}
    \union
    {<<N("not", {2}), N(a, {3, 4, 5}), N("leaf", {}), N("leaf", {}), N("leaf", {})>> :
        a \in {"all", "any"}}
    \union {<<N("not", {2}), N("any", {3, 5}), N("not", {4}), N("all", {5}), N("leaf", {})>>}
TreeRequests ==
    {[q EXCEPT !.rules["r1"].when = tree,
               !.rules["r1"].leaf = [c \in {"e1"} |-> <<"true", "true", x, y, z>>]] :
        q \in Simple, tree \in Trees, x, y, z \in Outcomes}

DecisionRequests ==
    CoverageRequests \union
    UNION {GuardRequests, RiskRequests, EvidenceRequests, ProfileRequests, TreeRequests}
=============================================================================
