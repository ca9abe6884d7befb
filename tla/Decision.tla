------------------------------ MODULE Decision ------------------------------
(***************************************************************************)
(* The decision engine (internal/core/aggregate): Decide's guards, the     *)
(* resolution of the write profile, the coverage loop over the rules, the  *)
(* three escalations and the risk threshold.                               *)
(*                                                                         *)
(* A request is one call.  Changes, rules and profiles are functions from  *)
(* names; a glob is the set of what it matches; a CEL leaf is the outcome  *)
(* it has for each change.  The rules are evaluated in any order, which    *)
(* stands for every order they can be written in.                          *)
(***************************************************************************)
EXTENDS AssertTree, Sequences, FiniteSets

CONSTANT Requests

VARIABLES
    req,        \* the call
    pc,
    todo,       \* rules not yet evaluated
    covered,    \* obligations that an enforced rule names
    decision, points, findings, observed,
    gaps,       \* subjects with a capability gap
    profile     \* the resolved profile, or NoProfile

vars == <<req, pc, todo, covered, decision, points, findings, observed, gaps, profile>>

Effects == {"comment", "challenge", "block", "require-review"}
Decisions == {"APPROVE", "REVIEW", "BLOCK"}
Phases == {"off", "observe", "enforce"}
Domains == {"files", "values", "valueChanges", "fileEvents", "absent"}
NoProfile == [name |-> "", writes |-> FALSE]

Change == [subject : STRING, file : STRING, path : STRING, kind : STRING]
Match == [domain : Domains, paths : SUBSET STRING, pointers : SUBSET STRING, kinds : SUBSET STRING]
BuiltinRules == {"assent-policy", "aggregate.changeset", "aggregate.uncovered",
                 "aggregate.unmatchedDelete", "aggregate.unmatchedEdit"}
Codes == {"predicate.error", "policy.shape-error", "authored", "assent-policy.self-edit",
          "changeset.undecidable", "obligation.uncovered", "fileEvent.unmatchedDelete",
          "change.unmatchedEdit"}
Finding == [rule : STRING \union BuiltinRules, obligation : STRING \union {""},
            subject : STRING \union {"", "self"}, effect : Effects, code : Codes]

RequestFields == {"reserved", "opaque", "changes", "rules", "require", "threshold", "ceiling",
                  "evidence", "sourceSha", "author", "env", "class", "precedence", "profiles"}

(* What the loader guarantees of a call.                                   *)
RequestOK(q) ==
    /\ RequestFields \subseteq DOMAIN q
    /\ q.reserved \in BOOLEAN /\ q.opaque \in BOOLEAN
    /\ \A c \in DOMAIN q.changes : q.changes[c] \in Change
    /\ DOMAIN q.rules \subseteq STRING
    /\ IsFiniteSet(DOMAIN q.changes) /\ IsFiniteSet(DOMAIN q.rules)
    /\ \A n \in DOMAIN q.rules :
          /\ q.rules[n].phase \in Phases \union {""}
          /\ q.rules[n].match \in Match
          /\ q.rules[n].prove \in STRING
          /\ q.rules[n].onFailure \in Effects \union {""}
          /\ q.rules[n].points \in Nat
    /\ q.require \subseteq STRING
    /\ q.threshold \in Nat \ {0}
    /\ q.ceiling \in Phases \union {""}
    /\ q.precedence \in Seq(STRING)
    /\ \A p \in DOMAIN q.profiles : q.profiles[p].writes \in BOOLEAN

ASSUME RequestsAssumption == \A q \in Requests : RequestOK(q)

(* A rule's condition is a tree, and its leaves have an outcome on each    *)
(* change.                                                                 *)
ASSUME ConditionsAssumption ==
    \A q \in Requests : \A n \in DOMAIN q.rules :
        /\ IsAssertTree(q.rules[n].when)
        /\ \A c \in DOMAIN q.changes, k \in DOMAIN q.rules[n].when : q.rules[n].leaf[c][k] \in Outcomes

-----------------------------------------------------------------------------
PhaseRank(p) == CASE p = "enforce" -> 2 [] p = "observe" -> 1 [] OTHER -> 0
Ceiling(q) == IF q.ceiling = "" THEN "enforce" ELSE q.ceiling
EffectivePhase(rule, ceiling) == IF PhaseRank(ceiling) < PhaseRank(rule) THEN ceiling ELSE rule

PhaseOf(q, n) == EffectivePhase(q.rules[n].phase, Ceiling(q))
Enforced(q, n) == PhaseOf(q, n) = "enforce" /\ q.rules[n].prove # ""

(* matchChanges: whole-file events and value changes are disjoint domains. *)
MatchError(m) ==
    m.domain = "absent" \/ (m.domain = "values" /\ m.pointers = {} /\ m.paths = {})

Selects(m, ch) ==
    \/ /\ m.domain = "fileEvents" /\ ch.path = ""
       /\ ch.kind \in m.kinds /\ ch.file \in m.paths
    \/ m.domain = "files" /\ ch.path # "" /\ ch.file \in m.paths
    \/ /\ m.domain = "valueChanges" /\ ch.path # "" /\ ch.path \in m.pointers
       /\ m.kinds = {} \/ ch.kind \in m.kinds
       /\ m.paths = {} \/ ch.file \in m.paths
    \/ /\ m.domain = "values" /\ ch.path # "" /\ ch.kind = "modify"
       /\ m.pointers # {} \/ m.paths # {}
       /\ m.pointers = {} \/ ch.path \in m.pointers
       /\ m.paths = {} \/ ch.file \in m.paths

Matched(q, n) == {c \in DOMAIN q.changes : Selects(q.rules[n].match, q.changes[c])}
SubjectsOf(q, n) == {q.changes[c].subject : c \in Matched(q, n)}
Outcome(q, n, c) == WalkAssertTree(q.rules[n].when, q.rules[n].leaf[c])

-----------------------------------------------------------------------------
CountsAsApprover(a, eligible, author) ==
    /\ ~a.isAuthor
    /\ author # "" => a.username # author /\ a.id # author
    /\ a.id \in eligible

DistinctApprovers(ev, author) ==
    {ev.approvedBy[i].id : i \in {j \in DOMAIN ev.approvedBy :
                                    CountsAsApprover(ev.approvedBy[j], ev.eligible, author)}}

(* Defect: approvals given to an earlier head still count.                 *)
StaleApprovalCounts(q, s) ==
    /\ s \in DOMAIN q.evidence
    /\ LET ev == q.evidence[s] IN
          /\ ev.capability \in {"approval-rules-api", "codeowners"} /\ ~ev.expired
          /\ ev.required >= 1
          /\ Cardinality(DistinctApprovers(ev, q.author)) >= ev.required

ApprovalSatisfies(q, s) ==
    /\ s \in DOMAIN q.evidence
    /\ LET ev == q.evidence[s] IN
          /\ ev.capability \in {"approval-rules-api", "codeowners"} /\ ~ev.expired
          /\ q.sourceSha # "" /\ ev.sha = q.sourceSha
          /\ ev.required >= 1
          /\ Cardinality(DistinctApprovers(ev, q.author)) >= ev.required

-----------------------------------------------------------------------------
RuleFinding(q, n, s, effect, code) ==
    [rule |-> n, obligation |-> q.rules[n].prove, subject |-> s, effect |-> effect, code |-> code]

(* Defect: approval settles a clean failure whatever its effect.           *)
ApprovalLiftsAnyEffect(q, n, s) ==
    LET mine == {c \in Matched(q, n) : q.changes[c].subject = s}
        anyErr == \E c \in mine : Outcome(q, n, c) = "error"
        anyFalse == \E c \in mine : Outcome(q, n, c) \notin {"true", "error"}
        effect == q.rules[n].onFailure
    IN  IF anyErr THEN {RuleFinding(q, n, s, "require-review", "predicate.error")}
        ELSE IF ~anyFalse \/ ApprovalSatisfies(q, s) THEN {}
        ELSE IF effect = "" THEN {RuleFinding(q, n, s, "require-review", "policy.shape-error")}
        ELSE {RuleFinding(q, n, s, effect, "authored")}

(* coverSubject: the finding a rule has on a subject, if any.  An error    *)
(* comes before a clean failure; approval is asked only of an authored     *)
(* require-review that fails cleanly.                                      *)
CoverSubject(q, n, s) ==
    LET mine == {c \in Matched(q, n) : q.changes[c].subject = s}
        anyErr == \E c \in mine : Outcome(q, n, c) = "error"
        anyFalse == \E c \in mine : Outcome(q, n, c) \notin {"true", "error"}
        effect == q.rules[n].onFailure
    IN  IF anyErr THEN {RuleFinding(q, n, s, "require-review", "predicate.error")}
        ELSE IF ~anyFalse \/ (effect = "require-review" /\ ApprovalSatisfies(q, s)) THEN {}
        ELSE IF effect = "" THEN {RuleFinding(q, n, s, "require-review", "policy.shape-error")}
        ELSE {RuleFinding(q, n, s, effect, "authored")}

FindingsOf(q, n) == UNION {CoverSubject(q, n, s) : s \in SubjectsOf(q, n)}

(* The firings: failed or erroring changes on a subject with a finding.    *)
Firings(q, n) ==
    {c \in Matched(q, n) : /\ Outcome(q, n, c) # "true"
                           /\ CoverSubject(q, n, q.changes[c].subject) # {}}

GapsOf(q, n) ==
    {f.subject : f \in {g \in FindingsOf(q, n) :
        /\ g.code = "authored" /\ g.effect = "require-review"
        /\ g.subject \in DOMAIN q.evidence /\ q.evidence[g.subject].capability = "none"}}

(* worse, over any number of decisions.                                    *)
Worst(ds) ==
    IF "BLOCK" \in ds THEN "BLOCK" ELSE IF "REVIEW" \in ds THEN "REVIEW" ELSE "APPROVE"

(* effectDecision for a required obligation, firingEffectDecision otherwise. *)
EffectDecision(effect, required) ==
    CASE effect = "block" -> "BLOCK"
      [] effect = "comment" /\ ~required -> "APPROVE"
      [] OTHER -> "REVIEW"

WorsenedBy(q, n) ==
    {EffectDecision(f.effect, q.rules[n].prove \in q.require) : f \in FindingsOf(q, n)}

-----------------------------------------------------------------------------
HasWildcard(scope) == "*" \in scope
Covers(p, env, class) ==
    /\ HasWildcard(p.envs) \/ env \in p.envs
    /\ HasWildcard(p.classes) \/ class \in p.classes
Specificity(p) ==
    (IF HasWildcard(p.envs) THEN 0 ELSE 1) + (IF HasWildcard(p.classes) THEN 0 ELSE 1)

(* The rows of the precedence table whose profile covers the binding.      *)
CoveringRows(q) ==
    {i \in DOMAIN q.precedence : q.precedence[i] \in DOMAIN q.profiles
                                  /\ Covers(q.profiles[q.precedence[i]], q.env, q.class)}
Dangling(q) == \E i \in DOMAIN q.precedence : q.precedence[i] \notin DOMAIN q.profiles
Writers(q) == {i \in CoveringRows(q) : q.profiles[q.precedence[i]].writes}

(* Narrowest scope first, then the order of the table.                     *)
Winner(q) ==
    LET spec(i) == Specificity(q.profiles[q.precedence[i]])
        row == CHOOSE i \in CoveringRows(q) :
                  \A j \in CoveringRows(q) : spec(j) < spec(i) \/ (spec(j) = spec(i) /\ i <= j)
    IN  q.profiles[q.precedence[row]]

-----------------------------------------------------------------------------
Init ==
    /\ req \in Requests
    /\ pc = "guards"
    /\ todo = DOMAIN req.rules
    /\ covered = {} /\ decision = "APPROVE" /\ points = 0
    /\ findings = {} /\ observed = {} /\ gaps = {}
    /\ profile = NoProfile

Undecidable == req.opaque \/ DOMAIN req.changes = {}
Outside(rule, obligation, subject, code) ==
    [rule |-> rule, obligation |-> obligation, subject |-> subject,
     effect |-> "require-review", code |-> code]

(* Decide's guards, in order.                                              *)
ReservedClassBlock ==
    /\ pc = "guards" /\ req.reserved
    /\ pc' = "done" /\ decision' = "BLOCK"
    /\ findings' = {[Outside("assent-policy", "", "self", "assent-policy.self-edit")
                       EXCEPT !.effect = "block"]}
    /\ UNCHANGED <<req, todo, covered, points, observed, gaps, profile>>

UndecidableReview ==
    /\ pc = "guards" /\ ~req.reserved /\ Undecidable
    /\ pc' = "done" /\ decision' = "REVIEW"
    /\ findings' = {Outside("aggregate.changeset", "", "self", "changeset.undecidable")}
    /\ UNCHANGED <<req, todo, covered, points, observed, gaps, profile>>

EmptyRequire ==
    /\ pc = "guards" /\ ~req.reserved /\ ~Undecidable /\ req.require = {}
    /\ pc' = "failed"
    /\ UNCHANGED <<req, todo, covered, decision, points, findings, observed, gaps, profile>>

PassGuards ==
    /\ pc = "guards" /\ ~req.reserved /\ ~Undecidable /\ req.require # {}
    /\ pc' = "profile"
    /\ UNCHANGED <<req, todo, covered, decision, points, findings, observed, gaps, profile>>

(* ResolveProfile: a dangling row or a second covering writer is an error. *)
ProfileError ==
    /\ pc = "profile" /\ (Dangling(req) \/ Cardinality(Writers(req)) > 1)
    /\ pc' = "failed"
    /\ UNCHANGED <<req, todo, covered, decision, points, findings, observed, gaps, profile>>

(* Defect: the first covering row of the table wins.                       *)
FirstRowWins ==
    /\ pc = "profile" /\ ~Dangling(req) /\ Cardinality(Writers(req)) <= 1
    /\ pc' = "rules"
    /\ profile' = IF CoveringRows(req) = {} THEN NoProfile
                  ELSE LET row == CHOOSE i \in CoveringRows(req) :
                                     \A j \in CoveringRows(req) : i <= j
                           p == req.profiles[req.precedence[row]]
                       IN [name |-> p.name, writes |-> p.writes]
    /\ UNCHANGED <<req, todo, covered, decision, points, findings, observed, gaps>>

ResolveProfile ==
    /\ pc = "profile" /\ ~Dangling(req) /\ Cardinality(Writers(req)) <= 1
    /\ pc' = "rules"
    /\ profile' = IF CoveringRows(req) = {} THEN NoProfile
                  ELSE [name |-> Winner(req).name, writes |-> Winner(req).writes]
    /\ UNCHANGED <<req, todo, covered, decision, points, findings, observed, gaps>>

Takes(n) == pc = "rules" /\ n \in todo /\ todo' = todo \ {n}
Evaluated(q, n) == PhaseOf(q, n) \in {"enforce", "observe"} /\ q.rules[n].prove # ""

(* An off rule and one that proves nothing are not even matched.           *)
SkipRule(n) ==
    /\ Takes(n) /\ ~Evaluated(req, n)
    /\ UNCHANGED <<req, pc, covered, decision, points, findings, observed, gaps, profile>>

MatchFails(n) ==
    /\ Takes(n) /\ Evaluated(req, n) /\ MatchError(req.rules[n].match)
    /\ pc' = "failed"
    /\ UNCHANGED <<req, covered, decision, points, findings, observed, gaps, profile>>

(* Defect: an observed rule counts as the proof of its obligation.         *)
ObserveCovers(n) ==
    /\ Takes(n) /\ Evaluated(req, n) /\ ~MatchError(req.rules[n].match)
    /\ PhaseOf(req, n) = "observe"
    /\ observed' = observed \union FindingsOf(req, n)
    /\ covered' = covered \union {req.rules[n].prove}
    /\ UNCHANGED <<req, pc, decision, points, findings, gaps, profile>>

ObserveRule(n) ==
    /\ Takes(n) /\ Evaluated(req, n) /\ ~MatchError(req.rules[n].match)
    /\ PhaseOf(req, n) = "observe"
    /\ observed' = observed \union FindingsOf(req, n)
    /\ UNCHANGED <<req, pc, covered, decision, points, findings, gaps, profile>>

(* Defect: the last rule's decision replaces the ones before it.           *)
LastRuleWins(n) ==
    /\ Takes(n) /\ Enforced(req, n) /\ ~MatchError(req.rules[n].match)
    /\ covered' = covered \union {req.rules[n].prove}
    /\ findings' = findings \union FindingsOf(req, n)
    /\ points' = points + Cardinality(Firings(req, n)) * req.rules[n].points
    /\ decision' = Worst(WorsenedBy(req, n))
    /\ gaps' = gaps \union GapsOf(req, n)
    /\ UNCHANGED <<req, pc, observed, profile>>

EnforceRule(n) ==
    /\ Takes(n) /\ Enforced(req, n) /\ ~MatchError(req.rules[n].match)
    /\ covered' = covered \union {req.rules[n].prove}
    /\ findings' = findings \union FindingsOf(req, n)
    /\ points' = points + Cardinality(Firings(req, n)) * req.rules[n].points
    /\ decision' = Worst({decision} \union WorsenedBy(req, n))
    /\ gaps' = gaps \union GapsOf(req, n)
    /\ UNCHANGED <<req, pc, observed, profile>>

-----------------------------------------------------------------------------
(* Findings that no rule has, each worth a review.                         *)
Escalate(new) ==
    /\ findings' = findings \union new
    /\ decision' = IF new = {} THEN decision ELSE Worst({decision, "REVIEW"})

UncoveredObligations ==
    /\ pc = "rules" /\ todo = {}
    /\ pc' = "deletes"
    /\ Escalate({Outside("aggregate.uncovered", o, "", "obligation.uncovered") :
                    o \in req.require \ covered})
    /\ UNCHANGED <<req, todo, covered, points, observed, gaps, profile>>

Governed(q, c, domains) ==
    \E n \in DOMAIN q.rules : /\ Enforced(q, n) /\ q.rules[n].match.domain \in domains
                              /\ c \in Matched(q, n)
WholeFile(ch) == ch.path = ""

UnmatchedDeletes ==
    /\ pc = "deletes"
    /\ pc' = "edits"
    /\ Escalate({Outside("aggregate.unmatchedDelete", "", req.changes[c].subject,
                         "fileEvent.unmatchedDelete") :
                    c \in {d \in DOMAIN req.changes :
                             /\ WholeFile(req.changes[d]) /\ req.changes[d].kind = "delete"
                             /\ ~Governed(req, d, {"fileEvents"})}})
    /\ UNCHANGED <<req, todo, covered, points, observed, gaps, profile>>

UnmatchedEdits ==
    /\ pc = "edits"
    /\ pc' = "risk"
    /\ Escalate({Outside("aggregate.unmatchedEdit", "", req.changes[c].subject,
                         "change.unmatchedEdit") :
                    c \in {d \in DOMAIN req.changes :
                             /\ req.require \intersect covered # {}
                             /\ ~WholeFile(req.changes[d])
                             /\ ~Governed(req, d, Domains)}})
    /\ UNCHANGED <<req, todo, covered, points, observed, gaps, profile>>

(* riskDecision, the last check.                                           *)
RiskCheck ==
    /\ pc = "risk"
    /\ pc' = "done"
    /\ decision' = IF points > req.threshold THEN Worst({decision, "REVIEW"}) ELSE decision
    /\ UNCHANGED <<req, todo, covered, points, findings, observed, gaps, profile>>

Next ==
    \/ ReservedClassBlock \/ UndecidableReview \/ EmptyRequire \/ PassGuards
    \/ ProfileError \/ ResolveProfile
    \/ \E n \in todo : SkipRule(n) \/ MatchFails(n) \/ ObserveRule(n) \/ EnforceRule(n)
    \/ UncoveredObligations \/ UnmatchedDeletes \/ UnmatchedEdits \/ RiskCheck

Spec == Init /\ [][Next]_vars
=============================================================================
