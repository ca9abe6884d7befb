--------------------------- MODULE DecisionProofs ---------------------------
(***************************************************************************)
(* Proofs about the decision engine, for every set of requests.            *)
(***************************************************************************)
EXTENDS DecisionProps, FiniteSetTheorems, NaturalsInduction, WellFoundedInduction, TLAPS

-----------------------------------------------------------------------------
(* A rule's findings are findings about subjects of changes it selects.    *)
LEMMA FindingsTyped ==
    ASSUME NEW q \in Requests, NEW n \in DOMAIN q.rules
    PROVE  FindingsOf(q, n) \subseteq Finding /\ GapsOf(q, n) \subseteq STRING \union {"", "self"}
<1>1. RequestOK(q)  BY RequestsAssumption
<1>2. \A s \in SubjectsOf(q, n) : s \in STRING
  BY <1>1 DEF RequestOK, SubjectsOf, Matched, Change
<1>3. n \in STRING /\ q.rules[n].prove \in STRING /\ q.rules[n].onFailure \in Effects \union {""}
  BY <1>1 DEF RequestOK
<1>4. ASSUME NEW s \in SubjectsOf(q, n), NEW f \in CoverSubject(q, n, s)
      PROVE  f \in Finding
  <2>1. \A e \in Effects, code \in Codes : RuleFinding(q, n, s, e, code) \in Finding
    BY <1>2, <1>3 DEF RuleFinding, Finding
  <2>2. "require-review" \in Effects  BY DEF Effects
  <2>3. PICK e \in Effects, code \in Codes : f = RuleFinding(q, n, s, e, code)
    BY <1>3, <2>2 DEF CoverSubject, Codes
  <2> QED  BY <2>1, <2>3
<1>5. FindingsOf(q, n) \subseteq Finding  BY <1>4 DEF FindingsOf
<1> QED  BY <1>5 DEF GapsOf, Finding

(* The number of firings is a natural number, and there is a finding if    *)
(* there is a firing: points never come without an explanation.            *)
LEMMA FiringsCounted ==
    ASSUME NEW q \in Requests, NEW n \in DOMAIN q.rules
    PROVE  /\ Cardinality(Firings(q, n)) * q.rules[n].points \in Nat
           /\ Cardinality(Firings(q, n)) * q.rules[n].points # 0 => FindingsOf(q, n) # {}
<1>1. RequestOK(q)  BY RequestsAssumption
<1>2. IsFiniteSet(Firings(q, n))
  BY <1>1, FS_Subset DEF RequestOK, Firings, Matched
<1>3. Cardinality(Firings(q, n)) \in Nat /\ q.rules[n].points \in Nat
  BY <1>1, <1>2, FS_CardinalityType DEF RequestOK
<1>4. Firings(q, n) = {} => Cardinality(Firings(q, n)) = 0
  BY FS_EmptySet
<1>5. Firings(q, n) # {} => FindingsOf(q, n) # {}
  BY DEF Firings, FindingsOf, SubjectsOf
<1> QED  BY <1>3, <1>4, <1>5

(* What approvalSatisfies accepts is an endorsement.                       *)
LEMMA SatisfiedIsEndorsed ==
    ASSUME NEW q, NEW s, ApprovalSatisfies(q, s)
    PROVE  Endorsed(q, s)
<1> DEFINE ev == q.evidence[s]
           people == DistinctApprovers(ev, q.author)
<1>1. people \in SUBSET ev.eligible
  BY DEF DistinctApprovers, CountsAsApprover
<1>2. q.author # "" => q.author \notin people
  BY DEF DistinctApprovers, CountsAsApprover
<1>3. \A id \in people : \E i \in DOMAIN ev.approvedBy : ev.approvedBy[i].id = id
  BY DEF DistinctApprovers
<1>4. Cardinality(people) >= ev.required /\ ev.required >= 1
  BY DEF ApprovalSatisfies
<1> HIDE DEF people
<1> QED  BY <1>1, <1>2, <1>3, <1>4 DEF ApprovalSatisfies, Endorsed

(* A rule that leaves APPROVE alone vouches for every change it selects.   *)
LEMMA CleanRuleVouches ==
    ASSUME NEW q, NEW n, WorsenedBy(q, n) \subseteq {"APPROVE"}, NEW c \in Matched(q, n)
    PROVE  Vouches(q, n, c)
<1> DEFINE s == q.changes[c].subject
           mine == {d \in Matched(q, n) : q.changes[d].subject = s}
<1>1. CoverSubject(q, n, s) \subseteq FindingsOf(q, n)
  BY DEF FindingsOf, SubjectsOf
<1>2. \A f \in CoverSubject(q, n, s) : f.effect = "comment" /\ q.rules[n].prove \notin q.require
  BY <1>1 DEF WorsenedBy, EffectDecision
<1>3. ~ \E d \in mine : Outcome(q, n, d) = "error"
  BY <1>2 DEF CoverSubject, RuleFinding
<1>4. CASE CoverSubject(q, n, s) = {}
  <2>1. \/ ~ \E d \in mine : Outcome(q, n, d) \notin {"true", "error"}
        \/ q.rules[n].onFailure = "require-review" /\ ApprovalSatisfies(q, s)
    BY <1>3, <1>4 DEF CoverSubject
  <2> QED  BY <1>3, <2>1, SatisfiedIsEndorsed DEF Vouches
<1>5. CASE CoverSubject(q, n, s) # {}
  <2>1. q.rules[n].onFailure = "comment"
    BY <1>2, <1>3, <1>5 DEF CoverSubject, RuleFinding
  <2> QED  BY <1>2, <1>3, <1>5, <2>1 DEF Vouches
<1> QED  BY <1>4, <1>5

(* A finding of no rule is well formed and asks for a review.              *)
LEMMA OutsideTyped ==
    ASSUME NEW rule \in BuiltinRules, NEW o \in STRING \union {""},
           NEW s \in STRING \union {"", "self"}, NEW code \in Codes
    PROVE  /\ Outside(rule, o, s, code) \in Finding
           /\ Outside(rule, o, s, code).effect = "require-review"
BY DEF Outside, Finding, Effects

(* The effective phase is enforce only if the ceiling is.                  *)
LEMMA CeilingCaps ==
    ASSUME NEW rule, NEW ceiling, EffectivePhase(rule, ceiling) = "enforce"
    PROVE  ceiling = "enforce"
<1>1. ceiling # "enforce" => PhaseRank(ceiling) \in {0, 1}  BY DEF PhaseRank
<1>2. PhaseRank("enforce") = 2  BY DEF PhaseRank
<1>3. ceiling # "enforce" => rule = "enforce" /\ ~(PhaseRank(ceiling) < PhaseRank(rule))
  BY DEF EffectivePhase
<1> QED  BY <1>1, <1>2, <1>3

(* A rule blocks exactly if it has a blocking finding, and whatever makes   *)
(* the decision worse is a finding.                                         *)
LEMMA WorsenedByFindings ==
    ASSUME NEW q, NEW n
    PROVE  /\ WorsenedBy(q, n) \subseteq Decisions
           /\ "BLOCK" \in WorsenedBy(q, n) <=> \E f \in FindingsOf(q, n) : f.effect = "block"
           /\ WorsenedBy(q, n) # {} => FindingsOf(q, n) # {}
BY DEF WorsenedBy, EffectDecision, Decisions

-----------------------------------------------------------------------------
Approving == pc # "failed" /\ decision = "APPROVE"

(* A call that is being evaluated, or was approved, passed the guards.     *)
GuardsHeld ==
    pc \in {"profile", "rules", "deletes", "edits", "risk"} \/ Decided("APPROVE") =>
        ~req.reserved /\ ~req.opaque /\ DOMAIN req.changes # {} /\ req.require # {}

RulesDone == pc \in {"deletes", "edits", "risk"} \/ Decided("APPROVE") => todo = {}

(* What the loop has established while the decision is still APPROVE.      *)
LoopHeld ==
    /\ pc \in {"guards", "profile"} => todo = DOMAIN req.rules /\ decision = "APPROVE"
    /\ \A o \in covered : \E n \in DOMAIN req.rules : Enforced(req, n) /\ req.rules[n].prove = o
    /\ Approving => \A n \in DOMAIN req.rules \ todo :
                        Enforced(req, n) => WorsenedBy(req, n) \subseteq {"APPROVE"}

(* What each escalation has established.                                   *)
EscalationsHeld ==
    /\ pc \in {"deletes", "edits", "risk", "done"} /\ Approving => req.require \subseteq covered
    /\ pc \in {"edits", "risk", "done"} /\ Approving =>
          \A c \in DOMAIN req.changes :
             WholeFile(req.changes[c]) /\ req.changes[c].kind = "delete"
                => Governed(req, c, {"fileEvents"})
    /\ pc \in {"risk", "done"} /\ Approving =>
          \A c \in DOMAIN req.changes :
             ~WholeFile(req.changes[c]) => Governed(req, c, Domains)

(* Findings explain the decision and the points, at every step.            *)
Explained ==
    /\ decision # "APPROVE" \/ points # 0 => findings # {}
    /\ decision = "BLOCK" <=> \E f \in findings : f.effect = "block"

Inv ==
    /\ req \in Requests /\ TypeOK
    /\ GuardsHeld /\ RulesDone /\ LoopHeld /\ EscalationsHeld /\ Explained

-----------------------------------------------------------------------------
(* The invariant holds before the first guard.                             *)
LEMMA InitInv == Init => Inv
<1> SUFFICES ASSUME Init PROVE Inv  OBVIOUS
<1>1. RequestOK(req)  BY RequestsAssumption DEF Init
<1> QED
  BY <1>1 DEF Init, Inv, TypeOK, GuardsHeld, RulesDone, LoopHeld, EscalationsHeld, Explained,
              Decided, Approving, Decisions

(* The steps that only move on.                                            *)
LEMMA QuietSteps ==
    ASSUME Inv, \/ EmptyRequire \/ PassGuards \/ ProfileError \/ ResolveProfile
                \/ UNCHANGED vars
                \/ \E n \in todo : SkipRule(n) \/ MatchFails(n)
    PROVE  Inv'
<1> USE DEF Inv, TypeOK, GuardsHeld, RulesDone, LoopHeld, EscalationsHeld, Explained,
            Decided, Approving
<1>1. CASE EmptyRequire  BY <1>1 DEF EmptyRequire
<1>2. CASE PassGuards  BY <1>2 DEF PassGuards, Undecidable
<1>3. CASE ProfileError  BY <1>3 DEF ProfileError
<1>4. CASE ResolveProfile  BY <1>4 DEF ResolveProfile
<1>5. CASE UNCHANGED vars  BY <1>5 DEF vars
<1>6. CASE \E n \in todo : SkipRule(n)
  <2>1. PICK n \in todo : SkipRule(n)  BY <1>6
  <2>2. ~Enforced(req, n)  BY <2>1 DEF SkipRule, Evaluated, Enforced
  <2> QED  BY <2>1, <2>2 DEF SkipRule, Takes
<1>7. CASE \E n \in todo : MatchFails(n)
  BY <1>7 DEF MatchFails, Takes
<1> QED  BY <1>1, <1>2, <1>3, <1>4, <1>5, <1>6, <1>7

(* The guards that decide.                                                 *)
LEMMA GuardSteps ==
    ASSUME Inv, ReservedClassBlock \/ UndecidableReview
    PROVE  Inv'
<1> USE DEF Inv, GuardsHeld, RulesDone, LoopHeld, EscalationsHeld, Explained,
            Decided, Approving
<1>1. CASE ReservedClassBlock
  <2>1. findings' \subseteq Finding
    BY <1>1 DEF ReservedClassBlock, Outside, Finding, BuiltinRules, Codes, Effects
  <2>2. TypeOK'  BY <1>1, <2>1 DEF ReservedClassBlock, TypeOK, Decisions
  <2>3. \E f \in findings' : f.effect = "block"
    BY <1>1 DEF ReservedClassBlock, Outside
  <2> QED  BY <1>1, <2>2, <2>3 DEF ReservedClassBlock
<1>2. CASE UndecidableReview
  <2> DEFINE f == Outside("aggregate.changeset", "", "self", "changeset.undecidable")
  <2>1. f \in Finding /\ f.effect = "require-review"
    <3>1. "aggregate.changeset" \in BuiltinRules /\ "changeset.undecidable" \in Codes
      BY DEF BuiltinRules, Codes
    <3> QED  BY <3>1, OutsideTyped
  <2>2. findings' = {f}  BY <1>2 DEF UndecidableReview
  <2> HIDE DEF f
  <2>3. TypeOK'  BY <1>2, <2>1, <2>2 DEF UndecidableReview, TypeOK, Decisions
  <2> QED  BY <1>2, <2>1, <2>2, <2>3 DEF UndecidableReview
<1> QED  BY <1>1, <1>2

(* An observed rule touches only the observed findings.                    *)
LEMMA ObserveStep ==
    ASSUME Inv, NEW n \in todo, ObserveRule(n)
    PROVE  Inv'
<1>1. n \in DOMAIN req.rules /\ req \in Requests  BY DEF Inv, TypeOK
<1>2. observed' \subseteq Finding
  BY <1>1, FindingsTyped DEF ObserveRule, Inv, TypeOK
<1>3. TypeOK'  BY <1>2 DEF ObserveRule, Takes, Inv, TypeOK
<1>4. ~Enforced(req, n)  BY DEF ObserveRule, Enforced
<1> QED
  BY <1>3, <1>4 DEF ObserveRule, Takes, Inv, GuardsHeld, RulesDone, LoopHeld,
                    EscalationsHeld, Explained, Decided, Approving

(* An enforced rule: what stays APPROVE is clean, what is worse is         *)
(* explained.                                                              *)
LEMMA EnforceStep ==
    ASSUME Inv, NEW n \in todo, EnforceRule(n)
    PROVE  Inv'
<1>1. n \in DOMAIN req.rules /\ req \in Requests /\ RequestOK(req)
  BY RequestsAssumption DEF Inv, TypeOK
<1> DEFINE gain == Cardinality(Firings(req, n)) * req.rules[n].points
<1>g. gain \in Nat /\ (gain # 0 => FindingsOf(req, n) # {})  BY <1>1, FiringsCounted
<1>p. points \in Nat /\ points' = points + gain  BY DEF EnforceRule, Inv, TypeOK
<1> HIDE DEF gain
<1>2. TypeOK'
  <2>1. findings' \subseteq Finding /\ gaps' \subseteq STRING \union {"", "self"}
    BY <1>1, FindingsTyped DEF EnforceRule, Inv, TypeOK
  <2>2. points' \in Nat
    BY <1>g, <1>p
  <2>3. covered' \subseteq STRING
    BY <1>1 DEF EnforceRule, Inv, TypeOK, RequestOK
  <2>4. decision' \in Decisions  BY DEF EnforceRule, Worst, Decisions
  <2> QED  BY <2>1, <2>2, <2>3, <2>4 DEF EnforceRule, Takes, Inv, TypeOK
<1>3. decision' = "APPROVE" => decision = "APPROVE" /\ WorsenedBy(req, n) \subseteq {"APPROVE"}
  BY <1>1, WorsenedByFindings DEF EnforceRule, Worst, Decisions, Inv, TypeOK
<1>4. GuardsHeld' /\ RulesDone' /\ EscalationsHeld'
  BY DEF EnforceRule, Takes, Inv, GuardsHeld, RulesDone, EscalationsHeld, Decided, Approving
<1>5. LoopHeld'
  <2>1. \A o \in covered' : \E m \in DOMAIN req.rules : Enforced(req, m) /\ req.rules[m].prove = o
    BY <1>1 DEF EnforceRule, Inv, LoopHeld
  <2>2. decision' = "APPROVE" => \A m \in DOMAIN req.rules \ todo' :
                        Enforced(req, m) => WorsenedBy(req, m) \subseteq {"APPROVE"}
    BY <1>3 DEF EnforceRule, Takes, Inv, LoopHeld, Approving
  <2> QED  BY <2>1, <2>2 DEF EnforceRule, Takes, Inv, LoopHeld, Approving
<1>6. Explained'
  <2>1. points' # 0 => points # 0 \/ FindingsOf(req, n) # {}
    BY <1>g, <1>p
  <2>2. decision' # "APPROVE" => decision # "APPROVE" \/ FindingsOf(req, n) # {}
    BY WorsenedByFindings DEF EnforceRule, Worst, Inv, TypeOK, Decisions
  <2>3. decision' = "BLOCK" <=> decision = "BLOCK" \/ "BLOCK" \in WorsenedBy(req, n)
    BY DEF EnforceRule, Worst
  <2> QED
    BY <2>1, <2>2, <2>3, WorsenedByFindings DEF EnforceRule, Inv, Explained
<1> QED  BY <1>2, <1>4, <1>5, <1>6 DEF EnforceRule, Inv

(* An escalation with well-formed review findings.                         *)
LEMMA EscalateStep ==
    ASSUME Inv, NEW new, Escalate(new), new \subseteq Finding,
           \A f \in new : f.effect = "require-review",
           UNCHANGED <<req, points>>
    PROVE  /\ findings' \subseteq Finding /\ decision' \in Decisions
           /\ decision' = "APPROVE" => decision = "APPROVE" /\ new = {}
           /\ Explained'
<1>1. findings' \subseteq Finding  BY DEF Escalate, Inv, TypeOK
<1>2. decision' \in Decisions  BY DEF Escalate, Worst, Decisions, Inv, TypeOK
<1>3. decision' = "APPROVE" => decision = "APPROVE" /\ new = {}
  BY DEF Escalate, Worst, Inv, TypeOK, Decisions
<1>4. decision' = "BLOCK" <=> decision = "BLOCK"  BY DEF Escalate, Worst, Inv, TypeOK, Decisions
<1>5. decision' # "APPROVE" => decision # "APPROVE" \/ new # {}  BY DEF Escalate
<1>6. Explained'  BY <1>4, <1>5 DEF Escalate, Inv, Explained
<1> QED  BY <1>1, <1>2, <1>3, <1>6

(* Past the uncovered guard an APPROVE has every required obligation       *)
(* covered.                                                                *)
LEMMA UncoveredStep == ASSUME Inv, UncoveredObligations PROVE Inv'
<1> DEFINE new == {Outside("aggregate.uncovered", o, "", "obligation.uncovered") :
                       o \in req.require \ covered}
<1>1. RequestOK(req)  BY RequestsAssumption DEF Inv
<1>2. new \subseteq Finding /\ \A f \in new : f.effect = "require-review"
  <2>1. "aggregate.uncovered" \in BuiltinRules /\ "obligation.uncovered" \in Codes
    BY DEF BuiltinRules, Codes
  <2>2. req.require \subseteq STRING  BY <1>1 DEF RequestOK
  <2> QED  BY <2>1, <2>2, OutsideTyped
<1>3. Escalate(new) /\ UNCHANGED <<req, points>>  BY DEF UncoveredObligations
<1>4. new = {} => req.require \subseteq covered  OBVIOUS
<1> HIDE DEF new
<1>5. /\ findings' \subseteq Finding /\ decision' \in Decisions /\ Explained'
      /\ decision' = "APPROVE" => decision = "APPROVE" /\ new = {}
  BY <1>2, <1>3, EscalateStep
<1> QED
  BY <1>4, <1>5 DEF UncoveredObligations, Inv, TypeOK, GuardsHeld, RulesDone, LoopHeld,
                    EscalationsHeld, Decided, Approving

(* Past the delete guard an APPROVE has every whole-file delete governed.  *)
LEMMA DeletesStep == ASSUME Inv, UnmatchedDeletes PROVE Inv'
<1> DEFINE bad == {d \in DOMAIN req.changes :
                      /\ WholeFile(req.changes[d]) /\ req.changes[d].kind = "delete"
                      /\ ~Governed(req, d, {"fileEvents"})}
           new == {Outside("aggregate.unmatchedDelete", "", req.changes[c].subject,
                           "fileEvent.unmatchedDelete") : c \in bad}
<1>1. \A c \in DOMAIN req.changes : req.changes[c].subject \in STRING
  BY RequestsAssumption DEF Inv, RequestOK, Change
<1>2. new \subseteq Finding /\ \A f \in new : f.effect = "require-review"
  <2>1. "aggregate.unmatchedDelete" \in BuiltinRules /\ "fileEvent.unmatchedDelete" \in Codes
    BY DEF BuiltinRules, Codes
  <2>2. ASSUME NEW c \in bad
        PROVE  LET f == Outside("aggregate.unmatchedDelete", "", req.changes[c].subject,
                                "fileEvent.unmatchedDelete")
               IN  f \in Finding /\ f.effect = "require-review"
    BY <1>1, <2>1, OutsideTyped
  <2> HIDE DEF bad
  <2> QED  BY <2>2
<1>3. Escalate(new) /\ UNCHANGED <<req, points>>  BY DEF UnmatchedDeletes
<1>4. new = {} => bad = {}  OBVIOUS
<1> HIDE DEF new
<1>5. /\ findings' \subseteq Finding /\ decision' \in Decisions /\ Explained'
      /\ decision' = "APPROVE" => decision = "APPROVE" /\ new = {}
  BY <1>2, <1>3, EscalateStep
<1> QED
  BY <1>4, <1>5 DEF UnmatchedDeletes, Inv, TypeOK, GuardsHeld, RulesDone, LoopHeld,
                    EscalationsHeld, Decided, Approving

(* Past the edit guard an APPROVE has every edit governed: the guard is     *)
(* armed because some required obligation is covered.                       *)
LEMMA EditsStep == ASSUME Inv, UnmatchedEdits PROVE Inv'
<1> DEFINE bad == {d \in DOMAIN req.changes :
                      /\ req.require \intersect covered # {}
                      /\ ~WholeFile(req.changes[d])
                      /\ ~Governed(req, d, Domains)}
           new == {Outside("aggregate.unmatchedEdit", "", req.changes[c].subject,
                           "change.unmatchedEdit") : c \in bad}
<1>1. \A c \in DOMAIN req.changes : req.changes[c].subject \in STRING
  BY RequestsAssumption DEF Inv, RequestOK, Change
<1>2. new \subseteq Finding /\ \A f \in new : f.effect = "require-review"
  <2>1. "aggregate.unmatchedEdit" \in BuiltinRules /\ "change.unmatchedEdit" \in Codes
    BY DEF BuiltinRules, Codes
  <2>2. ASSUME NEW c \in bad
        PROVE  LET f == Outside("aggregate.unmatchedEdit", "", req.changes[c].subject,
                                "change.unmatchedEdit")
               IN  f \in Finding /\ f.effect = "require-review"
    BY <1>1, <2>1, OutsideTyped
  <2> HIDE DEF bad
  <2> QED  BY <2>2
<1>3. Escalate(new) /\ UNCHANGED <<req, points>>  BY DEF UnmatchedEdits
<1>4. new = {} => bad = {}  OBVIOUS
<1> HIDE DEF new
<1>5. /\ findings' \subseteq Finding /\ decision' \in Decisions /\ Explained'
      /\ decision' = "APPROVE" => decision = "APPROVE" /\ new = {}
  BY <1>2, <1>3, EscalateStep
<1>6. decision = "APPROVE" => req.require \intersect covered # {}
  BY DEF UnmatchedEdits, Inv, GuardsHeld, EscalationsHeld, Approving
<1> QED
  BY <1>4, <1>5, <1>6 DEF UnmatchedEdits, Inv, TypeOK, GuardsHeld, RulesDone, LoopHeld,
                          EscalationsHeld, Decided, Approving

(* The threshold only makes worse, and only when there are findings.       *)
LEMMA RiskStep == ASSUME Inv, RiskCheck PROVE Inv'
<1>1. points > req.threshold => points # 0
  <2>1. points \in Nat /\ req.threshold \in Nat
    BY RequestsAssumption DEF Inv, TypeOK, RequestOK
  <2> QED  BY <2>1
<1>2. decision' \in Decisions /\ (decision' = "APPROVE" => decision = "APPROVE")
  BY DEF RiskCheck, Worst, Decisions, Inv, TypeOK
<1>3. Explained'
  BY <1>1 DEF RiskCheck, Worst, Inv, Explained, TypeOK, Decisions
<1> QED
  BY <1>2, <1>3 DEF RiskCheck, Inv, TypeOK, GuardsHeld, RulesDone, LoopHeld, EscalationsHeld,
                    Decided, Approving

-----------------------------------------------------------------------------
(* The inductive invariant of the decision engine (decide.go, coverage.go): *)
(* while the decision is APPROVE, every rule and escalation passed so far   *)
(* has been clean, and every worse decision has a finding.                  *)
THEOREM DecisionInvariant == Spec => []Inv
<1>1. Inv /\ [Next]_vars => Inv'
  BY QuietSteps, GuardSteps, ObserveStep, EnforceStep, UncoveredStep, DeletesStep, EditsStep,
     RiskStep DEF Next
<1> QED  BY <1>1, InitInv, PTL DEF Spec

(* Type correctness of the engine for every set of requests.               *)
THEOREM DecisionTypeCorrect == Spec => []TypeOK
<1>1. Inv => TypeOK  BY DEF Inv
<1> QED  BY <1>1, DecisionInvariant, PTL

(* An APPROVE of the engine is never vacuous, for every policy, change set  *)
(* and body of evidence.                                                    *)
THEOREM ApprovalsAreVouched == Spec => []ApproveIsVouched
<1>1. Inv => ApproveIsVouched
  <2> SUFFICES ASSUME Inv, Decided("APPROVE") PROVE ApproveIsVouched
    BY DEF ApproveIsVouched
  <2>1. ~req.reserved /\ ~req.opaque /\ DOMAIN req.changes # {}
    BY DEF Inv, GuardsHeld
  <2>2. Approving /\ pc = "done" /\ todo = {}
    BY DEF Inv, RulesDone, Decided, Approving
  <2>3. \A o \in req.require : \E n \in DOMAIN req.rules :
           Enforced(req, n) /\ req.rules[n].prove = o
    BY <2>2 DEF Inv, LoopHeld, EscalationsHeld
  <2>4. \A c \in DOMAIN req.changes :
           /\ ~WholeFile(req.changes[c]) => Governed(req, c, Domains)
           /\ WholeFile(req.changes[c]) /\ req.changes[c].kind = "delete"
                 => Governed(req, c, {"fileEvents"})
    BY <2>2 DEF Inv, EscalationsHeld
  <2>5. \A n \in DOMAIN req.rules : Enforced(req, n) =>
           \A c \in Matched(req, n) : Vouches(req, n, c)
    BY <2>2, CleanRuleVouches DEF Inv, LoopHeld
  <2> QED  BY <2>1, <2>3, <2>4, <2>5 DEF ApproveIsVouched
<1> QED  BY <1>1, DecisionInvariant, PTL

(* No policy in a pack capped below enforce approves anything.             *)
THEOREM CappedPacksNeverApprove == Spec => []CappedPackNeverApproves
<1>1. Inv => CappedPackNeverApproves
  <2> SUFFICES ASSUME Inv, Ceiling(req) # "enforce", Decided("APPROVE") PROVE FALSE
    BY DEF CappedPackNeverApproves
  <2>1. PICK o \in req.require : TRUE  BY DEF Inv, GuardsHeld
  <2>2. PICK n \in DOMAIN req.rules : Enforced(req, n)
    BY <2>1 DEF Inv, LoopHeld, EscalationsHeld, Decided, Approving
  <2> QED
    BY <2>2, CeilingCaps DEF Enforced, PhaseOf
<1> QED  BY <1>1, DecisionInvariant, PTL

(* Every denial has a finding, and BLOCK exactly a blocking one.           *)
THEOREM DenialsAreExplained == Spec => []DenialIsExplained
<1>1. Inv => DenialIsExplained  BY DEF Inv, Explained, DenialIsExplained
<1> QED  BY <1>1, DecisionInvariant, PTL

-----------------------------------------------------------------------------
(* Write authority.                                                        *)

(* A set of numbers has a least one.                                       *)
LEMMA LeastRow ==
    ASSUME NEW S \in SUBSET Nat, S # {}
    PROVE  \E i \in S : \A j \in S : i <= j
<1>1. PICK i \in S : \A j \in S : ~(<<j, i>> \in OpToRel(<, Nat))
  BY NatLessThanWellFounded, WFMin
<1>2. ASSUME NEW j \in S PROVE i <= j
  <2>1. i \in Nat /\ j \in Nat /\ <<j, i>> \in Nat \X Nat
    OBVIOUS
  <2>2. ~(j < i)
    BY <1>1, <2>1 DEF OpToRel
  <2> QED
    BY <2>1, <2>2
<1> QED
  BY <1>2

(* Among rows of specificity 0, 1 or 2 there is a first one of the highest. *)
LEMMA NarrowestFirst ==
    ASSUME NEW S \in SUBSET Nat, S # {}, NEW spec \in [S -> 0 .. 2]
    PROVE  \E i \in S : \A j \in S : spec[j] < spec[i] \/ (spec[j] = spec[i] /\ i <= j)
<1> DEFINE At(k) == {i \in S : spec[i] = k}
<1>1. ASSUME NEW k \in 0 .. 2, At(k) # {}, \A j \in S : spec[j] <= k
      PROVE  \E i \in S : \A j \in S : spec[j] < spec[i] \/ (spec[j] = spec[i] /\ i <= j)
  <2>1. PICK i \in At(k) : \A j \in At(k) : i <= j
    BY <1>1, LeastRow
  <2>2. \A j \in S : spec[j] \in 0 .. 2
    OBVIOUS
  <2> QED
    BY <1>1, <2>1, <2>2
<1>2. \A j \in S : spec[j] \in {0, 1, 2}
  OBVIOUS
<1>3. CASE At(2) # {}
  BY <1>1, <1>2, <1>3
<1>4. CASE At(2) = {} /\ At(1) # {}
  <2>1. \A j \in S : spec[j] <= 1
    BY <1>2, <1>4
  <2> QED
    BY <1>1, <1>4, <2>1
<1>5. CASE At(2) = {} /\ At(1) = {}
  <2>1. \A j \in S : spec[j] = 0
    BY <1>2, <1>5
  <2>2. At(0) # {}
    BY <2>1
  <2>3. \A j \in S : spec[j] <= 0
    BY <2>1
  <2> QED
    BY <1>1, <2>2, <2>3
<1> QED
  BY <1>3, <1>4, <1>5

(* The covering profile that wins is one of the rows, and none is narrower. *)
LEMMA WinnerIsNarrowest ==
    ASSUME NEW q \in Requests, CoveringRows(q) # {}
    PROVE  \E i \in CoveringRows(q) :
              /\ Winner(q) = q.profiles[q.precedence[i]]
              /\ \A j \in CoveringRows(q) : Specificity(q.profiles[q.precedence[j]])
                                               <= Specificity(q.profiles[q.precedence[i]])
<1> DEFINE S == CoveringRows(q)
           spec(i) == Specificity(q.profiles[q.precedence[i]])
           First(i) == \A j \in S : spec(j) < spec(i) \/ (spec(j) = spec(i) /\ i <= j)
<1>1. q.precedence \in Seq(STRING)
  BY RequestsAssumption DEF RequestOK
<1>2. S \in SUBSET Nat /\ S # {}
  BY <1>1 DEF CoveringRows
<1>3. \A i : spec(i) \in 0 .. 2
  BY DEF Specificity
<1>4. \E i \in S : First(i)
  <2>1. PICK f : f = [i \in S |-> spec(i)]
    OBVIOUS
  <2> HIDE DEF S, spec
  <2>2. f \in [S -> 0 .. 2] /\ \A i \in S : f[i] = spec(i)
    BY <1>3, <2>1
  <2>3. PICK i \in S : \A j \in S : f[j] < f[i] \/ (f[j] = f[i] /\ i <= j)
    BY <1>2, <2>2, NarrowestFirst
  <2> QED
    BY <2>2, <2>3
<1>5. PICK row : row = CHOOSE i \in S : First(i)
  OBVIOUS
<1>6. row \in S /\ First(row)
  <2> HIDE DEF S, First
  <2> QED
    BY <1>4, <1>5
<1>7. Winner(q) = q.profiles[q.precedence[row]]
  BY <1>5 DEF Winner
<1>8. \A j \in S : spec(j) <= spec(row)
  <2> HIDE DEF S, spec
  <2> QED
    BY <1>3, <1>6
<1> QED
  BY <1>6, <1>7, <1>8

(* OneWriterNarrowest, at every step: authority is taken once, after the    *)
(* guards, and never changed.                                               *)
Authorised ==
    profile.writes =>
        /\ PastGuards
        /\ \E i \in Writers(req) :
              /\ Writers(req) = {i}
              /\ \A j \in CoveringRows(req) :
                    Specificity(req.profiles[req.precedence[j]])
                        <= Specificity(req.profiles[req.precedence[i]])

(* The step that resolves the profile gives authority to one writer.       *)
LEMMA ResolvedIsAuthorised ==
    ASSUME Inv, ResolveProfile
    PROVE  Authorised'
<1> SUFFICES ASSUME profile'.writes
             PROVE  Authorised'
  BY DEF Authorised
<1>1. req \in Requests /\ req' = req /\ RequestOK(req)
  BY RequestsAssumption DEF Inv, ResolveProfile
<1>2. PastGuards /\ PastGuards'
  BY <1>1 DEF Inv, ResolveProfile, GuardsHeld, PastGuards, Undecidable
<1>3. CoveringRows(req) # {} /\ profile' = [name |-> Winner(req).name, writes |-> Winner(req).writes]
  BY DEF ResolveProfile, NoProfile
<1>4. PICK i \in CoveringRows(req) :
              /\ Winner(req) = req.profiles[req.precedence[i]]
              /\ \A j \in CoveringRows(req) : Specificity(req.profiles[req.precedence[j]])
                                               <= Specificity(req.profiles[req.precedence[i]])
  BY <1>1, <1>3, WinnerIsNarrowest
<1>5. i \in Writers(req)
  BY <1>3, <1>4 DEF Writers
<1>6. Writers(req) = {i}
  <2>1. PICK rows \in Seq(STRING) : rows = req.precedence
    BY <1>1 DEF RequestOK
  <2>2. IsFiniteSet(Writers(req))
    <3>1. Writers(req) \in SUBSET DOMAIN rows
      BY <2>1 DEF Writers, CoveringRows
    <3>2. DOMAIN rows = 1 .. Len(rows) /\ Len(rows) \in Int
      OBVIOUS
    <3>3. IsFiniteSet(1 .. Len(rows))
      BY <3>2, FS_Interval
    <3> QED
      BY <3>1, <3>2, <3>3, FS_Subset
  <2>3. Cardinality(Writers(req)) <= 1
    BY DEF ResolveProfile
  <2>4. {i} \in SUBSET Writers(req) /\ IsFiniteSet({i}) /\ Cardinality({i}) = 1
    BY <1>5, FS_Singleton
  <2>5. Cardinality({i}) <= Cardinality(Writers(req))
    BY <2>2, <2>4, FS_Subset
  <2>6. Cardinality(Writers(req)) \in Nat
    BY <2>2, FS_CardinalityType
  <2>7. Cardinality(Writers(req)) = Cardinality({i})
    BY <2>3, <2>4, <2>5, <2>6
  <2> QED
    BY <2>2, <2>4, <2>7, FS_Subset
<1> QED
  BY <1>1, <1>2, <1>4, <1>5, <1>6 DEF Authorised

(* Write authority is given by the one covering writer, by none narrower    *)
(* than it, and only past the guards (profile.go), for every table of       *)
(* profiles.                                                                *)
THEOREM AuthorityIsNarrowest == Spec => []OneWriterNarrowest
<1>1. Init => Authorised
  <2>1. NoProfile.writes = FALSE
    BY DEF NoProfile
  <2>2. Init => profile = NoProfile
    BY DEF Init
  <2> QED
    BY <2>1, <2>2, Zenon DEF Authorised
<1>2. Inv /\ Authorised /\ [Next]_vars => Authorised'
  <2> SUFFICES ASSUME Inv, Authorised, [Next]_vars, ~ResolveProfile
               PROVE  Authorised'
    BY ResolvedIsAuthorised
  <2>1. req' = req /\ profile' = profile
    BY DEF Next, vars, ReservedClassBlock, UndecidableReview, EmptyRequire, PassGuards, ProfileError,
           SkipRule, MatchFails, ObserveRule, EnforceRule, UncoveredObligations, UnmatchedDeletes,
           UnmatchedEdits, RiskCheck
  <2> QED
    BY <2>1 DEF Authorised, PastGuards, Undecidable
<1>3. Authorised => OneWriterNarrowest
  BY DEF Authorised, OneWriterNarrowest
<1> QED
  BY <1>1, <1>2, <1>3, DecisionInvariant, PTL DEF Spec

-----------------------------------------------------------------------------
(* The verdict as a function of the request.                               *)

(* The worst of a worst is the worst of all.                               *)
LEMMA WorstOfWorst ==
    ASSUME NEW A, NEW B
    PROVE  Worst({Worst(A)} \union B) = Worst(A \union B)
<1>1. CASE "BLOCK" \in A
  BY <1>1 DEF Worst
<1>2. CASE "BLOCK" \notin A /\ "REVIEW" \in A
  <2>1. Worst(A) = "REVIEW"
    BY <1>2 DEF Worst
  <2> QED
    BY <1>2, <2>1 DEF Worst
<1>3. CASE "BLOCK" \notin A /\ "REVIEW" \notin A
  <2>1. Worst(A) = "APPROVE"
    BY <1>3 DEF Worst
  <2> QED
    BY <1>3, <2>1 DEF Worst
<1> QED
  BY <1>1, <1>2, <1>3

(* The points of a rule are counted once for each change it fires on.      *)
LEMMA PointsOfOne ==
    ASSUME NEW q \in Requests, NEW n \in DOMAIN q.rules
    PROVE  /\ IsFiniteSet(PointsOf(q, {n}))
           /\ Cardinality(PointsOf(q, {n})) = Cardinality(Firings(q, n)) * q.rules[n].points
           /\ Cardinality(PointsOf(q, {n})) \in Nat
<1> DEFINE P == 1 .. q.rules[n].points
           F == Firings(q, n)
<1>1. RequestOK(q)
  BY RequestsAssumption
<1>2. IsFiniteSet(F)
  BY <1>1, FS_Subset DEF RequestOK, Firings, Matched
<1>3. PICK k \in Nat : k = q.rules[n].points
  BY <1>1 DEF RequestOK
<1>4. IsFiniteSet(P) /\ Cardinality(P) = k
  <2>1. IsFiniteSet(1 .. k) /\ Cardinality(1 .. k) = IF 1 > k THEN 0 ELSE k - 1 + 1
    BY FS_Interval
  <2> QED
    BY <1>3, <2>1
<1>5. IsFiniteSet(F \X P) /\ Cardinality(F \X P) = Cardinality(F) * Cardinality(P)
  BY <1>2, <1>4, FS_Product
<1>6. IsFiniteSet({n}) /\ Cardinality({n}) = 1
  BY FS_Singleton
<1>7. /\ IsFiniteSet({n} \X (F \X P))
      /\ Cardinality({n} \X (F \X P)) = Cardinality({n}) * Cardinality(F \X P)
  BY <1>5, <1>6, FS_Product
<1>8. PointsOf(q, {n}) = {n} \X (F \X P)
  BY DEF PointsOf
<1>9. Cardinality(F \X P) \in Nat
  BY <1>5, FS_CardinalityType
<1> HIDE DEF F, P
<1>10. PICK c \in Nat : c = Cardinality(F \X P)
  BY <1>9
<1>11. Cardinality({n} \X (F \X P)) = c
  BY <1>6, <1>7, <1>10
<1> QED
  BY <1>3, <1>4, <1>5, <1>7, <1>8, <1>10, <1>11 DEF F

(* The points of any rules are finitely many.                              *)
LEMMA PointsFinite ==
    ASSUME NEW q \in Requests, NEW N \in SUBSET (DOMAIN q.rules)
    PROVE  IsFiniteSet(PointsOf(q, N)) /\ Cardinality(PointsOf(q, N)) \in Nat
<1>1. IsFiniteSet(N)
  BY RequestsAssumption, FS_Subset DEF RequestOK
<1> DEFINE Parts == {PointsOf(q, {n}) : n \in N}
<1>2. IsFiniteSet(Parts)
  <2> DEFINE f == [n \in N |-> PointsOf(q, {n})]
  <2>1. f \in Surjection(N, Parts)
    BY DEF Surjection
  <2> QED
    BY <1>1, <2>1, FS_Surjection
<1>3. \A P \in Parts : IsFiniteSet(P)
  BY PointsOfOne
<1>4. PointsOf(q, N) = UNION Parts
  BY DEF PointsOf
<1>5. IsFiniteSet(UNION Parts)
  BY <1>2, <1>3, FS_UNION
<1> QED
  BY <1>4, <1>5, FS_CardinalityType

(* A rule that joins adds its points.                                      *)
LEMMA PointsAdded ==
    ASSUME NEW q \in Requests, NEW N \in SUBSET (DOMAIN q.rules), NEW n \in DOMAIN q.rules, n \notin N
    PROVE  Cardinality(PointsOf(q, N \union {n}))
              = Cardinality(PointsOf(q, N)) + Cardinality(Firings(q, n)) * q.rules[n].points
<1> DEFINE A == PointsOf(q, N)
           B == PointsOf(q, {n})
<1>1. IsFiniteSet(A) /\ Cardinality(A) \in Nat
  BY PointsFinite
<1>2. IsFiniteSet(B) /\ Cardinality(B) \in Nat
      /\ Cardinality(B) = Cardinality(Firings(q, n)) * q.rules[n].points
  BY PointsOfOne
<1>3. PointsOf(q, N \union {n}) = A \union B
  BY DEF PointsOf
<1>4. A \intersect B = {}
  <2> SUFFICES ASSUME NEW x, x \in A, x \in B
               PROVE  FALSE
    OBVIOUS
  <2>1. PICK m \in N : x \in {m} \X (Firings(q, m) \X (1 .. q.rules[m].points))
    BY DEF PointsOf
  <2>2. x \in {n} \X (Firings(q, n) \X (1 .. q.rules[n].points))
    BY DEF PointsOf
  <2>3. x[1] = m /\ x[1] = n
    BY <2>1, <2>2
  <2> QED
    BY <2>3
<1>5. Cardinality(A \intersect B) = 0
  BY <1>4, FS_EmptySet
<1>6. Cardinality(A \union B) = Cardinality(A) + Cardinality(B) - Cardinality(A \intersect B)
  BY <1>1, <1>2, FS_Union
<1> HIDE DEF A, B
<1>7. Cardinality(A \union B) = Cardinality(A) + Cardinality(B)
  BY <1>1, <1>2, <1>5, <1>6
<1> QED
  BY <1>2, <1>3, <1>7 DEF A

-----------------------------------------------------------------------------
(* What the loop and the escalations have added up so far.                 *)

Done == Enforcing(req) \ todo
Effect(q, rules) == UNION {WorsenedBy(q, n) : n \in rules}
Proved(q, rules) == {q.rules[n].prove : n \in rules}
Uncovered(q) == \E o \in q.require : \A n \in Enforcing(q) : q.rules[n].prove # o
BareEdit(q) == \E c \in DOMAIN q.changes : ~WholeFile(q.changes[c]) /\ ~Governed(q, c, Domains)
BareDelete(q) ==
    \E c \in DOMAIN q.changes : WholeFile(q.changes[c]) /\ q.changes[c].kind = "delete"
                                  /\ ~Governed(q, c, {"fileEvents"})

(* The escalations the call has passed ask for a review.                   *)
Raised ==
    \/ pc \in {"deletes", "edits", "risk", "done"} /\ Uncovered(req)
    \/ pc \in {"edits", "risk", "done"} /\ BareDelete(req)
    \/ pc \in {"risk", "done"} /\ BareEdit(req)
    \/ pc = "done" /\ TotalPoints(req) > req.threshold
Review(b) == IF b THEN {"REVIEW"} ELSE {}

Tally ==
    PastGuards /\ pc # "failed" =>
        /\ pc \in {"deletes", "edits", "risk", "done"} => todo = {}
        /\ covered = Proved(req, Done)
        /\ points = Cardinality(PointsOf(req, Done))
        /\ decision = Worst(Effect(req, Done) \union Review(Raised))

(* At first nothing has been added up.                                     *)
LEMMA InitTally == Init => Tally
<1> SUFFICES ASSUME Init PROVE Tally
  OBVIOUS
<1>1. Done = {}
  BY DEF Init, Done, Enforcing
<1>2. pc = "guards" /\ decision = "APPROVE" /\ covered = {} /\ points = 0
  BY DEF Init
<1>3. Effect(req, Done) = {} /\ Proved(req, Done) = {} /\ PointsOf(req, Done) = {}
  BY <1>1 DEF Effect, Proved, PointsOf
<1>4. Cardinality({}) = 0
  BY FS_EmptySet
<1>5. ~Raised
  BY <1>2 DEF Raised
<1>6. Worst({}) = "APPROVE"
  BY DEF Worst
<1> QED
  BY <1>2, <1>3, <1>4, <1>5, <1>6 DEF Tally, Review

(* A step that touches neither the sums nor the escalations passed.        *)
LEMMA TallyKept ==
    ASSUME Inv, Tally, req' = req, Done' = Done, pc' # "failed", pc # "failed",
           UNCHANGED <<covered, points, decision>>, Raised' <=> Raised,
           pc' \in {"deletes", "edits", "risk", "done"} => todo' = {}
    PROVE  Tally'
<1>1. PastGuards' <=> PastGuards
  BY DEF PastGuards, Undecidable
<1>2. Review(Raised)' = Review(Raised)
  BY DEF Review
<1> QED
  BY <1>1, <1>2 DEF Tally

(* The guards and the profile.                                             *)
LEMMA EarlyTally ==
    ASSUME Inv, Tally, \/ ReservedClassBlock \/ UndecidableReview \/ EmptyRequire \/ PassGuards
                       \/ ProfileError \/ ResolveProfile
    PROVE  Tally'
<1>1. CASE ReservedClassBlock \/ UndecidableReview
  BY <1>1 DEF ReservedClassBlock, UndecidableReview, Tally, PastGuards, Undecidable
<1>2. CASE EmptyRequire \/ ProfileError
  BY <1>2 DEF EmptyRequire, ProfileError, Tally
<1>3. CASE PassGuards \/ ResolveProfile
  <2>1. /\ req' = req /\ todo' = todo /\ UNCHANGED <<covered, points, decision>>
        /\ pc \in {"guards", "profile"} /\ pc' \in {"profile", "rules"}
    BY <1>3 DEF PassGuards, ResolveProfile
  <2>2. ~Raised /\ ~Raised'
    BY <2>1 DEF Raised
  <2>3. Done' = Done
    BY <2>1 DEF Done
  <2> QED
    BY <2>1, <2>2, <2>3, TallyKept
<1> QED
  BY <1>1, <1>2, <1>3

(* A rule that is skipped, observed or in error adds nothing.              *)
LEMMA IdleRuleTally ==
    ASSUME Inv, Tally, NEW n \in todo, SkipRule(n) \/ MatchFails(n) \/ ObserveRule(n)
    PROVE  Tally'
<1>1. CASE MatchFails(n)
  BY <1>1 DEF MatchFails, Tally
<1>2. CASE SkipRule(n) \/ ObserveRule(n)
  <2>1. /\ req' = req /\ todo' = todo \ {n} /\ UNCHANGED <<covered, points, decision>>
        /\ pc = "rules" /\ pc' = "rules"
    BY <1>2 DEF SkipRule, ObserveRule, Takes
  <2>2. ~Enforced(req, n)
    BY <1>2 DEF SkipRule, ObserveRule, Evaluated, Enforced
  <2>3. Done' = Done
    BY <2>1, <2>2 DEF Done, Enforcing
  <2>4. ~Raised /\ ~Raised'
    BY <2>1 DEF Raised
  <2> QED
    BY <2>1, <2>3, <2>4, TallyKept
<1> QED
  BY <1>1, <1>2

(* An enforced rule adds its effects, its obligation and its points.       *)
LEMMA EnforcedTally ==
    ASSUME Inv, Tally, NEW n \in todo, EnforceRule(n)
    PROVE  Tally'
<1> SUFFICES ASSUME PastGuards'
             PROVE  Tally'
  BY DEF Tally
<1>1. /\ req' = req /\ todo' = todo \ {n} /\ pc = "rules" /\ pc' = "rules" /\ Enforced(req, n)
      /\ covered' = covered \union {req.rules[n].prove}
      /\ points' = points + Cardinality(Firings(req, n)) * req.rules[n].points
      /\ decision' = Worst({decision} \union WorsenedBy(req, n))
  BY DEF EnforceRule, Takes
<1>2. PastGuards
  BY <1>1 DEF PastGuards, Undecidable
<1>3. req \in Requests /\ n \in DOMAIN req.rules /\ todo \subseteq DOMAIN req.rules
  BY DEF Inv, TypeOK
<1>4. Done' = Done \union {n} /\ n \notin Done /\ Done \in SUBSET (DOMAIN req.rules)
  BY <1>1, <1>3 DEF Done, Enforcing
<1>5. ~Raised /\ ~Raised'
  BY <1>1 DEF Raised
<1>6. /\ covered = Proved(req, Done) /\ points = Cardinality(PointsOf(req, Done))
      /\ decision = Worst(Effect(req, Done))
  BY <1>1, <1>2, <1>5 DEF Tally, Review
<1>7. covered' = Proved(req, Done \union {n})
  BY <1>1, <1>6 DEF Proved
<1>8. points' = Cardinality(PointsOf(req, Done \union {n}))
  BY <1>1, <1>3, <1>4, <1>6, PointsAdded
<1>9. decision' = Worst(Effect(req, Done \union {n}))
  <2>1. Effect(req, Done \union {n}) = Effect(req, Done) \union WorsenedBy(req, n)
    BY DEF Effect
  <2> QED
    BY <1>1, <1>6, <2>1, WorstOfWorst
<1> QED
  BY <1>1, <1>4, <1>5, <1>7, <1>8, <1>9 DEF Tally, Review

(* An escalation asks for a review if it has a finding to make, or if a    *)
(* review was asked for before.                                            *)
LEMMA EscalatedTally ==
    ASSUME Inv, Tally, PastGuards, req' = req, todo = {}, todo' = {}, pc # "failed",
           pc' \in {"deletes", "edits", "risk", "done"},
           UNCHANGED <<covered, points>>, NEW b \in BOOLEAN,
           decision' = IF b THEN Worst({decision, "REVIEW"}) ELSE decision,
           Raised' <=> Raised \/ b
    PROVE  Tally'
<1>1. Done' = Done
  BY DEF Done
<1>2. decision = Worst(Effect(req, Done) \union Review(Raised))
  BY DEF Tally
<1>3. decision' = Worst(Effect(req, Done) \union Review(Raised \/ b))
  <2>1. CASE ~b
    BY <1>2, <2>1 DEF Review
  <2>2. CASE b
    <3>1. {decision, "REVIEW"} = {decision} \union {"REVIEW"}
      OBVIOUS
    <3>2. decision' = Worst((Effect(req, Done) \union Review(Raised)) \union {"REVIEW"})
      <4>1. PICK A : A = Effect(req, Done) \union Review(Raised)
        OBVIOUS
      <4>2. decision' = Worst({Worst(A)} \union {"REVIEW"})
        BY <1>2, <2>2, <3>1, <4>1
      <4> QED
        BY <4>1, <4>2, WorstOfWorst
    <3>3. (Effect(req, Done) \union Review(Raised)) \union {"REVIEW"} = Effect(req, Done) \union {"REVIEW"}
      BY DEF Review
    <3> QED
      BY <2>2, <3>2, <3>3 DEF Review
  <2> QED
    BY <2>1, <2>2
<1>4. Review(Raised)' = Review(Raised \/ b)
  BY DEF Review
<1>5. covered = Proved(req, Done) /\ points = Cardinality(PointsOf(req, Done))
  BY DEF Tally
<1> QED
  BY <1>1, <1>3, <1>4, <1>5 DEF Tally

(* The guards held before every escalation, and there is an obligation.    *)
LEMMA EscalationContext ==
    ASSUME Inv, Tally, pc \in {"deletes", "edits", "risk"} \/ (pc = "rules" /\ todo = {})
    PROVE  /\ PastGuards /\ todo = {} /\ Done = Enforcing(req) /\ req.require # {}
           /\ covered = Proved(req, Enforcing(req))
           /\ points = TotalPoints(req)
           /\ Uncovered(req) <=> req.require \ covered # {}
<1>1. PastGuards /\ req.require # {}
  BY DEF Inv, GuardsHeld, PastGuards, Undecidable
<1>2. todo = {}
  BY <1>1 DEF Tally
<1>3. Done = Enforcing(req)
  BY <1>2 DEF Done
<1>4. covered = Proved(req, Enforcing(req)) /\ points = TotalPoints(req)
  BY <1>1, <1>3 DEF Tally, TotalPoints
<1> QED
  BY <1>1, <1>2, <1>3, <1>4 DEF Uncovered, Proved

(* Obligations without an enforced rule.                                   *)
LEMMA UncoveredTally ==
    ASSUME Inv, Tally, UncoveredObligations
    PROVE  Tally'
<1> DEFINE b == req.require \ covered # {}
<1>1. /\ pc = "rules" /\ todo = {} /\ pc' = "deletes"
      /\ req' = req /\ todo' = {} /\ UNCHANGED <<covered, points>>
  BY DEF UncoveredObligations
<1>2. decision' = IF b THEN Worst({decision, "REVIEW"}) ELSE decision
  BY DEF UncoveredObligations, Escalate
<1>3. PastGuards /\ (Uncovered(req) <=> b)
  BY <1>1, EscalationContext
<1>4. ~Raised /\ (Raised' <=> Uncovered(req))
  BY <1>1 DEF Raised, Uncovered
<1> HIDE DEF b
<1>5. b \in BOOLEAN /\ (Raised' <=> Raised \/ b)
  BY <1>3, <1>4 DEF b
<1> QED
  BY <1>1, <1>2, <1>3, <1>5, EscalatedTally

(* Whole-file deletes that no enforced rule selects.                       *)
LEMMA DeletesTally ==
    ASSUME Inv, Tally, UnmatchedDeletes
    PROVE  Tally'
<1> DEFINE b == BareDelete(req)
<1>1. /\ pc = "deletes" /\ pc' = "edits" /\ req' = req /\ todo' = todo /\ UNCHANGED <<covered, points>>
  BY DEF UnmatchedDeletes
<1>2. decision' = IF b THEN Worst({decision, "REVIEW"}) ELSE decision
  BY DEF UnmatchedDeletes, Escalate, BareDelete
<1>3. PastGuards /\ todo = {}
  BY <1>1, EscalationContext
<1>4. /\ Raised <=> Uncovered(req)
      /\ Raised' <=> Uncovered(req) \/ b
  BY <1>1 DEF Raised, Uncovered, BareDelete
<1>5. b \in BOOLEAN
  BY DEF BareDelete
<1> HIDE DEF b
<1> QED
  BY <1>1, <1>2, <1>3, <1>4, <1>5, EscalatedTally

(* Edits that no enforced rule selects.  The code looks for them only if a *)
(* required obligation is covered; if none is, one is uncovered.           *)
LEMMA EditsTally ==
    ASSUME Inv, Tally, UnmatchedEdits
    PROVE  Tally'
<1> DEFINE b == req.require \intersect covered # {} /\ BareEdit(req)
<1>1. /\ pc = "edits" /\ pc' = "risk" /\ req' = req /\ todo' = todo /\ UNCHANGED <<covered, points>>
  BY DEF UnmatchedEdits
<1>2. decision' = IF b THEN Worst({decision, "REVIEW"}) ELSE decision
  BY DEF UnmatchedEdits, Escalate, BareEdit
<1>3. PastGuards /\ todo = {} /\ req.require # {} /\ (Uncovered(req) <=> req.require \ covered # {})
  BY <1>1, EscalationContext
<1>4. /\ Raised <=> Uncovered(req) \/ BareDelete(req)
      /\ Raised' <=> Uncovered(req) \/ BareDelete(req) \/ BareEdit(req)
  BY <1>1 DEF Raised, Uncovered, BareDelete, BareEdit
<1>5. BareEdit(req) => b \/ Uncovered(req)
  BY <1>3
<1>6. b \in BOOLEAN /\ (b => BareEdit(req))
  BY DEF BareEdit
<1> HIDE DEF b
<1>7. Raised' <=> Raised \/ b
  BY <1>4, <1>5, <1>6
<1> QED
  BY <1>1, <1>2, <1>3, <1>6, <1>7, EscalatedTally

(* The threshold.                                                          *)
LEMMA RiskTally ==
    ASSUME Inv, Tally, RiskCheck
    PROVE  Tally'
<1> DEFINE b == points > req.threshold
<1>1. /\ pc = "risk" /\ pc' = "done" /\ req' = req /\ todo' = todo /\ UNCHANGED <<covered, points>>
  BY DEF RiskCheck
<1>2. decision' = IF b THEN Worst({decision, "REVIEW"}) ELSE decision
  BY DEF RiskCheck
<1>3. PastGuards /\ todo = {} /\ points = TotalPoints(req)
  BY <1>1, EscalationContext
<1>4. PICK late \in BOOLEAN : late <=> TotalPoints(req) > req.threshold
  OBVIOUS
<1>5. /\ Raised <=> Uncovered(req) \/ BareDelete(req) \/ BareEdit(req)
      /\ Raised' <=> Uncovered(req) \/ BareDelete(req) \/ BareEdit(req) \/ late
  <2>1. (TotalPoints(req) > req.threshold)' <=> late
    BY <1>1, <1>4 DEF TotalPoints, PointsOf, Enforcing
  <2> HIDE DEF b
  <2> QED
    BY <1>1, <2>1 DEF Raised, Uncovered, BareDelete, BareEdit
<1>6. b <=> late
  BY <1>3, <1>4
<1> HIDE DEF b
<1>7. decision' = IF late THEN Worst({decision, "REVIEW"}) ELSE decision
  BY <1>2, <1>6
<1> QED
  BY <1>1, <1>3, <1>5, <1>7, EscalatedTally

(* The sums hold at every step.                                            *)
LEMMA TallyHolds == Spec => []Tally
<1>1. Inv /\ Tally /\ [Next]_vars => Tally'
  <2> SUFFICES ASSUME Inv, Tally, [Next]_vars
               PROVE  Tally'
    OBVIOUS
  <2>1. CASE UNCHANGED vars
    <3>1. /\ req' = req /\ pc' = pc /\ todo' = todo
          /\ UNCHANGED <<covered, points, decision>>
      BY <2>1 DEF vars
    <3>2. Done' = Done
      BY <3>1 DEF Done
    <3>3. Raised' <=> Raised
      BY <3>1 DEF Raised, Uncovered, BareDelete, BareEdit, TotalPoints, PointsOf, Enforcing
    <3>4. Review(Raised)' = Review(Raised)
      BY <3>3 DEF Review
    <3> QED
      BY <3>1, <3>2, <3>4 DEF Tally, PastGuards, Undecidable
  <2> QED
    BY <2>1, EarlyTally, IdleRuleTally, EnforcedTally, UncoveredTally, DeletesTally, EditsTally,
       RiskTally DEF Next
<1> QED
  BY <1>1, InitTally, DecisionInvariant, PTL DEF Spec

(* The decision is that of the request.                                    *)
LEMMA TallyDecides ==
    ASSUME Tally, pc = "done", PastGuards
    PROVE  decision = FinalDecision(req)
<1>1. Done = Enforcing(req) /\ decision = Worst(Effect(req, Done) \union Review(Raised))
  BY DEF Tally, Done
<1>2. Raised <=> Escalated(req)
  <2>1. PICK late \in BOOLEAN : late <=> TotalPoints(req) > req.threshold
    OBVIOUS
  <2> QED
    BY <2>1 DEF Raised, Escalated, Uncovered, BareDelete, BareEdit
<1>3. Review(Raised) = IF Escalated(req) THEN {"REVIEW"} ELSE {}
  BY <1>2 DEF Review
<1>4. FinalDecision(req) = Worst(Effect(req, Enforcing(req)) \union (IF Escalated(req) THEN {"REVIEW"} ELSE {}))
  BY DEF FinalDecision, Effect
<1> QED
  BY <1>1, <1>3, <1>4

-----------------------------------------------------------------------------
(* Rules that are not enforced have no part in the verdict.                *)

(* Two requests that differ at most in their evidence and in rules that    *)
(* are left out.                                                           *)
Alike(e, q) ==
    /\ e.changes = q.changes /\ e.require = q.require /\ e.threshold = q.threshold
    /\ e.ceiling = q.ceiling /\ e.author = q.author /\ e.sourceSha = q.sourceSha
    /\ DOMAIN e.rules \subseteq DOMAIN q.rules
    /\ \A n \in DOMAIN e.rules : e.rules[n] = q.rules[n]
    /\ Enforcing(q) \subseteq DOMAIN e.rules

(* They enforce the same rules, which select the same changes with the     *)
(* same outcomes.                                                          *)
LEMMA AlikeRules ==
    ASSUME NEW e, NEW q, Alike(e, q)
    PROVE  /\ Enforcing(e) = Enforcing(q)
           /\ \A n \in Enforcing(q) : /\ Matched(e, n) = Matched(q, n) /\ SubjectsOf(e, n) = SubjectsOf(q, n)
                                      /\ \A c : Outcome(e, n, c) = Outcome(q, n, c)
                                      /\ e.rules[n] = q.rules[n]
           /\ \A c, ds : Governed(e, c, ds) <=> Governed(q, c, ds)
<1>1. \A n \in DOMAIN e.rules : Enforced(e, n) <=> Enforced(q, n)
  BY DEF Alike, Enforced, PhaseOf, Ceiling
<1>2. Enforcing(e) = Enforcing(q)
  BY <1>1 DEF Alike, Enforcing
<1>3. ASSUME NEW n \in Enforcing(q)
      PROVE  /\ Matched(e, n) = Matched(q, n) /\ SubjectsOf(e, n) = SubjectsOf(q, n)
             /\ e.rules[n] = q.rules[n]
  <2>1. e.rules[n] = q.rules[n] /\ e.changes = q.changes
    BY DEF Alike
  <2>2. Matched(e, n) = Matched(q, n)
    BY <2>1 DEF Matched
  <2> QED
    BY <2>1, <2>2 DEF SubjectsOf
<1>4. \A n \in Enforcing(q) : \A c : Outcome(e, n, c) = Outcome(q, n, c)
  BY <1>3 DEF Outcome
<1>5. ASSUME NEW c, NEW ds
      PROVE  Governed(e, c, ds) <=> Governed(q, c, ds)
  <2>1. Governed(e, c, ds) <=> \E n \in Enforcing(e) : e.rules[n].match.domain \in ds /\ c \in Matched(e, n)
    BY DEF Governed, Enforcing
  <2>2. Governed(q, c, ds) <=> \E n \in Enforcing(q) : q.rules[n].match.domain \in ds /\ c \in Matched(q, n)
    BY DEF Governed, Enforcing
  <2> QED
    BY <1>2, <1>3, <2>1, <2>2
<1> QED
  BY <1>2, <1>3, <1>4, <1>5

(* What the escalations other than the threshold ask for is the same.      *)
LEMMA AlikeEscalations ==
    ASSUME NEW e, NEW q, Alike(e, q)
    PROVE  /\ Uncovered(e) <=> Uncovered(q)
           /\ BareEdit(e) <=> BareEdit(q)
           /\ BareDelete(e) <=> BareDelete(q)
<1>1. e.changes = q.changes /\ e.require = q.require
  BY DEF Alike
<1>2. Enforcing(e) = Enforcing(q) /\ \A n \in Enforcing(q) : e.rules[n] = q.rules[n]
  BY AlikeRules
<1>3. \A c, ds : Governed(e, c, ds) <=> Governed(q, c, ds)
  BY AlikeRules
<1>4. Uncovered(e) <=> Uncovered(q)
  BY <1>1, <1>2 DEF Uncovered
<1> QED
  BY <1>1, <1>3, <1>4 DEF BareEdit, BareDelete

(* With the same evidence a rule has the same findings.                    *)
LEMMA SameEvidence ==
    ASSUME NEW e, NEW q, Alike(e, q), e.evidence = q.evidence
    PROVE  FinalDecision(e) = FinalDecision(q)
<1> DEFINE N == Enforcing(q)
<1>1. Enforcing(e) = N
  BY AlikeRules
<1>2. \A s : ApprovalSatisfies(e, s) <=> ApprovalSatisfies(q, s)
  BY DEF ApprovalSatisfies, Alike
<1>3. ASSUME NEW n \in N, NEW s
      PROVE  CoverSubject(e, n, s) = CoverSubject(q, n, s)
  <2>1. e.rules[n] = q.rules[n] /\ Matched(e, n) = Matched(q, n) /\ e.changes = q.changes
    BY AlikeRules DEF Alike
  <2>2. \A c : Outcome(e, n, c) = Outcome(q, n, c)
    BY AlikeRules
  <2> QED
    BY <1>2, <2>1, <2>2 DEF CoverSubject, RuleFinding
<1>4. ASSUME NEW n \in N
      PROVE  WorsenedBy(e, n) = WorsenedBy(q, n) /\ Firings(e, n) = Firings(q, n)
  <2>1. /\ e.rules[n] = q.rules[n] /\ Matched(e, n) = Matched(q, n) /\ e.changes = q.changes
        /\ SubjectsOf(e, n) = SubjectsOf(q, n) /\ e.require = q.require
    BY AlikeRules DEF Alike
  <2>2. \A c : Outcome(e, n, c) = Outcome(q, n, c)
    BY AlikeRules
  <2>3. FindingsOf(e, n) = FindingsOf(q, n)
    BY <1>3, <2>1 DEF FindingsOf
  <2>4. WorsenedBy(e, n) = WorsenedBy(q, n)
    BY <2>1, <2>3 DEF WorsenedBy
  <2> QED
    BY <1>3, <2>1, <2>2, <2>4 DEF Firings
<1>5. \A n \in N : e.rules[n] = q.rules[n]
  BY AlikeRules
<1>6. PointsOf(e, N) = PointsOf(q, N)
  BY <1>4, <1>5 DEF PointsOf
<1>7. Escalated(e) <=> Escalated(q)
  <2>1. TotalPoints(e) = TotalPoints(q) /\ e.threshold = q.threshold
    BY <1>1, <1>6 DEF TotalPoints, Alike
  <2>2. /\ Escalated(e) <=> Uncovered(e) \/ BareEdit(e) \/ BareDelete(e) \/ TotalPoints(e) > e.threshold
        /\ Escalated(q) <=> Uncovered(q) \/ BareEdit(q) \/ BareDelete(q) \/ TotalPoints(q) > q.threshold
    BY DEF Escalated, Uncovered, BareEdit, BareDelete
  <2> QED
    BY <2>1, <2>2, AlikeEscalations
<1>8. UNION {WorsenedBy(e, n) : n \in N} = UNION {WorsenedBy(q, n) : n \in N}
  BY <1>4
<1> QED
  BY <1>1, <1>7, <1>8 DEF FinalDecision

(* Leaving out the rules that are not enforced leaves such a request.      *)
LEMMA EnforcedOnlyAlike ==
    ASSUME NEW q \in Requests
    PROVE  Alike(EnforcedOnly(q), q) /\ EnforcedOnly(q).evidence = q.evidence
<1>1. RequestFields \subseteq DOMAIN q
  BY RequestsAssumption DEF RequestOK
<1>2. PICK f : f = [n \in Enforcing(q) |-> q.rules[n]]
  OBVIOUS
<1>3. DOMAIN f = Enforcing(q) /\ \A n \in Enforcing(q) : f[n] = q.rules[n]
  BY <1>2
<1>4. EnforcedOnly(q) = [q EXCEPT !.rules = f]
  BY <1>2 DEF EnforcedOnly
<1>5. /\ EnforcedOnly(q).rules = f
      /\ \A x \in RequestFields : x # "rules" => EnforcedOnly(q)[x] = q[x]
  BY <1>1, <1>4 DEF RequestFields
<1>6. Enforcing(q) \subseteq DOMAIN q.rules
  BY DEF Enforcing
<1> QED
  BY <1>3, <1>5, <1>6 DEF Alike, RequestFields

(* The verdict is that of the policy without its observed and off rules,    *)
(* in whatever order the rules are written (the observe routing of cover),  *)
(* for every policy.                                                        *)
THEOREM VerdictsAreOfEnforcedRules == Spec => []EnforcedRulesDecide
<1>1. Inv /\ Tally => EnforcedRulesDecide
  <2> SUFFICES ASSUME Inv, Tally, pc = "done", PastGuards
               PROVE  decision = FinalDecision(EnforcedOnly(req))
    BY DEF EnforcedRulesDecide
  <2>1. decision = FinalDecision(req)
    BY TallyDecides
  <2>2. PICK e : e = EnforcedOnly(req)
    OBVIOUS
  <2>3. Alike(e, req) /\ e.evidence = req.evidence
    BY <2>2, EnforcedOnlyAlike DEF Inv
  <2> QED
    BY <2>1, <2>2, <2>3, SameEvidence
<1> QED
  BY <1>1, DecisionInvariant, TallyHolds, PTL

-----------------------------------------------------------------------------
(* Evidence only lifts reviews.                                            *)

(* Without evidence a rule says of a subject what it says with it, or asks *)
(* for the review that the evidence has settled.                           *)
LEMMA EvidenceSettlesReviews ==
    ASSUME NEW e, NEW q, Alike(e, q), e.evidence = <<>>, NEW n \in Enforcing(q), NEW s
    PROVE  \/ CoverSubject(e, n, s) = CoverSubject(q, n, s)
           \/ /\ CoverSubject(q, n, s) = {}
              /\ \A f \in CoverSubject(e, n, s) : f.effect = "require-review"
<1>1. e.rules[n] = q.rules[n] /\ Matched(e, n) = Matched(q, n) /\ e.changes = q.changes
  BY AlikeRules DEF Alike
<1>2. \A c : Outcome(e, n, c) = Outcome(q, n, c)
  BY AlikeRules
<1>3. ~ApprovalSatisfies(e, s)
  BY DEF ApprovalSatisfies
<1>4. CASE q.rules[n].onFailure = "require-review" /\ ApprovalSatisfies(q, s)
  <2> DEFINE mine == {c \in Matched(q, n) : q.changes[c].subject = s}
  <2>1. CASE \E c \in mine : Outcome(q, n, c) = "error"
    BY <1>1, <1>2, <2>1 DEF CoverSubject, RuleFinding
  <2>2. CASE ~ \E c \in mine : Outcome(q, n, c) = "error"
    <3>1. CoverSubject(q, n, s) = {}
      BY <1>4, <2>2 DEF CoverSubject
    <3>2. \A f \in CoverSubject(e, n, s) : f.effect = "require-review"
      BY <1>1, <1>4 DEF CoverSubject, RuleFinding
    <3> QED
      BY <3>1, <3>2
  <2> QED
    BY <2>1, <2>2
<1>5. CASE ~(q.rules[n].onFailure = "require-review" /\ ApprovalSatisfies(q, s))
  BY <1>1, <1>2, <1>3, <1>5 DEF CoverSubject, RuleFinding
<1> QED
  BY <1>4, <1>5

(* So a rule without evidence makes the decision no better, and blocks     *)
(* only if it does with it.                                                *)
LEMMA RuleWithoutEvidence ==
    ASSUME NEW e, NEW q, Alike(e, q), e.evidence = <<>>, NEW n \in Enforcing(q)
    PROVE  /\ WorsenedBy(q, n) \subseteq WorsenedBy(e, n)
           /\ "BLOCK" \in WorsenedBy(e, n) => "BLOCK" \in WorsenedBy(q, n)
           /\ Firings(q, n) \subseteq Firings(e, n)
<1>1. /\ e.rules[n] = q.rules[n] /\ Matched(e, n) = Matched(q, n) /\ e.changes = q.changes
      /\ SubjectsOf(e, n) = SubjectsOf(q, n) /\ e.require = q.require
  BY AlikeRules DEF Alike
<1>2. \A c : Outcome(e, n, c) = Outcome(q, n, c)
  BY AlikeRules
<1>3. \A s : CoverSubject(q, n, s) \subseteq CoverSubject(e, n, s)
  BY EvidenceSettlesReviews
<1>4. FindingsOf(q, n) \subseteq FindingsOf(e, n)
  BY <1>1, <1>3 DEF FindingsOf
<1>5. \A f \in FindingsOf(e, n) : f.effect = "block" => f \in FindingsOf(q, n)
  <2> SUFFICES ASSUME NEW f \in FindingsOf(e, n), f.effect = "block"
               PROVE  f \in FindingsOf(q, n)
    OBVIOUS
  <2>1. PICK s \in SubjectsOf(q, n) : f \in CoverSubject(e, n, s)
    BY <1>1 DEF FindingsOf
  <2>2. CoverSubject(e, n, s) = CoverSubject(q, n, s)
    BY <2>1, EvidenceSettlesReviews
  <2> QED
    BY <2>1, <2>2 DEF FindingsOf
<1>6. WorsenedBy(q, n) \subseteq WorsenedBy(e, n)
  BY <1>1, <1>4 DEF WorsenedBy
<1>7. "BLOCK" \in WorsenedBy(e, n) => "BLOCK" \in WorsenedBy(q, n)
  BY <1>5, WorsenedByFindings
<1>8. Firings(q, n) \subseteq Firings(e, n)
  BY <1>1, <1>2, <1>3 DEF Firings
<1> QED
  BY <1>6, <1>7, <1>8

(* More firings are no fewer points.                                       *)
LEMMA PointsWithoutEvidence ==
    ASSUME NEW q \in Requests, NEW e, Alike(e, q), e.evidence = <<>>, e.rules = q.rules
    PROVE  TotalPoints(q) \in Nat /\ TotalPoints(e) \in Nat /\ TotalPoints(q) <= TotalPoints(e)
<1> DEFINE N == Enforcing(q)
<1>1. Enforcing(e) = N /\ N \subseteq DOMAIN q.rules
  BY AlikeRules DEF Enforcing
<1>2. \A n \in N : Firings(q, n) \subseteq Firings(e, n)
  BY RuleWithoutEvidence
<1>3. PointsOf(q, N) \subseteq PointsOf(e, N)
  <2> SUFFICES ASSUME NEW n \in N, NEW x \in {n} \X (Firings(q, n) \X (1 .. q.rules[n].points))
               PROVE  x \in PointsOf(e, N)
    BY DEF PointsOf
  <2>1. x \in {n} \X (Firings(e, n) \X (1 .. e.rules[n].points))
    BY <1>2
  <2> QED
    BY <2>1 DEF PointsOf
<1>4. IsFiniteSet(PointsOf(e, N))
  <2> DEFINE C == DOMAIN q.changes
             All(n) == {n} \X (C \X (1 .. q.rules[n].points))
             Parts == {All(n) : n \in N}
  <2>1. RequestOK(q)
    BY RequestsAssumption
  <2>2. IsFiniteSet(N) /\ IsFiniteSet(C)
    BY <1>1, <2>1, FS_Subset DEF RequestOK
  <2>3. ASSUME NEW n \in N PROVE IsFiniteSet(All(n))
    <3>1. PICK k \in Nat : k = q.rules[n].points
      <4>1. n \in DOMAIN q.rules
        BY DEF Enforcing
      <4> QED
        BY <2>1, <4>1 DEF RequestOK
    <3>2. IsFiniteSet(1 .. q.rules[n].points) /\ IsFiniteSet({n})
      <4>1. k \in Int /\ 1 \in Int
        OBVIOUS
      <4>2. IsFiniteSet(1 .. k)
        BY <4>1, FS_Interval
      <4> QED
        BY <3>1, <4>2, FS_Singleton
    <3>3. IsFiniteSet(C \X (1 .. q.rules[n].points))
      BY <2>2, <3>2, FS_Product
    <3> QED
      BY <3>2, <3>3, FS_Product
  <2>4. IsFiniteSet(Parts)
    <3> DEFINE f == [n \in N |-> All(n)]
    <3>1. f \in Surjection(N, Parts)
      BY DEF Surjection
    <3> QED
      BY <2>2, <3>1, FS_Surjection
  <2>5. IsFiniteSet(UNION Parts)
    BY <2>3, <2>4, FS_UNION
  <2>6. ASSUME NEW n \in N PROVE Firings(e, n) \subseteq C
    BY DEF Firings, Matched, Alike
  <2>7. PointsOf(e, N) \subseteq UNION Parts
    <3> SUFFICES ASSUME NEW n \in N, NEW x \in {n} \X (Firings(e, n) \X (1 .. e.rules[n].points))
                 PROVE  x \in UNION Parts
      BY DEF PointsOf
    <3>1. x \in All(n)
      BY <2>6
    <3> QED
      BY <3>1
  <2> QED
    BY <2>5, <2>7, FS_Subset
<1>5. IsFiniteSet(PointsOf(q, N)) /\ Cardinality(PointsOf(q, N)) <= Cardinality(PointsOf(e, N))
  BY <1>3, <1>4, FS_Subset
<1> QED
  BY <1>1, <1>4, <1>5, FS_CardinalityType DEF TotalPoints

(* A request without its evidence is such a request.                       *)
LEMMA WithoutEvidence ==
    ASSUME NEW q \in Requests
    PROVE  LET e == [q EXCEPT !.evidence = <<>>]
           IN  Alike(e, q) /\ e.evidence = <<>> /\ e.rules = q.rules
<1>1. RequestFields \subseteq DOMAIN q
  BY RequestsAssumption DEF RequestOK
<1>2. PICK e : e = [q EXCEPT !.evidence = <<>>]
  OBVIOUS
<1>3. /\ e.evidence = <<>>
      /\ \A x \in RequestFields : x # "evidence" => e[x] = q[x]
  BY <1>1, <1>2 DEF RequestFields
<1>4. e.rules = q.rules /\ Enforcing(q) \subseteq DOMAIN q.rules
  BY <1>3 DEF RequestFields, Enforcing
<1>5. Alike(e, q)
  BY <1>3, <1>4 DEF Alike, RequestFields
<1> QED
  BY <1>2, <1>3, <1>4, <1>5

(* The verdict with evidence is the one without, or an approval in place   *)
(* of a review.                                                            *)
LEMMA VerdictsCompared ==
    ASSUME NEW q \in Requests, NEW e, Alike(e, q), e.evidence = <<>>, e.rules = q.rules
    PROVE  \/ FinalDecision(q) = FinalDecision(e)
           \/ FinalDecision(q) = "APPROVE" /\ FinalDecision(e) = "REVIEW"
<1> DEFINE N == Enforcing(q)
<1>1. Enforcing(e) = N
  BY AlikeRules
<1>2. PICK A : A = Effect(q, N)
  OBVIOUS
<1>3. PICK B : B = Effect(e, N)
  OBVIOUS
<1>4. A \subseteq B /\ ("BLOCK" \in B => "BLOCK" \in A)
  BY <1>2, <1>3, RuleWithoutEvidence DEF Effect
<1>5. PICK x \in BOOLEAN : x <=> Escalated(q)
  OBVIOUS
<1>6. PICK y \in BOOLEAN : y <=> Escalated(e)
  OBVIOUS
<1>7. x => y
  <2>1. TotalPoints(q) > q.threshold => TotalPoints(e) > e.threshold
    <3>1. q.threshold \in Nat /\ e.threshold = q.threshold
      BY RequestsAssumption DEF RequestOK, Alike
    <3> QED
      BY <3>1, PointsWithoutEvidence
  <2>2. /\ Escalated(e) <=> Uncovered(e) \/ BareEdit(e) \/ BareDelete(e) \/ TotalPoints(e) > e.threshold
        /\ Escalated(q) <=> Uncovered(q) \/ BareEdit(q) \/ BareDelete(q) \/ TotalPoints(q) > q.threshold
    BY DEF Escalated, Uncovered, BareEdit, BareDelete
  <2> QED
    BY <1>5, <1>6, <2>1, <2>2, AlikeEscalations
<1>8. /\ FinalDecision(q) = Worst(A \union Review(x))
      /\ FinalDecision(e) = Worst(B \union Review(y))
  BY <1>1, <1>2, <1>3, <1>5, <1>6 DEF FinalDecision, Effect, Review
<1> QED
  BY <1>4, <1>7, <1>8 DEF Worst, Review

(* Evidence of approval turns a review into an approval and does nothing    *)
(* else (approval.go), for every policy and body of evidence.               *)
THEOREM EvidenceLiftsNothingElse == Spec => []EvidenceOnlyLiftsReview
<1>1. Inv /\ Tally => EvidenceOnlyLiftsReview
  <2> SUFFICES ASSUME Inv, Tally, pc = "done", PastGuards
               PROVE  LET without == FinalDecision([req EXCEPT !.evidence = <<>>])
                      IN  decision = without \/ (decision = "APPROVE" /\ without = "REVIEW")
    BY DEF EvidenceOnlyLiftsReview
  <2>1. decision = FinalDecision(req)
    BY TallyDecides
  <2>2. PICK e : e = [req EXCEPT !.evidence = <<>>]
    OBVIOUS
  <2>3. req \in Requests /\ Alike(e, req) /\ e.evidence = <<>> /\ e.rules = req.rules
    BY <2>2, WithoutEvidence DEF Inv
  <2> QED
    BY <2>1, <2>2, <2>3, VerdictsCompared
<1> QED
  BY <1>1, DecisionInvariant, TallyHolds, PTL

-----------------------------------------------------------------------------
(* One level of the walk over the one below it (walkAssertTreeDepth).       *)
WalkLevel(tree, leaf, below, depth) ==
    [n \in DOMAIN tree |->
       IF depth > MaxAssertDepth THEN "error"
       ELSE IF tree[n].op = "leaf" THEN leaf[n]
       ELSE Combine(tree[n].op, {below[k] : k \in tree[n].kids})]

(* f is the walk on the levels from m down.                                 *)
WalksFrom(tree, leaf, f, m) ==
    /\ f = [d \in 0 .. MaxAssertDepth + 1 |-> f[d]]
    /\ \A d \in m .. MaxAssertDepth + 1 : f[d] = WalkLevel(tree, leaf, f[d + 1], d)

(* The deepest level needs no other: it is beyond the limit.                *)
LEMMA WalkDeepest ==
    ASSUME NEW tree, NEW leaf
    PROVE  \E f : WalksFrom(tree, leaf, f, MaxAssertDepth + 1)
<1> DEFINE g == [d \in 0 .. MaxAssertDepth + 1 |-> [n \in DOMAIN tree |-> "error"]]
<1>1. MaxAssertDepth \in Nat
  BY DepthAssumption
<1>2. g = [d \in 0 .. MaxAssertDepth + 1 |-> g[d]]
  OBVIOUS
<1>3. ASSUME NEW d \in MaxAssertDepth + 1 .. MaxAssertDepth + 1
      PROVE  g[d] = WalkLevel(tree, leaf, g[d + 1], d)
  <2>1. d > MaxAssertDepth /\ d \in 0 .. MaxAssertDepth + 1
    BY <1>1
  <2>2. WalkLevel(tree, leaf, g[d + 1], d) = [n \in DOMAIN tree |-> "error"]
    BY <2>1 DEF WalkLevel
  <2> QED
    BY <2>1, <2>2
<1> QED
  BY <1>2, <1>3 DEF WalksFrom

(* One more level above those that are there.                               *)
LEMMA WalkUp ==
    ASSUME NEW tree, NEW leaf, NEW m \in 0 .. MaxAssertDepth, NEW f, WalksFrom(tree, leaf, f, m + 1)
    PROVE  \E g : WalksFrom(tree, leaf, g, m)
<1> DEFINE g == [d \in 0 .. MaxAssertDepth + 1 |-> IF d = m THEN WalkLevel(tree, leaf, f[m + 1], m) ELSE f[d]]
<1>1. MaxAssertDepth \in Nat
  BY DepthAssumption
<1>2. g = [d \in 0 .. MaxAssertDepth + 1 |-> g[d]]
  OBVIOUS
<1>3. g[m] = WalkLevel(tree, leaf, f[m + 1], m) /\ \A d \in 0 .. MaxAssertDepth + 1 : d # m => g[d] = f[d]
  BY <1>1
<1> HIDE DEF g
<1>4. ASSUME NEW d \in m .. MaxAssertDepth + 1 PROVE g[d] = WalkLevel(tree, leaf, g[d + 1], d)
  <2>1. CASE d = m
    <3>1. m + 1 \in 0 .. MaxAssertDepth + 1 /\ m + 1 # m
      BY <1>1
    <3> QED
      BY <1>3, <2>1, <3>1
  <2>2. CASE d \in m + 1 .. MaxAssertDepth
    <3>1. d + 1 \in 0 .. MaxAssertDepth + 1 /\ d + 1 # m /\ d # m /\ d \in 0 .. MaxAssertDepth + 1
      BY <1>1, <2>2
    <3>2. f[d] = WalkLevel(tree, leaf, f[d + 1], d)
      <4>1. d \in m + 1 .. MaxAssertDepth + 1
        BY <1>1, <2>2
      <4> QED
        BY <4>1 DEF WalksFrom
    <3> QED
      BY <1>3, <3>1, <3>2
  <2>3. CASE d = MaxAssertDepth + 1
    <3>1. d # m /\ d \in 0 .. MaxAssertDepth + 1 /\ d > MaxAssertDepth /\ d \in m + 1 .. MaxAssertDepth + 1
      BY <1>1, <2>3
    <3>2. f[d] = WalkLevel(tree, leaf, f[d + 1], d)
      BY <3>1 DEF WalksFrom
    <3>3. WalkLevel(tree, leaf, f[d + 1], d) = WalkLevel(tree, leaf, g[d + 1], d)
      BY <3>1 DEF WalkLevel
    <3> QED
      BY <1>3, <3>1, <3>2, <3>3
  <2> QED
    BY <1>1, <2>1, <2>2, <2>3
<1> QED
  BY <1>2, <1>4 DEF WalksFrom

(* The walk exists from the root: there is no level that cannot be added.   *)
LEMMA WalkExists ==
    ASSUME NEW tree, NEW leaf
    PROVE  \E f : WalksFrom(tree, leaf, f, 0)
<1> DEFINE Has(m) == \E f : WalksFrom(tree, leaf, f, m)
<1> DEFINE missing == {j \in 0 .. MaxAssertDepth + 1 : ~Has(MaxAssertDepth + 1 - j)}
<1>1. MaxAssertDepth \in Nat
  BY DepthAssumption
<1>2. Has(MaxAssertDepth + 1)
  BY WalkDeepest
<1>3. \A m \in 0 .. MaxAssertDepth : Has(m + 1) => Has(m)
  BY WalkUp
<1> HIDE DEF Has
<1>4. missing = {}
  <2> SUFFICES ASSUME missing # {} PROVE FALSE
    OBVIOUS
  <2>1. missing \in SUBSET Nat
    BY <1>1
  <2>2. PICK j \in missing : \A i \in missing : j <= i
    <3> HIDE DEF missing
    <3> QED
      BY <2>1, LeastRow
  <2>3. j \in 0 .. MaxAssertDepth + 1 /\ ~Has(MaxAssertDepth + 1 - j)
    BY <2>2
  <2>4. j # 0
    <3>1. MaxAssertDepth + 1 - 0 = MaxAssertDepth + 1
      BY <1>1
    <3> QED
      BY <1>2, <2>3, <3>1
  <2>5. j - 1 \in 0 .. MaxAssertDepth + 1 /\ j - 1 \notin missing
    BY <1>1, <2>2, <2>3, <2>4
  <2>6. Has(MaxAssertDepth + 1 - (j - 1))
    BY <2>5
  <2>7. PICK m : m \in 0 .. MaxAssertDepth /\ m = MaxAssertDepth + 1 - j /\ m + 1 = MaxAssertDepth + 1 - (j - 1)
    BY <1>1, <2>3, <2>4
  <2> QED
    BY <1>3, <2>3, <2>6, <2>7
<1>5. MaxAssertDepth + 1 \in 0 .. MaxAssertDepth + 1 /\ MaxAssertDepth + 1 - (MaxAssertDepth + 1) = 0
  BY <1>1
<1>6. Has(0)
  <2>1. Has(MaxAssertDepth + 1 - (MaxAssertDepth + 1))
    BY <1>4, <1>5
  <2> QED
    BY <1>5, <2>1
<1> QED
  BY <1>6 DEF Has

(* So the walk satisfies its own definition.                                *)
LEMMA WalkIs ==
    ASSUME NEW tree, NEW leaf
    PROVE  \E f : WalksFrom(tree, leaf, f, 0) /\ WalkAssertTree(tree, leaf) = f[0][1]
<1> DEFINE Def(f) ==
      f = [depth \in 0 .. MaxAssertDepth + 1 |->
             [n \in DOMAIN tree |->
                IF depth > MaxAssertDepth THEN "error"
                ELSE IF tree[n].op = "leaf" THEN leaf[n]
                ELSE Combine(tree[n].op, {f[depth + 1][k] : k \in tree[n].kids})]]
<1>1. WalkAssertTree(tree, leaf) = (CHOOSE f : Def(f))[0][1]
  BY DEF WalkAssertTree
<1>2. \A f : Def(f) <=> f = [d \in 0 .. MaxAssertDepth + 1 |-> WalkLevel(tree, leaf, f[d + 1], d)]
  BY DEF WalkLevel
<1> HIDE DEF Def
<1>3. PICK g : WalksFrom(tree, leaf, g, 0)
  BY WalkExists
<1>4. Def(g)
  BY <1>2, <1>3 DEF WalksFrom
<1>5. PICK w : w = CHOOSE f : Def(f)
  OBVIOUS
<1>6. Def(w)
  BY <1>4, <1>5
<1>7. WalksFrom(tree, leaf, w, 0)
  BY <1>2, <1>6 DEF WalksFrom
<1> QED
  BY <1>1, <1>5, <1>7

-----------------------------------------------------------------------------
(* The value of one node over those of its children (Truth).                *)
NodeHolds(tree, guess, f, n) ==
    CASE tree[n].op = "all" /\ tree[n].kids # {} -> \A k \in tree[n].kids : f[k]
      [] tree[n].op = "any" /\ tree[n].kids # {} -> \E k \in tree[n].kids : f[k]
      [] tree[n].op = "not" /\ tree[n].kids # {} -> \A k \in tree[n].kids : ~f[k]
      [] OTHER -> guess[n]

(* f gives the values of the nodes from m on.                               *)
HoldsFrom(tree, guess, f, m) ==
    /\ f = [n \in 1 .. Len(tree) |-> f[n]]
    /\ \A n \in m .. Len(tree) : f[n] = NodeHolds(tree, guess, f, n)

(* A node's value depends only on those above its own number.               *)
LEMMA HoldsLocal ==
    ASSUME NEW tree, IsAssertTree(tree), NEW guess, NEW f, NEW g, NEW n \in DOMAIN tree,
           \A k \in n + 1 .. Len(tree) : f[k] = g[k]
    PROVE  NodeHolds(tree, guess, f, n) = NodeHolds(tree, guess, g, n)
<1>1. \A k \in tree[n].kids : f[k] = g[k]
  BY DEF IsAssertTree
<1> QED
  BY <1>1, Zenon DEF NodeHolds

(* One more node before those that have a value.                            *)
LEMMA HoldsUp ==
    ASSUME NEW tree, IsAssertTree(tree), NEW guess, NEW m \in DOMAIN tree, NEW f, HoldsFrom(tree, guess, f, m + 1)
    PROVE  \E g : HoldsFrom(tree, guess, g, m)
<1> DEFINE v == NodeHolds(tree, guess, f, m)
<1> DEFINE g == [n \in 1 .. Len(tree) |-> IF n = m THEN v ELSE f[n]]
<1>1. Len(tree) \in Nat /\ DOMAIN tree = 1 .. Len(tree) /\ m \in 1 .. Len(tree)
  BY DEF IsAssertTree
<1> HIDE DEF v
<1>2. g = [n \in 1 .. Len(tree) |-> g[n]]
  OBVIOUS
<1>3. g[m] = v /\ \A n \in 1 .. Len(tree) : n # m => g[n] = f[n]
  BY <1>1
<1> HIDE DEF g
<1>4. ASSUME NEW n \in m .. Len(tree) PROVE g[n] = NodeHolds(tree, guess, g, n)
  <2>1. n \in DOMAIN tree /\ \A k \in n + 1 .. Len(tree) : k \in 1 .. Len(tree) /\ k # m
    BY <1>1
  <2>2. \A k \in n + 1 .. Len(tree) : f[k] = g[k]
    BY <1>3, <2>1
  <2>3. NodeHolds(tree, guess, f, n) = NodeHolds(tree, guess, g, n)
    BY <2>1, <2>2, HoldsLocal
  <2>4. CASE n = m
    BY <1>3, <2>3, <2>4 DEF v
  <2>5. CASE n # m
    <3>1. n \in m + 1 .. Len(tree) /\ n \in 1 .. Len(tree)
      BY <1>1, <2>5
    <3>2. f[n] = NodeHolds(tree, guess, f, n)
      BY <3>1 DEF HoldsFrom
    <3> QED
      BY <1>3, <2>3, <2>5, <3>1, <3>2
  <2> QED
    BY <2>4, <2>5
<1> QED
  BY <1>2, <1>4 DEF HoldsFrom

(* Every node has a value: children come after their parent.                *)
LEMMA HoldsExists ==
    ASSUME NEW tree, IsAssertTree(tree), NEW guess
    PROVE  \E f : HoldsFrom(tree, guess, f, 1)
<1> DEFINE Has(m) == \E f : HoldsFrom(tree, guess, f, m)
<1> DEFINE missing == {j \in 0 .. Len(tree) : ~Has(Len(tree) + 1 - j)}
<1>1. Len(tree) \in Nat /\ DOMAIN tree = 1 .. Len(tree)
  BY DEF IsAssertTree
<1>2. Has(Len(tree) + 1)
  <2> DEFINE g == [n \in 1 .. Len(tree) |-> TRUE]
  <2>1. g = [n \in 1 .. Len(tree) |-> g[n]]
    OBVIOUS
  <2>2. Len(tree) + 1 .. Len(tree) = {}
    BY <1>1
  <2> HIDE DEF g
  <2>3. HoldsFrom(tree, guess, g, Len(tree) + 1)
    BY <2>1, <2>2 DEF HoldsFrom
  <2> QED
    BY <2>3
<1>3. \A m \in 1 .. Len(tree) : Has(m + 1) => Has(m)
  BY <1>1, HoldsUp
<1> HIDE DEF Has
<1>4. missing = {}
  <2> SUFFICES ASSUME missing # {} PROVE FALSE
    OBVIOUS
  <2>1. missing \in SUBSET Nat
    BY <1>1
  <2>2. PICK j \in missing : \A i \in missing : j <= i
    <3> HIDE DEF missing
    <3> QED
      BY <2>1, LeastRow
  <2>3. j \in 0 .. Len(tree) /\ ~Has(Len(tree) + 1 - j)
    BY <2>2
  <2>4. j # 0
    <3>1. Len(tree) + 1 - 0 = Len(tree) + 1
      BY <1>1
    <3> QED
      BY <1>2, <2>3, <3>1
  <2>5. j - 1 \in 0 .. Len(tree) /\ j - 1 \notin missing
    BY <1>1, <2>2, <2>3, <2>4
  <2>6. Has(Len(tree) + 1 - (j - 1))
    BY <2>5
  <2>7. PICK m : m \in 1 .. Len(tree) /\ m = Len(tree) + 1 - j /\ m + 1 = Len(tree) + 1 - (j - 1)
    BY <1>1, <2>3, <2>4
  <2> QED
    BY <1>3, <2>3, <2>6, <2>7
<1>5. Len(tree) \in 0 .. Len(tree) /\ Len(tree) + 1 - Len(tree) = 1
  BY <1>1
<1>6. Has(1)
  <2>1. Has(Len(tree) + 1 - Len(tree))
    BY <1>4, <1>5
  <2> QED
    BY <1>5, <2>1
<1> QED
  BY <1>6 DEF Has

(* So the condition's value satisfies its own definition.                   *)
LEMMA TruthIs ==
    ASSUME NEW tree, IsAssertTree(tree), NEW guess
    PROVE  \E f : HoldsFrom(tree, guess, f, 1) /\ Truth(tree, guess) = f[1]
<1> DEFINE Def(f) ==
      f = [n \in DOMAIN tree |->
             CASE tree[n].op = "all" /\ tree[n].kids # {} -> \A k \in tree[n].kids : f[k]
               [] tree[n].op = "any" /\ tree[n].kids # {} -> \E k \in tree[n].kids : f[k]
               [] tree[n].op = "not" /\ tree[n].kids # {} -> \A k \in tree[n].kids : ~f[k]
               [] OTHER -> guess[n]]
<1>1. Truth(tree, guess) = (CHOOSE f : Def(f))[1]
  BY DEF Truth
<1>2. \A f : Def(f) <=> f = [n \in DOMAIN tree |-> NodeHolds(tree, guess, f, n)]
  BY DEF NodeHolds
<1> HIDE DEF Def
<1>3. DOMAIN tree = 1 .. Len(tree)
  BY DEF IsAssertTree
<1>4. PICK g : HoldsFrom(tree, guess, g, 1)
  BY HoldsExists
<1>5. Def(g)
  BY <1>2, <1>3, <1>4 DEF HoldsFrom
<1>6. PICK w : w = CHOOSE f : Def(f)
  OBVIOUS
<1>7. Def(w)
  BY <1>5, <1>6
<1>8. HoldsFrom(tree, guess, w, 1)
  BY <1>2, <1>3, <1>7 DEF HoldsFrom
<1> QED
  BY <1>1, <1>6, <1>8

-----------------------------------------------------------------------------
(* A value of the walk is an answer that the node's value bears out, or an  *)
(* error.                                                                   *)
Bears(value, holds) == value \in Outcomes /\ (value # "error" => (holds <=> value = "true"))

(* A combinator answers only what its children's answers settle             *)
(* (walkAssertTreeDepth: Kleene's three values).                            *)
LEMMA CombineBears ==
    ASSUME NEW tree, NEW guess, NEW f, NEW u, NEW n \in DOMAIN tree, tree[n].op # "leaf",
           \A k \in tree[n].kids : Bears(u[k], f[k])
    PROVE  Bears(Combine(tree[n].op, {u[k] : k \in tree[n].kids}), NodeHolds(tree, guess, f, n))
<1> DEFINE K == tree[n].kids
<1> DEFINE V == {u[k] : k \in K}
<1>1. \A x \in V : x \in Outcomes
  BY DEF Bears
<1>2. K # {} <=> V # {}
  OBVIOUS
<1>3. ("true" \in V) => \E k \in K : f[k]
  BY DEF Bears
<1>4. ("false" \in V) => \E k \in K : ~f[k]
  BY DEF Bears
<1>5. ("error" \notin V /\ "false" \notin V) => \A k \in K : f[k]
  <2> SUFFICES ASSUME "error" \notin V, "false" \notin V, NEW k \in K PROVE f[k]
    OBVIOUS
  <2>1. u[k] \in V /\ Bears(u[k], f[k])
    OBVIOUS
  <2> QED
    BY <2>1 DEF Bears, Outcomes
<1>6. ("error" \notin V /\ "true" \notin V) => \A k \in K : ~f[k]
  <2> SUFFICES ASSUME "error" \notin V, "true" \notin V, NEW k \in K PROVE ~f[k]
    OBVIOUS
  <2>1. u[k] \in V /\ Bears(u[k], f[k])
    OBVIOUS
  <2> QED
    BY <2>1 DEF Bears, Outcomes
<1>7. CASE K = {}
  <2>1. Combine(tree[n].op, V) = "error"
    BY <1>2, <1>7 DEF Combine
  <2> QED
    BY <2>1 DEF Bears, Outcomes
<1>8. CASE tree[n].op = "all" /\ K # {}
  <2>1. Combine(tree[n].op, V) =
          IF "false" \in V THEN "false" ELSE IF "error" \in V THEN "error" ELSE "true"
    BY <1>2, <1>8 DEF Combine
  <2>2. NodeHolds(tree, guess, f, n) <=> \A k \in K : f[k]
    BY <1>8 DEF NodeHolds
  <2>3. CASE "false" \in V
    <3>1. Combine(tree[n].op, V) = "false"
      BY <2>1, <2>3
    <3> QED
      BY <1>4, <2>2, <2>3, <3>1 DEF Bears, Outcomes
  <2>4. CASE "false" \notin V /\ "error" \in V
    <3>1. Combine(tree[n].op, V) = "error"
      BY <2>1, <2>4
    <3> QED
      BY <3>1 DEF Bears, Outcomes
  <2>5. CASE "false" \notin V /\ "error" \notin V
    <3>1. Combine(tree[n].op, V) = "true"
      BY <2>1, <2>5
    <3> QED
      BY <1>5, <2>2, <2>5, <3>1 DEF Bears, Outcomes
  <2> QED
    BY <2>3, <2>4, <2>5
<1>9. CASE tree[n].op = "any" /\ K # {}
  <2>1. Combine(tree[n].op, V) =
          IF "true" \in V THEN "true" ELSE IF "error" \in V THEN "error" ELSE "false"
    BY <1>2, <1>9 DEF Combine
  <2>2. NodeHolds(tree, guess, f, n) <=> \E k \in K : f[k]
    BY <1>9 DEF NodeHolds
  <2>3. CASE "true" \in V
    <3>1. Combine(tree[n].op, V) = "true"
      BY <2>1, <2>3
    <3> QED
      BY <1>3, <2>2, <2>3, <3>1 DEF Bears, Outcomes
  <2>4. CASE "true" \notin V /\ "error" \in V
    <3>1. Combine(tree[n].op, V) = "error"
      BY <2>1, <2>4
    <3> QED
      BY <3>1 DEF Bears, Outcomes
  <2>5. CASE "true" \notin V /\ "error" \notin V
    <3>1. Combine(tree[n].op, V) = "false"
      BY <2>1, <2>5
    <3> QED
      BY <1>6, <2>2, <2>5, <3>1 DEF Bears, Outcomes
  <2> QED
    BY <2>3, <2>4, <2>5
<1>10. CASE tree[n].op = "not" /\ K # {}
  <2>1. Combine(tree[n].op, V) =
          IF "error" \in V THEN "error" ELSE IF "true" \in V THEN "false" ELSE "true"
    BY <1>2, <1>10 DEF Combine
  <2>2. NodeHolds(tree, guess, f, n) <=> \A k \in K : ~f[k]
    BY <1>10 DEF NodeHolds
  <2>3. CASE "error" \in V
    <3>1. Combine(tree[n].op, V) = "error"
      BY <2>1, <2>3
    <3> QED
      BY <3>1 DEF Bears, Outcomes
  <2>4. CASE "error" \notin V /\ "true" \in V
    <3>1. Combine(tree[n].op, V) = "false"
      BY <2>1, <2>4
    <3> QED
      BY <1>3, <2>2, <2>4, <3>1 DEF Bears, Outcomes
  <2>5. CASE "error" \notin V /\ "true" \notin V
    <3>1. Combine(tree[n].op, V) = "true"
      BY <2>1, <2>5
    <3> QED
      BY <1>6, <2>2, <2>5, <3>1 DEF Bears, Outcomes
  <2> QED
    BY <2>3, <2>4, <2>5
<1>11. CASE tree[n].op \notin {"all", "any", "not"}
  <2>1. Combine(tree[n].op, V) = "error"
    BY <1>11 DEF Combine
  <2> QED
    BY <2>1 DEF Bears, Outcomes
<1> QED
  BY <1>7, <1>8, <1>9, <1>10, <1>11

(* A level of the walk bears out if the level below it does.                *)
LEMMA LevelBears ==
    ASSUME NEW tree, IsAssertTree(tree), NEW leaf, NEW guess, NEW f, HoldsFrom(tree, guess, f, 1), NEW u, NEW d,
           \A k \in DOMAIN tree : leaf[k] \in Outcomes,
           \A k \in DOMAIN tree : tree[k].op = "leaf" /\ leaf[k] # "error" => (guess[k] <=> leaf[k] = "true"),
           d > MaxAssertDepth \/ \A k \in DOMAIN tree : Bears(u[k], f[k])
    PROVE  \A n \in DOMAIN tree : Bears(WalkLevel(tree, leaf, u, d)[n], f[n])
<1> SUFFICES ASSUME NEW n \in DOMAIN tree PROVE Bears(WalkLevel(tree, leaf, u, d)[n], f[n])
  OBVIOUS
<1>1. tree[n].kids \subseteq DOMAIN tree /\ n \in 1 .. Len(tree)
  BY DEF IsAssertTree
<1>2. f[n] = NodeHolds(tree, guess, f, n)
  BY <1>1 DEF HoldsFrom
<1>3. CASE d > MaxAssertDepth
  <2>1. WalkLevel(tree, leaf, u, d)[n] = "error"
    BY <1>3 DEF WalkLevel
  <2> QED
    BY <2>1 DEF Bears, Outcomes
<1>4. CASE ~(d > MaxAssertDepth) /\ tree[n].op = "leaf"
  <2>1. WalkLevel(tree, leaf, u, d)[n] = leaf[n]
    BY <1>4 DEF WalkLevel
  <2>2. f[n] = guess[n]
    BY <1>2, <1>4 DEF NodeHolds
  <2> QED
    BY <1>4, <2>1, <2>2 DEF Bears
<1>5. CASE ~(d > MaxAssertDepth) /\ tree[n].op # "leaf"
  <2>1. WalkLevel(tree, leaf, u, d)[n] = Combine(tree[n].op, {u[k] : k \in tree[n].kids})
    BY <1>5 DEF WalkLevel
  <2>2. \A k \in tree[n].kids : Bears(u[k], f[k])
    BY <1>1, <1>5
  <2> QED
    BY <1>2, <1>5, <2>1, <2>2, CombineBears
<1> QED
  BY <1>3, <1>4, <1>5

(* The answer at the root is the condition's value, whatever is guessed for *)
(* what the walk could not evaluate.                                        *)
LEMMA WalkBears ==
    ASSUME NEW tree, IsAssertTree(tree), NEW leaf, NEW guess,
           \A k \in DOMAIN tree : leaf[k] \in Outcomes,
           \A k \in DOMAIN tree : tree[k].op = "leaf" /\ leaf[k] # "error" => (guess[k] <=> leaf[k] = "true")
    PROVE  Bears(WalkAssertTree(tree, leaf), Truth(tree, guess))
<1>1. PICK w : WalksFrom(tree, leaf, w, 0) /\ WalkAssertTree(tree, leaf) = w[0][1]
  BY WalkIs
<1>2. PICK f : HoldsFrom(tree, guess, f, 1) /\ Truth(tree, guess) = f[1]
  BY TruthIs
<1> DEFINE Good(d) == \A n \in DOMAIN tree : Bears(w[d][n], f[n])
<1> DEFINE missing == {j \in 0 .. MaxAssertDepth + 1 : ~Good(MaxAssertDepth + 1 - j)}
<1>3. MaxAssertDepth \in Nat
  BY DepthAssumption
<1>4. ASSUME NEW d \in 0 .. MaxAssertDepth + 1, d > MaxAssertDepth \/ Good(d + 1) PROVE Good(d)
  <2>1. w[d] = WalkLevel(tree, leaf, w[d + 1], d)
    BY <1>1 DEF WalksFrom
  <2>2. PICK u : u = w[d + 1]
    OBVIOUS
  <2>3. d > MaxAssertDepth \/ \A k \in DOMAIN tree : Bears(u[k], f[k])
    BY <1>4, <2>2
  <2>4. \A n \in DOMAIN tree : Bears(WalkLevel(tree, leaf, u, d)[n], f[n])
    BY <1>2, <2>3, LevelBears
  <2> QED
    BY <2>1, <2>2, <2>4
<1> HIDE DEF Good
<1>5. missing = {}
  <2> SUFFICES ASSUME missing # {} PROVE FALSE
    OBVIOUS
  <2>1. missing \in SUBSET Nat
    BY <1>3
  <2>2. PICK j \in missing : \A i \in missing : j <= i
    <3> HIDE DEF missing
    <3> QED
      BY <2>1, LeastRow
  <2>3. j \in 0 .. MaxAssertDepth + 1 /\ ~Good(MaxAssertDepth + 1 - j)
    BY <2>2
  <2>4. PICK m : m \in 0 .. MaxAssertDepth + 1 /\ m = MaxAssertDepth + 1 - j
    BY <1>3, <2>3
  <2>5. CASE j = 0
    <3>1. m > MaxAssertDepth
      BY <1>3, <2>4, <2>5
    <3> QED
      BY <1>4, <2>3, <2>4, <3>1
  <2>6. CASE j # 0
    <3>1. j - 1 \in 0 .. MaxAssertDepth + 1 /\ j - 1 \notin missing /\ m + 1 = MaxAssertDepth + 1 - (j - 1)
      BY <1>3, <2>2, <2>3, <2>4, <2>6
    <3>2. Good(m + 1)
      BY <3>1
    <3> QED
      BY <1>4, <2>3, <2>4, <3>2
  <2> QED
    BY <2>5, <2>6
<1>6. MaxAssertDepth + 1 \in 0 .. MaxAssertDepth + 1 /\ MaxAssertDepth + 1 - (MaxAssertDepth + 1) = 0
  BY <1>3
<1>7. Good(0)
  <2>1. Good(MaxAssertDepth + 1 - (MaxAssertDepth + 1))
    BY <1>5, <1>6
  <2> QED
    BY <1>6, <2>1
<1>8. 1 \in DOMAIN tree
  BY DEF IsAssertTree
<1> QED
  BY <1>1, <1>2, <1>7, <1>8 DEF Good

(* An answer of a rule's condition is final: facts that resolve later turn  *)
(* errors into answers and change no answer (asserttree.go).                *)
THEOREM AnswersSurviveFactsHolds == Spec => []AnswersSurviveFacts
<1>1. ASSUME Inv PROVE AnswersSurviveFacts
  <2> SUFFICES ASSUME NEW n \in todo, NEW c \in DOMAIN req.changes, pc = "rules",
                      Outcome(req, n, c) # "error",
                      NEW guess \in [DOMAIN req.rules[n].when -> BOOLEAN],
                      \A k \in DOMAIN req.rules[n].when :
                         req.rules[n].when[k].op = "leaf" /\ req.rules[n].leaf[c][k] # "error"
                            => guess[k] = (req.rules[n].leaf[c][k] = "true")
               PROVE  Truth(req.rules[n].when, guess) = (Outcome(req, n, c) = "true")
    BY DEF AnswersSurviveFacts
  <2>1. PICK tree, leaf : tree = req.rules[n].when /\ leaf = req.rules[n].leaf[c]
    OBVIOUS
  <2>2. IsAssertTree(tree) /\ \A k \in DOMAIN tree : leaf[k] \in Outcomes
    BY <1>1, <2>1, ConditionsAssumption DEF Inv, TypeOK
  <2>3. Bears(WalkAssertTree(tree, leaf), Truth(tree, guess))
    BY <2>1, <2>2, WalkBears
  <2>4. Truth(tree, guess) \in BOOLEAN
    <3>1. PICK f : HoldsFrom(tree, guess, f, 1) /\ Truth(tree, guess) = f[1]
      BY <2>2, TruthIs
    <3>2. 1 \in DOMAIN tree /\ 1 \in 1 .. Len(tree)
      BY <2>2 DEF IsAssertTree
    <3>3. f[1] = NodeHolds(tree, guess, f, 1) /\ guess[1] \in BOOLEAN
      BY <2>1, <3>1, <3>2 DEF HoldsFrom
    <3>4. NodeHolds(tree, guess, f, 1) \in BOOLEAN
      BY <3>3 DEF NodeHolds
    <3> QED
      BY <3>1, <3>3, <3>4
  <2>5. Truth(tree, guess) <=> Outcome(req, n, c) = "true"
    BY <2>1, <2>3 DEF Bears, Outcome
  <2> QED
    BY <2>1, <2>4, <2>5
<1> QED
  BY <1>1, DecisionInvariant, PTL
=============================================================================
