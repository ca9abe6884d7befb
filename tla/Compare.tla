------------------------------- MODULE Compare -------------------------------
(***************************************************************************)
(* `assent compare` (internal/compare, cmd/assent/compare.go): both        *)
(* profiles are evaluated on pinned replay bundles, every difference is    *)
(* classified, and the promotion gates of the suite, or the one gate of    *)
(* the single-directory seed, decide the exit code.                        *)
(*                                                                         *)
(* What a profile does on a bundle is, for each rule, whether the profile  *)
(* has it, the effect it was given, the subjects it fires on, its points   *)
(* and its wording.  Subjects are numbered in their sort order; 0 is the   *)
(* empty subject of a finding that names none.                             *)
(***************************************************************************)
EXTENDS Naturals, Sequences, FiniteSets, FiniteSetsExt

CONSTANTS
    Rules, Proves,   \* rule names, and the obligation each proves
    Threshold,       \* the binding's risk threshold
    Gates,           \* the suite's promotionGates table, in order
    Worlds           \* what a comparison can find on disk

Kinds == {"stricter-intervention-added", "destructive-or-authorization-intervention-missed",
          "subject-or-obligation-uncovered", "newly-auto-mergeable", "score-threshold-change",
          "explanation-only"}

(* The gate table of a suite: the schema of PolicyComparisonSuite wants the *)
(* five gates, ADR-0018 that between them they fail on every kind but       *)
(* explanation-only.  The single-directory seed compares one bundle.        *)
ASSUME GatesAssumption ==
    \A k \in Kinds \ {"explanation-only"} :
        \E i \in DOMAIN Gates : k \in Gates[i].failOnKinds /\ Gates[i].defaultVerdict # "pass"

ASSUME SeedAssumption ==
    \A w \in Worlds : w.mode = "dir" => \A c, d \in DOMAIN w.cases : c = d

VARIABLES
    world,      \* mode, require, accepted deltas, and per case the bundle and both sides
    pc,
    todo,       \* suite cases not yet compared
    records,    \* ComparisonRecords: caseId -> deltas
    exit        \* exit code, or Running

vars == <<world, pc, todo, records, exit>>

Running == 99
ExitCodeFailClosed == 6
Cases == DOMAIN world.cases

-----------------------------------------------------------------------------
(* evaluate: aggregate.Decide on one side (module Decision), for rules that *)
(* all match the change.                                                    *)
Findings(side, require) ==
    (UNION {{[rule |-> r, obligation |-> Proves[r], subject |-> s, effect |-> side[r].effect,
              code |-> "authored", points |-> side[r].points, message |-> side[r].words] :
                 s \in side[r].on} : r \in {q \in Rules : side[q].has}})
    \union
    {[rule |-> "aggregate.uncovered", obligation |-> o, subject |-> 0, effect |-> "require-review",
      code |-> "obligation.uncovered", points |-> 0, message |-> "uncovered"] :
        o \in {p \in require : \A r \in Rules : ~(side[r].has /\ Proves[r] = p)}}

Judge(fs, require) ==
    IF \E f \in fs : f.effect = "block" THEN "BLOCK"
    ELSE IF \/ \E f \in fs : f.effect # "comment" \/ f.obligation \in require
            \/ FoldSet(LAMBDA f, n : f.points + n, 0, fs) > Threshold
         THEN "REVIEW" ELSE "APPROVE"

Evaluate(side, require) ==
    LET fs == Findings(side, require) IN [decision |-> Judge(fs, require), findings |-> fs]

Baseline(c) == Evaluate(world.cases[c].base, world.require)
Candidate(c) == Evaluate(world.cases[c].cand, world.require)

-----------------------------------------------------------------------------
(* Two findings are about the same thing when their identities are equal;   *)
(* they intervene alike when effect and code are equal too.                 *)
DeltaIdentity(f) == <<f.rule, f.obligation, f.subject>>
InterventionKeys(fs) == {<<DeltaIdentity(f), f.effect, f.code>> : f \in fs}
FindingKeys(fs) == {<<DeltaIdentity(f), f.effect, f.code, f.points>> : f \in fs}
Identities(fs) == {DeltaIdentity(f) : f \in fs}
ByIdentity(fs, id) == {f \in fs : DeltaIdentity(f) = id}

IsMissedInterventionEffect(e) == e \in {"block", "require-review"}
IsStricterInterventionEffect(e) == e \in {"block", "require-review", "challenge"}

DetectMissedIntervention(b, c) ==
    /\ c.decision # "APPROVE"
    /\ \E f \in b.findings : /\ IsMissedInterventionEffect(f.effect)
                             /\ DeltaIdentity(f) \notin Identities(c.findings)

DetectStricterInterventionAdded(b, c) ==
    /\ b.decision = "APPROVE"
    /\ \E f \in c.findings :
          /\ IsStricterInterventionEffect(f.effect)
          /\ ~\E g \in ByIdentity(b.findings, DeltaIdentity(f)) :
                 IsStricterInterventionEffect(g.effect)

UncoveredObligations(r) ==
    {f.obligation : f \in {g \in r.findings : g.code = "obligation.uncovered"}} \ {""}
DecisionRank(d) == CASE d = "APPROVE" -> 0 [] d = "BLOCK" -> 2 [] OTHER -> 1
DecisionWorsened(b, c) == DecisionRank(c.decision) > DecisionRank(b.decision)
IsObligationUncovered(b, c) ==
    UncoveredObligations(c) \ UncoveredObligations(b) # {} /\ DecisionWorsened(b, c)

SameInterventions(b, c) == InterventionKeys(b.findings) = InterventionKeys(c.findings)
NewlyApproves(b, c) == c.decision = "APPROVE" /\ b.decision # "APPROVE"

(* Equal decisions: other findings are a difference no kind stands for.     *)
ClassifyEqualDecision(b, c) ==
    IF FindingKeys(b.findings) # FindingKeys(c.findings) THEN "ErrUnclassifiable"
    ELSE IF b.findings = c.findings THEN "none" ELSE "explanation-only"

(* classify: the highest-priority kind of the whole case.                   *)
Classify(b, c) ==
    CASE b.decision = c.decision -> ClassifyEqualDecision(b, c)
      [] OTHER ->
         IF DetectMissedIntervention(b, c) THEN "destructive-or-authorization-intervention-missed"
         ELSE IF IsObligationUncovered(b, c) THEN "subject-or-obligation-uncovered"
         ELSE IF SameInterventions(b, c) THEN "score-threshold-change"
         ELSE IF NewlyApproves(b, c) THEN "newly-auto-mergeable"
         ELSE IF DetectStricterInterventionAdded(b, c) THEN "stricter-intervention-added"
         ELSE "ErrUnclassifiable"

(* classifyIdentityDelta: the kind of one identity of either side.          *)
BothSides(b, c, f, g) ==
    CASE f.effect = g.effect /\ f.code = g.code /\ b.decision = c.decision
         /\ f.message # g.message -> "explanation-only"
      [] f.effect = g.effect /\ f.code = g.code /\ b.decision # c.decision
         /\ SameInterventions(b, c) -> "score-threshold-change"
      [] OTHER -> "none"

BaselineOnly(b, c, f) ==
    CASE IsMissedInterventionEffect(f.effect) /\ c.decision # "APPROVE" ->
            "destructive-or-authorization-intervention-missed"
      [] NewlyApproves(b, c) -> "newly-auto-mergeable"
      [] OTHER -> "none"

CandidateOnly(b, c, g) ==
    IF /\ g.code = "obligation.uncovered" /\ g.obligation \notin UncoveredObligations(b)
       /\ DecisionWorsened(b, c) THEN "subject-or-obligation-uncovered"
    ELSE IF IsStricterInterventionEffect(g.effect) /\ b.decision = "APPROVE"
      THEN "stricter-intervention-added"
    ELSE "none"

ClassifyIdentityDelta(b, c, id) ==
    LET f == ByIdentity(b.findings, id)
        g == ByIdentity(c.findings, id)
        the(s) == CHOOSE x \in s : TRUE
    IN  IF g = {} THEN BaselineOnly(b, c, the(f))
        ELSE IF f = {} THEN CandidateOnly(b, c, the(g))
        ELSE BothSides(b, c, the(f), the(g))

(* resolveDeltaSubject: a finding without a subject borrows one, from the   *)
(* same obligation first, the baseline's before the candidate's.            *)
ResolveDeltaSubject(b, c, obligation, subjects) ==
    LET named(fs) == {f.subject : f \in {g \in fs : g.subject # 0}}
        mine(fs) == named({g \in fs : g.obligation = obligation})
        options == <<mine(b.findings), mine(c.findings), named(b.findings), named(c.findings), subjects>>
        usable == {i \in DOMAIN options : options[i] # {}}
    IN  IF usable = {} THEN 0 ELSE Min(options[Min(usable)])

BuildDelta(b, c, id, subjects) ==
    [kind |-> ClassifyIdentityDelta(b, c, id), rule |-> id[1], obligation |-> id[2],
     subject |-> IF id[3] # 0 THEN id[3] ELSE ResolveDeltaSubject(b, c, id[2], subjects)]

(* Defect: a case whose kind no identity carries is recorded without deltas. *)
NoDeltasIsFine(deltas) == TRUE

(* A real difference must show up as a delta, each under a key of its own.   *)
SomeDelta(deltas) == deltas # {}
DeltaKey(d) == <<d.kind, d.rule, d.subject>>

(* collectDeltas and Validate: the deltas of a case, or an error.            *)
BuildComparisonRecord(b, c, subjects) ==
    LET kind == Classify(b, c)
        deltas == {d \in {BuildDelta(b, c, id, subjects) :
                             id \in Identities(b.findings) \union Identities(c.findings)} :
                      d.kind # "none"}
    IN  [ok |-> \/ kind = "none"
                \/ /\ kind # "ErrUnclassifiable" /\ SomeDelta(deltas)
                   /\ \A d, e \in deltas : DeltaKey(d) = DeltaKey(e) => d = e
                   /\ \A d \in deltas : d.subject # 0,
         deltas |-> IF kind = "none" THEN {} ELSE deltas]

-----------------------------------------------------------------------------
(* Defect: an accepted delta of a rule covers that rule on every subject.    *)
AnySubject(ad, c, d) == ad.case = c /\ ad.kind = d.kind /\ ad.rule = d.rule

MatchesAcceptedDelta(ad, c, d) ==
    /\ ad.case = c /\ ad.kind = d.kind /\ ad.rule = d.rule /\ ad.subject = d.subject
    /\ ad.obligation # "" => ad.obligation = d.obligation

Accepted(c, d) == \E ad \in world.accepted : MatchesAcceptedDelta(ad, c, d)

(* evaluateGate: some delta of some record trips the gate.                   *)
Trips(gate, c, d) ==
    /\ d.kind # "explanation-only" /\ d.kind \in gate.failOnKinds
    /\ ~(gate.acceptance = "per-delta-identity" /\ Accepted(c, d))
    /\ gate.defaultVerdict # "pass"
GateFails(gate, recs) == \E c \in DOMAIN recs : \E d \in recs[c] : Trips(gate, c, d)

ExitCodeForGate(id) ==
    CASE id = "zero-missed-destructive" -> 1
      [] id = "zero-missed-authorization-ownership" -> 2
      [] id = "no-unexpected-obligation-removal" -> 3
      [] id = "bounded-auto-merge-widening" -> 4
      [] id = "explicitly-accepted-deltas" -> 5
      [] OTHER -> ExitCodeFailClosed

ExitCodeForSuiteRun(recs) ==
    LET failing == {i \in DOMAIN Gates : GateFails(Gates[i], recs)}
    IN  IF failing = {} THEN 0 ELSE ExitCodeForGate(Gates[Min(failing)].gateId)

-----------------------------------------------------------------------------
Init ==
    /\ world \in Worlds
    /\ pc = "load" /\ todo = {} /\ records = <<>> /\ exit = Running

Finish(code) == pc' = "done" /\ exit' = code /\ UNCHANGED <<world, todo, records>>

SeedGateFails(b, c) == Classify(b, c) = "newly-auto-mergeable"

(* runCompareDir: one bundle, one gate, no allowlist.                        *)
RunCompareDir ==
    /\ pc = "load" /\ world.mode = "dir"
    /\ \E c \in Cases :
          LET b == Baseline(c)
              n == Candidate(c)
          IN  Finish(IF world.cases[c].bundle = "missing" \/ Classify(b, n) = "ErrUnclassifiable"
                       THEN ExitCodeFailClosed
                     ELSE IF SeedGateFails(b, n)
                       THEN ExitCodeForGate("bounded-auto-merge-widening")
                     ELSE 0)

(* runCompareSuite up to RunSuite: the suite, the profile refs, the bundles. *)
LoadRefused ==
    \/ \E ad \in world.accepted : ad.case \notin Cases
    \/ ~world.refsMatch
    \/ \E c \in Cases : world.cases[c].bundle = "missing"

LoadSuite ==
    /\ pc = "load" /\ world.mode = "suite" /\ ~LoadRefused
    /\ pc' = "cases" /\ todo' = Cases
    /\ UNCHANGED <<world, records, exit>>

LoadSuiteFails ==
    /\ pc = "load" /\ world.mode = "suite" /\ LoadRefused
    /\ Finish(ExitCodeFailClosed)

(* RunSuite, case by case: the pinned digest first, then both evaluations.   *)
RecordOf(c) == BuildComparisonRecord(Baseline(c), Candidate(c), world.cases[c].subjects)
DigestMatches(c) == world.cases[c].bundle = "pinned"

CompareCase(c) ==
    /\ pc = "cases" /\ c \in todo /\ DigestMatches(c) /\ RecordOf(c).ok
    /\ todo' = todo \ {c}
    /\ records' = [k \in DOMAIN records \union {c} |->
                      IF k = c THEN RecordOf(c).deltas ELSE records[k]]
    /\ UNCHANGED <<world, pc, exit>>

CompareCaseFails(c) ==
    /\ pc = "cases" /\ c \in todo /\ ~(DigestMatches(c) /\ RecordOf(c).ok)
    /\ Finish(ExitCodeFailClosed)

(* The gates decide once every case has its record; --record files that      *)
(* cannot be written fail the command although they passed.                  *)
EvaluateGates ==
    /\ pc = "cases" /\ todo = {} /\ world.recordDir # "unwritable"
    /\ Finish(ExitCodeForSuiteRun(records))

WriteComparisonRecordsFails ==
    /\ pc = "cases" /\ todo = {} /\ world.recordDir = "unwritable"
    /\ Finish(ExitCodeFailClosed)

Next ==
    \/ RunCompareDir \/ LoadSuite \/ LoadSuiteFails
    \/ \E c \in todo : CompareCase(c) \/ CompareCaseFails(c)
    \/ EvaluateGates \/ WriteComparisonRecordsFails

Spec == Init /\ [][Next]_vars
==============================================================================
