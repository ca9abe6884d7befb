---------------------------- MODULE CompareProofs ----------------------------
(***************************************************************************)
(* What exit code 0 of `assent compare` promises, for every set of rules,  *)
(* every gate table that fails on the five kinds of ADR-0018, and every    *)
(* suite: any number of cases, rules, subjects and accepted deltas.        *)
(*                                                                         *)
(* The argument has three parts: a case whose judgement differs is refused *)
(* or has a delta of a kind some gate fails on (SomeKindIsRecorded); a     *)
(* table that passes has an accepted delta for each of these (PassAccepts);*)
(* and the records the gates see are those of every case of the suite, on  *)
(* its pinned bundle (RunsInv).                                            *)
(***************************************************************************)
EXTENDS CompareProps, TLAPS

GateKinds == Kinds \ {"explanation-only"}

-----------------------------------------------------------------------------
(* Where the decision changes, an identity is given a kind of a gate, or    *)
(* none: explanation-only needs equal decisions (classifyIdentityDelta).    *)
LEMMA IdentityKind ==
    ASSUME NEW b, NEW n, NEW id, b.decision # n.decision
    PROVE  ClassifyIdentityDelta(b, n, id) \in GateKinds \union {"none"}
<1> DEFINE f == CHOOSE x \in ByIdentity(b.findings, id) : TRUE
<1> DEFINE g == CHOOSE x \in ByIdentity(n.findings, id) : TRUE
<1>1. ClassifyIdentityDelta(b, n, id) \in {BaselineOnly(b, n, f), CandidateOnly(b, n, g), BothSides(b, n, f, g)}
  BY DEF ClassifyIdentityDelta
<1>2. \A x : BaselineOnly(b, n, x) \in GateKinds \union {"none"}
  BY DEF BaselineOnly, GateKinds, Kinds
<1>3. \A x : CandidateOnly(b, n, x) \in GateKinds \union {"none"}
  BY DEF CandidateOnly, GateKinds, Kinds
<1>4. \A x, y : BothSides(b, n, x, y) \in GateKinds \union {"none"}
  BY DEF BothSides, GateKinds, Kinds
<1> QED
  BY <1>1, <1>2, <1>3, <1>4

(* A changed decision is a difference, whatever the findings (classify).    *)
LEMMA ChangedDecision ==
    ASSUME NEW b, NEW n, b.decision # n.decision
    PROVE  Classify(b, n) # "none"
  BY DEF Classify

(* Equal decisions are told apart by their findings: what is not an error   *)
(* is the same judgement (classifyEqualDecision).                           *)
LEMMA EqualDecision ==
    ASSUME NEW b, NEW n, b.decision = n.decision, Classify(b, n) # "ErrUnclassifiable"
    PROVE  SameJudgement(b, n)
<1>1. Classify(b, n) = ClassifyEqualDecision(b, n)
  BY DEF Classify
<1> QED
  BY <1>1 DEF ClassifyEqualDecision, SameJudgement

(* The record of a case whose decision changes has the deltas of all its    *)
(* identities, at least one, each of a kind some gate fails on              *)
(* (BuildComparisonRecord).                                                 *)
LEMMA SomeKindIsRecorded ==
    ASSUME NEW b, NEW n, NEW s, b.decision # n.decision, BuildComparisonRecord(b, n, s).ok
    PROVE  /\ BuildComparisonRecord(b, n, s).deltas # {}
           /\ \A d \in BuildComparisonRecord(b, n, s).deltas : d.kind \in GateKinds
           /\ \A id \in Identities(b.findings) \union Identities(n.findings) :
                 ClassifyIdentityDelta(b, n, id) # "none" =>
                    BuildDelta(b, n, id, s) \in BuildComparisonRecord(b, n, s).deltas
<1> DEFINE ids == Identities(b.findings) \union Identities(n.findings)
<1> DEFINE deltas == {d \in {BuildDelta(b, n, id, s) : id \in ids} : d.kind # "none"}
<1>1. Classify(b, n) # "none"
  BY ChangedDecision
<1>2. BuildComparisonRecord(b, n, s).deltas = deltas
  BY <1>1 DEF BuildComparisonRecord
<1>3. SomeDelta(deltas)
  BY <1>1 DEF BuildComparisonRecord
<1>4. \A id \in ids : BuildDelta(b, n, id, s).kind = ClassifyIdentityDelta(b, n, id)
  BY DEF BuildDelta
<1>5. \A id \in ids : ClassifyIdentityDelta(b, n, id) \in GateKinds \union {"none"}
  BY IdentityKind
<1>6. \A d \in deltas : d.kind \in GateKinds
  BY <1>4, <1>5
<1>7. \A id \in ids : ClassifyIdentityDelta(b, n, id) # "none" => BuildDelta(b, n, id, s) \in deltas
  BY <1>4
<1> QED
  BY <1>2, <1>3, <1>6, <1>7 DEF SomeDelta

(* A case that has a record is judged alike, or its decision changed.       *)
LEMMA RecordedCase ==
    ASSUME NEW b, NEW n, NEW s, BuildComparisonRecord(b, n, s).ok
    PROVE  SameJudgement(b, n) \/ b.decision # n.decision
<1>1. Classify(b, n) # "ErrUnclassifiable"
  BY DEF BuildComparisonRecord
<1> QED
  BY <1>1, EqualDecision

-----------------------------------------------------------------------------
(* No gate of the table fails on the records so far.                        *)
GatesPass == \A i \in DOMAIN Gates : ~GateFails(Gates[i], records)

(* Exit code 0 of a suite is a table that passes: every failing gate has a  *)
(* code of its own (exitCodeForSuiteRun).                                   *)
LEMMA ZeroIsPass ==
    ASSUME ExitCodeForSuiteRun(records) = 0
    PROVE  GatesPass
<1> DEFINE failing == {i \in DOMAIN Gates : GateFails(Gates[i], records)}
<1>1. \A id : ExitCodeForGate(id) # 0
  BY DEF ExitCodeForGate, ExitCodeFailClosed
<1>2. failing = {}
  BY <1>1 DEF ExitCodeForSuiteRun
<1> QED
  BY <1>2 DEF GatesPass

(* What passes the gates with a kind of theirs was accepted, as that delta  *)
(* of that case (evaluateGate, isAcceptedDelta).                            *)
LEMMA PassAccepts ==
    ASSUME GatesPass, NEW c \in DOMAIN records, NEW d \in records[c], d.kind \in GateKinds
    PROVE  Accepted(c, d)
<1>1. PICK i \in DOMAIN Gates : d.kind \in Gates[i].failOnKinds /\ Gates[i].defaultVerdict # "pass"
  BY GatesAssumption DEF GateKinds
<1>2. ~Trips(Gates[i], c, d)
  BY DEF GatesPass, GateFails
<1> QED
  BY <1>1, <1>2 DEF Trips, GateKinds

-----------------------------------------------------------------------------
(* The records are those of the cases compared so far, each on its pinned   *)
(* bundle and classified.                                                   *)
Recorded ==
    /\ todo \subseteq Cases /\ DOMAIN records = Cases \ todo
    /\ \A c \in DOMAIN records :
          DigestMatches(c) /\ RecordOf(c).ok /\ records[c] = RecordOf(c).deltas

(* The seed passes what is classified and not newly auto-mergeable.         *)
SeedPasses ==
    \A c \in Cases : Classify(Baseline(c), Candidate(c)) \notin {"ErrUnclassifiable", "newly-auto-mergeable"}

(* The inductive invariant of a comparison: nothing is recorded before the  *)
(* suite is loaded, and code 0 is given only after every case.              *)
RunsInv ==
    /\ world \in Worlds
    /\ pc \in {"load", "cases", "done"}
    /\ pc # "done" => exit = Running
    /\ pc = "load" => records = <<>>
    /\ pc = "cases" => world.mode = "suite" /\ Recorded
    /\ Passed => \/ world.mode = "suite" /\ todo = {} /\ Recorded /\ GatesPass
                 \/ world.mode = "dir" /\ SeedPasses

(* Nothing about a case changes while the world it is read from does not.   *)
LEMMA WorldFixed ==
    ASSUME world' = world
    PROVE  /\ Cases' = Cases
           /\ \A c : /\ Baseline(c)' = Baseline(c) /\ Candidate(c)' = Candidate(c)
                     /\ DigestMatches(c)' <=> DigestMatches(c)
                     /\ RecordOf(c)' = RecordOf(c)
                     /\ \A d : Accepted(c, d)' <=> Accepted(c, d)
  BY DEF Cases, Baseline, Candidate, DigestMatches, RecordOf, Accepted, MatchesAcceptedDelta

(* The inductive invariant holds in the initial states.                     *)
LEMMA RunsInit == Init => RunsInv
  BY DEF Init, RunsInv, Passed, Running

(* A comparison that ends with a code keeps what it recorded.               *)
LEMMA FinishKeeps ==
    ASSUME NEW code, Finish(code)
    PROVE  /\ (Recorded' <=> Recorded) /\ (GatesPass' <=> GatesPass) /\ (SeedPasses' <=> SeedPasses)
           /\ world' = world /\ todo' = todo /\ records' = records /\ pc' = "done" /\ exit' = code
<1>1. world' = world /\ todo' = todo /\ records' = records /\ pc' = "done" /\ exit' = code
  BY DEF Finish
<1>2. Recorded' <=> Recorded
  BY <1>1, WorldFixed DEF Recorded
<1>3. GatesPass' <=> GatesPass
  BY <1>1, WorldFixed DEF GatesPass, GateFails, Trips
<1>4. SeedPasses' <=> SeedPasses
  BY <1>1, WorldFixed DEF SeedPasses
<1> QED
  BY <1>1, <1>2, <1>3, <1>4

(* The seed: its one bundle is there and classified when it passes.         *)
LEMMA SeedStep ==
    ASSUME RunsInv, RunCompareDir
    PROVE  RunsInv'
<1>1. PICK c \in Cases :
         Finish(IF world.cases[c].bundle = "missing" \/ Classify(Baseline(c), Candidate(c)) = "ErrUnclassifiable"
                  THEN ExitCodeFailClosed
                ELSE IF SeedGateFails(Baseline(c), Candidate(c))
                  THEN ExitCodeForGate("bounded-auto-merge-widening")
                ELSE 0)
  BY DEF RunCompareDir
<1>2. \A d \in Cases : d = c
  BY SeedAssumption DEF RunCompareDir, RunsInv, Cases
<1>3. exit' = 0 => SeedPasses
  BY <1>1, <1>2 DEF Finish, SeedPasses, SeedGateFails, ExitCodeFailClosed, ExitCodeForGate
<1>4. world' = world /\ pc' = "done" /\ (SeedPasses' <=> SeedPasses)
  BY <1>1, FinishKeeps
<1> QED
  BY <1>3, <1>4 DEF RunsInv, Passed, RunCompareDir

(* One more case: its record joins the others.                              *)
LEMMA CaseStep ==
    ASSUME RunsInv, NEW c, CompareCase(c)
    PROVE  RunsInv'
<1>1. /\ pc = "cases" /\ pc' = pc /\ exit' = exit /\ world' = world /\ c \in todo
      /\ todo' = todo \ {c} /\ DigestMatches(c) /\ RecordOf(c).ok
      /\ records' = [k \in DOMAIN records \union {c} |->
                        IF k = c THEN RecordOf(c).deltas ELSE records[k]]
  BY DEF CompareCase
<1>2. Cases' = Cases /\ \A k : (DigestMatches(k)' <=> DigestMatches(k)) /\ RecordOf(k)' = RecordOf(k)
  BY <1>1, WorldFixed
<1>3. Recorded
  BY <1>1 DEF RunsInv
<1>4. todo' \subseteq Cases /\ DOMAIN records' = Cases \ todo'
  BY <1>1, <1>3 DEF Recorded
<1>5. ASSUME NEW k \in DOMAIN records'
      PROVE  DigestMatches(k) /\ RecordOf(k).ok /\ records'[k] = RecordOf(k).deltas
  BY <1>1, <1>3 DEF Recorded
<1>6. Recorded'
  BY <1>2, <1>4, <1>5 DEF Recorded
<1> QED
  BY <1>1, <1>6 DEF RunsInv, Passed

(* A refusal ends the run with a code that is not 0.                        *)
LEMMA RefusalStep ==
    ASSUME RunsInv, Finish(ExitCodeFailClosed)
    PROVE  RunsInv'
  BY DEF Finish, RunsInv, Passed, ExitCodeFailClosed

(* Every step keeps the inductive invariant.                                *)
LEMMA RunsStep ==
    ASSUME RunsInv, [Next]_vars
    PROVE  RunsInv'
<1>1. CASE RunCompareDir
  BY <1>1, SeedStep
<1>2. CASE LoadSuite
  <2>1. Cases' = Cases /\ DOMAIN records' = {} /\ todo' = Cases
    BY <1>2, WorldFixed DEF LoadSuite, RunsInv
  <2>2. Recorded'
    BY <2>1 DEF Recorded
  <2> QED
    BY <1>2, <2>2 DEF LoadSuite, RunsInv, Passed
<1>3. CASE LoadSuiteFails
  BY <1>3, RefusalStep DEF LoadSuiteFails
<1>4. CASE \E c \in todo : CompareCase(c) \/ CompareCaseFails(c)
  BY <1>4, CaseStep, RefusalStep DEF CompareCaseFails
<1>5. CASE EvaluateGates
  <2>1. Finish(ExitCodeForSuiteRun(records)) /\ pc = "cases" /\ todo = {}
    BY <1>5 DEF EvaluateGates
  <2>2. PICK code : code = ExitCodeForSuiteRun(records)
    OBVIOUS
  <2>3. /\ (Recorded' <=> Recorded) /\ (GatesPass' <=> GatesPass)
        /\ world' = world /\ todo' = todo /\ pc' = "done" /\ exit' = code
    BY <2>1, <2>2, FinishKeeps
  <2>4. code = 0 => GatesPass
    BY <2>2, ZeroIsPass
  <2> QED
    BY <2>1, <2>3, <2>4 DEF RunsInv, Passed
<1>6. CASE WriteComparisonRecordsFails
  BY <1>6, RefusalStep DEF WriteComparisonRecordsFails
<1>7. CASE UNCHANGED vars
  <2>1. world' = world /\ todo' = todo /\ records' = records /\ pc' = pc /\ exit' = exit
    BY <1>7 DEF vars
  <2>2. Recorded' <=> Recorded
    BY <2>1, WorldFixed DEF Recorded
  <2>3. GatesPass' <=> GatesPass
    BY <2>1, WorldFixed DEF GatesPass, GateFails, Trips
  <2>4. SeedPasses' <=> SeedPasses
    BY <2>1, WorldFixed DEF SeedPasses
  <2> QED
    BY <2>1, <2>2, <2>3, <2>4 DEF RunsInv, Passed
<1> QED
  BY <1>1, <1>2, <1>3, <1>4, <1>5, <1>6, <1>7 DEF Next

(* The gates are given the record of every case of the suite, made of its   *)
(* pinned bundle, and code 0 is theirs or the seed's.                       *)
THEOREM RunsInvariant == Spec => []RunsInv
<1>1. RunsInv /\ [Next]_vars => RunsInv'
  BY RunsStep
<1> QED
  BY RunsInit, <1>1, PTL DEF Spec

-----------------------------------------------------------------------------
(* Of a suite that passed, each delta of a gate's kind was accepted.        *)
LEMMA PassedCase ==
    ASSUME RunsInv, Passed, world.mode = "suite", NEW c \in Cases
    PROVE  /\ DigestMatches(c) /\ RecordOf(c).ok
           /\ \A d \in RecordOf(c).deltas : d.kind \in GateKinds => Accepted(c, d)
<1>1. todo = {} /\ Recorded /\ GatesPass
  BY DEF RunsInv
<1>2. c \in DOMAIN records
  BY <1>1 DEF Recorded
<1>3. DigestMatches(c) /\ RecordOf(c).ok /\ records[c] = RecordOf(c).deltas
  BY <1>1, <1>2 DEF Recorded
<1> QED
  BY <1>1, <1>2, <1>3, PassAccepts

(* The seed lets no approval through that the baseline withheld, unless the *)
(* interventions are the same (classify, gateVerdict).                      *)
LEMMA SeedHidesNothing ==
    ASSUME NEW b, NEW n, NewlyApproves(b, n),
           Classify(b, n) \notin {"ErrUnclassifiable", "newly-auto-mergeable"}
    PROVE  SameInterventions(b, n)
<1>1. ~DetectMissedIntervention(b, n)
  BY DEF NewlyApproves, DetectMissedIntervention
<1>2. ~DecisionWorsened(b, n)
  BY DEF NewlyApproves, DecisionWorsened, DecisionRank
<1>3. b.decision # n.decision
  BY DEF NewlyApproves
<1> QED
  BY <1>1, <1>2, <1>3 DEF Classify, IsObligationUncovered

(* Exit code 0 hides no difference: of a suite, every case is judged alike  *)
(* on its pinned bundle or a difference of that case was accepted; of the   *)
(* seed, no new approval but by points (RunSuite, EvaluateGates,            *)
(* gateVerdict).                                                            *)
THEOREM PassHidesNoDifferenceHolds == Spec => []PassHidesNoDifference
<1>1. ASSUME RunsInv, Passed, world.mode = "suite", NEW c \in Cases
      PROVE  /\ world.cases[c].bundle = "pinned"
             /\ SameJudgement(Baseline(c), Candidate(c)) \/ AcceptedIn(c) # {}
  <2>1. DigestMatches(c) /\ RecordOf(c).ok /\ \A d \in RecordOf(c).deltas : d.kind \in GateKinds => Accepted(c, d)
    BY <1>1, PassedCase
  <2>2. CASE Baseline(c).decision = Candidate(c).decision
    BY <2>1, <2>2, RecordedCase DEF RecordOf, DigestMatches
  <2>3. CASE Baseline(c).decision # Candidate(c).decision
    <3>1. PICK b, n : b = Baseline(c) /\ n = Candidate(c)
      OBVIOUS
    <3>2. PICK d \in RecordOf(c).deltas : d.kind \in GateKinds
      <4>1. RecordOf(c) = BuildComparisonRecord(b, n, world.cases[c].subjects)
        BY <3>1 DEF RecordOf
      <4> QED
        BY <2>1, <2>3, <3>1, <4>1, SomeKindIsRecorded
    <3>3. PICK ad \in world.accepted : MatchesAcceptedDelta(ad, c, d)
      BY <2>1, <3>2 DEF Accepted
    <3> QED
      BY <2>1, <3>3 DEF MatchesAcceptedDelta, AcceptedIn, DigestMatches
  <2> QED
    BY <2>2, <2>3
<1>2. ASSUME RunsInv, Passed, world.mode = "dir", NEW c \in Cases
      PROVE  ~NewlyApproves(Baseline(c), Candidate(c)) \/ SameInterventions(Baseline(c), Candidate(c))
  <2>1. Classify(Baseline(c), Candidate(c)) \notin {"ErrUnclassifiable", "newly-auto-mergeable"}
    BY <1>2 DEF RunsInv, SeedPasses
  <2> QED
    BY <2>1, SeedHidesNothing
<1>3. RunsInv /\ Passed => world.mode = "suite" \/ world.mode = "dir"
  BY DEF RunsInv
<1>4. RunsInv => PassHidesNoDifference
  BY <1>1, <1>2, <1>3 DEF PassHidesNoDifference
<1> QED
  BY <1>4, RunsInvariant, PTL

-----------------------------------------------------------------------------
(* A side has one finding per identity, as far as effects go: a rule gives  *)
(* all its findings one effect, and an uncovered obligation is of no rule   *)
(* that the side has (aggregate.Decide).                                    *)
LEMMA OneEffectPerIdentity ==
    ASSUME NEW side, NEW require, NEW f \in Findings(side, require), NEW g \in Findings(side, require),
           DeltaIdentity(f) = DeltaIdentity(g)
    PROVE  f.effect = g.effect
<1>1. ASSUME NEW x \in Findings(side, require)
      PROVE  \/ /\ x.rule \in Rules /\ side[x.rule].has /\ x.obligation = Proves[x.rule]
                /\ x.effect = side[x.rule].effect
             \/ /\ x.effect = "require-review"
                /\ \A r \in Rules : ~(side[r].has /\ Proves[r] = x.obligation)
  BY DEF Findings
<1>2. f.rule = g.rule /\ f.obligation = g.obligation
  BY DEF DeltaIdentity
<1> QED
  BY <1>1, <1>2

(* A block or review of the baseline whose identity the candidate lacks has *)
(* a delta of its own where the decision changes (classifyIdentityDelta).   *)
LEMMA DroppedHasKind ==
    ASSUME NEW side, NEW require, NEW b, NEW n, b.findings = Findings(side, require),
           b.decision # n.decision, NEW f \in b.findings, IsMissedInterventionEffect(f.effect),
           DeltaIdentity(f) \notin Identities(n.findings)
    PROVE  ClassifyIdentityDelta(b, n, DeltaIdentity(f)) # "none"
<1> DEFINE id == DeltaIdentity(f)
<1> DEFINE g == CHOOSE x \in ByIdentity(b.findings, id) : TRUE
<1>1. g \in b.findings /\ DeltaIdentity(g) = id
  BY DEF ByIdentity
<1>2. g.effect = f.effect
  BY <1>1, OneEffectPerIdentity
<1>3. ByIdentity(n.findings, id) = {}
  BY DEF ByIdentity, Identities
<1>4. ClassifyIdentityDelta(b, n, id) = BaselineOnly(b, n, g)
  BY <1>3 DEF ClassifyIdentityDelta
<1>5. BaselineOnly(b, n, g) # "none"
  BY <1>2 DEF BaselineOnly, NewlyApproves
<1> QED
  BY <1>4, <1>5

(* A block or review that the candidate drops, where the decision changes,  *)
(* was accepted by its own rule and subject (matchesAcceptedDelta).         *)
THEOREM DroppedInterventionWasAcceptedHolds == Spec => []DroppedInterventionWasAccepted
<1>1. ASSUME RunsInv, Passed, world.mode = "suite", NEW c \in Cases,
             Baseline(c).decision # Candidate(c).decision,
             NEW f \in Baseline(c).findings, IsMissedInterventionEffect(f.effect),
             DeltaIdentity(f) \notin Identities(Candidate(c).findings)
      PROVE  \E ad \in AcceptedIn(c) : ad.rule = f.rule /\ (f.subject # 0 => ad.subject = f.subject)
  <2>1. PICK b, n, s, id : b = Baseline(c) /\ n = Candidate(c) /\ s = world.cases[c].subjects /\ id = DeltaIdentity(f)
    OBVIOUS
  <2>2. b.findings = Findings(world.cases[c].base, world.require)
    BY <2>1 DEF Baseline, Evaluate
  <2>3. ClassifyIdentityDelta(b, n, id) # "none"
    BY <1>1, <2>1, <2>2, DroppedHasKind
  <2>4. id \in Identities(b.findings)
    BY <1>1, <2>1 DEF Identities
  <2>5. RecordOf(c) = BuildComparisonRecord(b, n, s)
    BY <2>1 DEF RecordOf
  <2>6. RecordOf(c).ok /\ \A d \in RecordOf(c).deltas : d.kind \in GateKinds => Accepted(c, d)
    BY <1>1, PassedCase
  <2>7. BuildDelta(b, n, id, s) \in RecordOf(c).deltas /\ BuildDelta(b, n, id, s).kind \in GateKinds
    BY <1>1, <2>1, <2>3, <2>4, <2>5, <2>6, SomeKindIsRecorded
  <2>8. PICK ad \in world.accepted : MatchesAcceptedDelta(ad, c, BuildDelta(b, n, id, s))
    BY <2>6, <2>7 DEF Accepted
  <2>9. BuildDelta(b, n, id, s).rule = id[1] /\ (id[3] # 0 => BuildDelta(b, n, id, s).subject = id[3])
    BY DEF BuildDelta
  <2>10. id[1] = f.rule /\ id[3] = f.subject
    BY <2>1 DEF DeltaIdentity
  <2> QED
    BY <2>8, <2>9, <2>10 DEF MatchesAcceptedDelta, AcceptedIn
<1>2. RunsInv => DroppedInterventionWasAccepted
  BY <1>1 DEF DroppedInterventionWasAccepted
<1> QED
  BY <1>2, RunsInvariant, PTL
==============================================================================
