---------------------------- MODULE CompareProps -----------------------------
(***************************************************************************)
(* What exit code 0 of `assent compare` promises to whoever promotes the   *)
(* candidate, with the five gates of ADR-0018 in the table.                *)
(***************************************************************************)
EXTENDS Compare

Passed == pc = "done" /\ exit = 0
SameJudgement(b, c) ==
    b.decision = c.decision /\ FindingKeys(b.findings) = FindingKeys(c.findings)
AcceptedIn(c) == {ad \in world.accepted : ad.case = c}

(* Exit code 0 hides no difference.  A suite passes only if both profiles  *)
(* judge every case alike, or someone accepted a difference of that very   *)
(* case: nothing is lost between the classification of a case and of its   *)
(* identities, the records and the gates, and no other bundle stands in    *)
(* for the pinned one (record.go collectDeltas, suite.go RunSuite,         *)
(* gates.go).  The seed, which has one gate, passes no candidate that      *)
(* approves what the baseline held unless only points moved                *)
(* (compare.go gateVerdict).                                               *)
PassHidesNoDifference ==
    Passed => \A c \in Cases :
        LET b == Baseline(c)
            n == Candidate(c)
        IN  \/ world.mode = "suite" /\ world.cases[c].bundle = "pinned"
               /\ (SameJudgement(b, n) \/ AcceptedIn(c) # {})
            \/ world.mode = "dir" /\ (~NewlyApproves(b, n) \/ SameInterventions(b, n))

(* Each block or review that the candidate no longer has, where it changes *)
(* the decision, was accepted by its own rule and subject: accepting one   *)
(* never carries another with it (gates.go matchesAcceptedDelta).          *)
DroppedInterventionWasAccepted ==
    (Passed /\ world.mode = "suite") => \A c \in Cases :
        LET b == Baseline(c)
            n == Candidate(c)
        IN  b.decision # n.decision =>
              \A f \in b.findings :
                (IsMissedInterventionEffect(f.effect)
                   /\ DeltaIdentity(f) \notin Identities(n.findings)) =>
                  \E ad \in AcceptedIn(c) :
                      ad.rule = f.rule /\ (f.subject # 0 => ad.subject = f.subject)

(* "unclassified differences are a hard classification error (fail-closed)" *)
(* (ADR-0018): where the decision changes, a block or review that the       *)
(* candidate only comments on was accepted as well.                         *)
WeakenedInterventionWasAccepted ==
    (Passed /\ world.mode = "suite") => \A c \in Cases :
        LET b == Baseline(c)
            n == Candidate(c)
        IN  b.decision # n.decision =>
              \A f \in b.findings :
                (f.effect = "block"
                   /\ \A g \in ByIdentity(n.findings, DeltaIdentity(f)) : g.effect = "comment") =>
                  \E ad \in AcceptedIn(c) : ad.rule = f.rule /\ ad.subject = f.subject
==============================================================================
