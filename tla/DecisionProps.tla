---------------------------- MODULE DecisionProps ----------------------------
(***************************************************************************)
(* What a verdict of the decision engine means.                            *)
(***************************************************************************)
EXTENDS Decision

TypeOK ==
    /\ RequestOK(req)
    /\ pc \in {"guards", "profile", "rules", "deletes", "edits", "risk", "done", "failed"}
    /\ todo \subseteq DOMAIN req.rules
    /\ covered \subseteq STRING
    /\ decision \in Decisions /\ points \in Nat
    /\ findings \subseteq Finding /\ observed \subseteq Finding
    /\ gaps \subseteq STRING \union {"", "self"}

Decided(d) == pc = "done" /\ decision = d

-----------------------------------------------------------------------------
(* Enough people other than the author, eligible and counted once each,    *)
(* approved exactly the commit that was evaluated.                         *)
Endorsed(q, s) ==
    /\ s \in DOMAIN q.evidence
    /\ q.sourceSha # "" /\ q.evidence[s].sha = q.sourceSha
    /\ q.evidence[s].capability # "none" /\ ~q.evidence[s].expired
    /\ \E people \in SUBSET q.evidence[s].eligible :
          /\ q.evidence[s].required >= 1 /\ Cardinality(people) >= q.evidence[s].required
          /\ q.author # "" => q.author \notin people
          /\ \A id \in people : \E i \in DOMAIN q.evidence[s].approvedBy :
                q.evidence[s].approvedBy[i].id = id

(* A rule's word on a change it selects that allows an approval: proved,   *)
(* endorsed by people after a clean failure, or a remark on an obligation  *)
(* that is not required.                                                   *)
Vouches(q, n, c) ==
    /\ Outcome(q, n, c) # "error"
    /\ \/ Outcome(q, n, c) = "true"
       \/ q.rules[n].onFailure = "require-review" /\ Endorsed(q, q.changes[c].subject)
       \/ q.rules[n].onFailure = "comment" /\ q.rules[n].prove \notin q.require

(* APPROVE is never vacuous (coverage.go, decide.go): there is a readable   *)
(* change outside .assent, every required obligation has an enforced rule,  *)
(* every value edit and whole-file delete is selected by an enforced rule,  *)
(* and every enforced rule vouches for every change it selects.             *)
ApproveIsVouched ==
    Decided("APPROVE") =>
        /\ ~req.reserved /\ ~req.opaque /\ DOMAIN req.changes # {}
        /\ \A o \in req.require : \E n \in DOMAIN req.rules :
              Enforced(req, n) /\ req.rules[n].prove = o
        /\ \A c \in DOMAIN req.changes :
              /\ ~WholeFile(req.changes[c]) => Governed(req, c, Domains)
              /\ WholeFile(req.changes[c]) /\ req.changes[c].kind = "delete"
                    => Governed(req, c, {"fileEvents"})
        /\ \A n \in DOMAIN req.rules : Enforced(req, n) =>
              \A c \in Matched(req, n) : Vouches(req, n, c)

(* A pack whose ceiling is observe or off approves nothing (coverage.go,    *)
(* effectivePhase): capping a rollout never relaxes a decision.             *)
CappedPackNeverApproves ==
    Ceiling(req) # "enforce" => ~Decided("APPROVE")

(* A verdict other than APPROVE is explained by its findings, as            *)
(* drivingFinding assumes, and BLOCK exactly by a blocking one: a self-edit *)
(* or an authored block that failed cleanly.                                *)
DenialIsExplained ==
    pc = "done" =>
        /\ decision # "APPROVE" => findings # {}
        /\ decision = "BLOCK" <=> \E f \in findings : f.effect = "block"

-----------------------------------------------------------------------------
(* The verdict as a function of the request, without a loop.  A rule has   *)
(* its points once for every change it fires on.                           *)
Enforcing(q) == {n \in DOMAIN q.rules : Enforced(q, n)}
PointsOf(q, rules) ==
    UNION {{n} \X (Firings(q, n) \X (1 .. q.rules[n].points)) : n \in rules}
TotalPoints(q) == Cardinality(PointsOf(q, Enforcing(q)))
Escalated(q) ==
    \/ \E o \in q.require : \A n \in Enforcing(q) : q.rules[n].prove # o
    \/ \E c \in DOMAIN q.changes :
          \/ ~WholeFile(q.changes[c]) /\ ~Governed(q, c, Domains)
          \/ WholeFile(q.changes[c]) /\ q.changes[c].kind = "delete"
             /\ ~Governed(q, c, {"fileEvents"})
    \/ TotalPoints(q) > q.threshold
FinalDecision(q) ==
    Worst((UNION {WorsenedBy(q, n) : n \in Enforcing(q)})
          \union (IF Escalated(q) THEN {"REVIEW"} ELSE {}))

EnforcedOnly(q) ==
    [q EXCEPT !.rules = [n \in Enforcing(q) |-> q.rules[n]]]
PastGuards == ~req.reserved /\ ~Undecidable

(* The verdict does not depend on the order of the rules, and observed and  *)
(* off rules have no part in it: it is that of the policy without them      *)
(* (the observe routing of cover).                                          *)
EnforcedRulesDecide ==
    pc = "done" /\ PastGuards => decision = FinalDecision(EnforcedOnly(req))

(* Approval evidence (approval.go) turns a review into an approval and does *)
(* nothing else: it never lifts a block and never makes a verdict worse.    *)
EvidenceOnlyLiftsReview ==
    pc = "done" /\ PastGuards =>
        LET without == FinalDecision([req EXCEPT !.evidence = <<>>])
        IN  decision = without \/ (decision = "APPROVE" /\ without = "REVIEW")

(* A result carries write authority (profile.go) only from the one covering *)
(* writer, only if no covering profile is narrower, and only if the call    *)
(* got past the guards.                                                     *)
OneWriterNarrowest ==
    pc = "done" /\ profile.writes =>
        /\ PastGuards
        /\ \E i \in Writers(req) :
              /\ Writers(req) = {i}
              /\ \A j \in CoveringRows(req) :
                    Specificity(req.profiles[req.precedence[j]])
                        <= Specificity(req.profiles[req.precedence[i]])

-----------------------------------------------------------------------------
(* The two values a condition can have once every leaf is known; whatever   *)
(* the walk cannot evaluate (a leaf in error, an empty combinator, a node   *)
(* below the depth limit) is guessed.                                       *)
Truth(tree, guess) ==
    LET holds[n \in DOMAIN tree] ==
          CASE tree[n].op = "all" /\ tree[n].kids # {} -> \A k \in tree[n].kids : holds[k]
            [] tree[n].op = "any" /\ tree[n].kids # {} -> \E k \in tree[n].kids : holds[k]
            [] tree[n].op = "not" /\ tree[n].kids # {} -> \A k \in tree[n].kids : ~holds[k]
            [] OTHER -> guess[n]
    IN  holds[1]

(* An answer of the condition walk (asserttree.go) is final: true or false  *)
(* is what the condition would be however its failing leaves came out. A    *)
(* fact that resolves later can only turn an error into an answer.          *)
AnswersSurviveFacts ==
    pc = "rules" =>
        \A n \in todo, c \in DOMAIN req.changes :
            LET tree == req.rules[n].when
                leaf == req.rules[n].leaf[c]
            IN  Outcome(req, n, c) # "error" =>
                    \A guess \in [DOMAIN tree -> BOOLEAN] :
                        (\A k \in DOMAIN tree : tree[k].op = "leaf" /\ leaf[k] # "error"
                                                  => guess[k] = (leaf[k] = "true"))
                        => Truth(tree, guess) = (Outcome(req, n, c) = "true")
==============================================================================
