--------------------------- MODULE ReconcileProps ---------------------------
(***************************************************************************)
(* What forge.Reconcile promises, over the behaviours of module Reconcile. *)
(***************************************************************************)
EXTENDS Reconcile

(* Every variable holds a value of its type.                               *)
TypeOK ==
    /\ threads \in Seq(Thread) /\ notes \in Seq(Note)
    /\ head \in Heads /\ approvals \subseteq Heads /\ merges \in Seq(Merge)
    /\ run \in [Publishers -> Run]
    /\ disturbed \subseteq Publishers
    /\ budget \in [runs : Nat, faults : Nat, reviews : Nat, pushes : Nat, corruptions : Nat]

-----------------------------------------------------------------------------
(* Threads.                                                                *)

(* The invocation of p returned success and nobody else has touched the    *)
(* forge since it began: its promise is about the state as it is now.      *)
Settled(p) == run[p].pc = "idle" /\ run[p].outcome = "ok" /\ p \notin disturbed
PathOf(p) == ReconcilePathOf(Desired(p))

(* With one publisher per MR a (slot, occurrence) never has two readable   *)
(* threads, whatever crashes, lost responses, reviewers and corrupted      *)
(* markers happen between the listing and the POST (forge.go 487-497, the  *)
(* idempotence of reconcileThread).                                        *)
OneThreadPerKey ==
    \A i, j \in Listed(threads) : SameKey(threads[i], threads[j]) => i = j

(* A rescan mismatch is somebody else's doing: an invocation that nobody   *)
(* disturbed never fails its own step-9 rescan, whatever an earlier crash, *)
(* lost response or race left behind (forge.go 554-609).                   *)
UndisturbedRunSucceeds ==
    \A p \in Publishers : run[p].outcome = "ErrRescanFailed" => p \in disturbed

(* Success means the forge shows the desired state: no open thread of the  *)
(* slot carries another occurrence, and the desired occurrence has exactly *)
(* one open thread or one resolved thread; a cleared slot has none open.   *)
SettledMatchesDesired ==
    \A p \in Publishers : Settled(p) =>
        /\ PathOf(p) = "listThreads" =>
              LET m == Desired(p).thread
              IN /\ StaleOpen(threads, m) = {}
                 /\ IsSingleton(OpenOccupants(threads, m)) \/ IsSingleton(Occupants(threads, m))
        /\ PathOf(p) = "clearList" => OpenInSlot(threads, Desired(p).clearSlot) = {}

(* Racing publishers never close a challenge between them: where no        *)
(* reviewer acts and no publisher wants another occurrence of the slot, a  *)
(* (slot, occurrence) that was posted keeps an open thread, however many   *)
(* duplicates the race left and however many repairs overlap               *)
(* (repairDuplicates keeps the lowest id, forge.go 677-697).               *)
ChallengeStaysOpen ==
    \A i \in DOMAIN threads :
        \E j \in DOMAIN threads : SameKey(threads[j], threads[i]) /\ ~Resolved(threads[j])

(* A thread that reconciliation leaves resolved for the current occurrence *)
(* was resolved by a reviewer ("The forge's resolved/unresolved bit is the *)
(* only durable record of 'was this actually reviewed'").                  *)
ResolutionMeansReviewed ==
    \A p \in Publishers : (Settled(p) /\ PathOf(p) = "listThreads") =>
        \A i \in Occupants(threads, Desired(p).thread) :
            OpenOccupants(threads, Desired(p).thread) = {} => threads[i].resolver = "reviewer"

(* Every invocation that starts comes back: the resolve loops shrink and   *)
(* no step waits for another publisher.                                    *)
EveryRunEnds == \A p \in Publishers : run[p].pc # "idle" ~> run[p].pc = "idle"

-----------------------------------------------------------------------------
(* The summary note and the receipt.                                       *)

Exists(op) ==
    \/ op[2] = "discussion" /\ op[3] \in DOMAIN threads
    \/ op[2] = "note" /\ op[3] \in DOMAIN notes
    \/ op[1] = "approval" /\ approvals # {}
    \/ op[1] = "merge" /\ Merged

(* A receipt is never empty and never invents a write: each operation      *)
(* names an artifact the forge has, and it lists an approval, a merge or a *)
(* summary note exactly when this invocation wrote one.                    *)
ReceiptIsHonest ==
    \A p \in Publishers : (run[p].pc = "idle" /\ run[p].outcome = "ok") =>
        /\ run[p].ops # {}
        /\ \A op \in run[p].ops : Exists(op)
        /\ \A k \in {"approval", "merge"} :
              (\E op \in run[p].ops : op[1] = k) <=> k \in run[p].writes
        /\ (\E op \in run[p].ops : op[2] = "note") <=> "note" \in run[p].writes

-----------------------------------------------------------------------------
(* Approval and merge.                                                     *)

(* What was merged was evaluated: the run was armed, its three pins were   *)
(* present, and the source head at the moment of the merge was the pinned  *)
(* one, however pushes and other publishers interleave.                    *)
MergedSourceWasEvaluated ==
    \A k \in DOMAIN merges :
        /\ merges[k].arm
        /\ merges[k].pins.source # Nil /\ merges[k].pins.target # Nil
        /\ merges[k].pins.digest # NoDigest
        /\ merges[k].at.source = merges[k].pins.source

(* ... and so was the target tip it was merged into.                       *)
MergedTargetWasEvaluated ==
    \A k \in DOMAIN merges : merges[k].at.target = merges[k].pins.target

(* A fail-closed refusal (exit 0, "no merge") never hides a merge, and the *)
(* refusals decided before the SHA guard never hide an approval.           *)
RefusalHidesNoMerge ==
    \A p \in Publishers : run[p].outcome \in Refusals =>
        /\ "merge" \notin run[p].writes
        /\ run[p].outcome # "ErrSHAMoved" => "approval" \notin run[p].writes

(* An approval is left dangling by a SHA refusal only when a head moved    *)
(* during the invocation: a move before it is caught by the pre-check.     *)
DanglingApprovalOnlyIfMoved ==
    \A p \in Publishers :
        (run[p].outcome = "ErrSHAMoved" /\ "approval" \in run[p].writes) => p \in disturbed
==============================================================================
