----------------------------- MODULE GitHubProps -----------------------------
(***************************************************************************)
(* What the GitHub adapter promises the run above it.                      *)
(***************************************************************************)
EXTENDS GitHub

(* One head is judged: the head-side reads, the approval and the thread    *)
(* anchors all name the commit the process's first MR read reported, the   *)
(* base-side reads the target tip of that read, whatever the pull request  *)
(* does and however often it is read again (GetMR's first write wins).     *)
OneJudgedHead ==
    /\ pr.approvals \union pr.anchors \subseteq {past.first.source}
    /\ \A r \in past.reads :
          /\ r.op = "FileAtHead" => r.at = past.first.source
          /\ r.op = "FileAtBase" => r.at = past.first.target

(* A file reported absent is absent at the commit it was read from, unless *)
(* the permission the probe had found was withdrawn afterwards: GitHub     *)
(* answers a forbidden read with 404 as well (contentScopeOK).             *)
AbsentIsAbsent ==
    \A r \in past.reads : r.got = "absent" => r.at \notin Holds \/ r.ref \in past.revoked

(* A changed-file list declared complete holds both names of every entry   *)
(* of the head the snapshot reports, if no push came between the PR read   *)
(* and the last page (mrChangedFiles, changedFilesVerdict).                *)
CompleteListsAll ==
    (call.op = "Snapshot" /\ call.out = "ok" /\ snap.complete /\ ~past.sourceMoved) =>
        \A i \in DOMAIN Diff[pr.source] :
            {Diff[pr.source][i].filename, Diff[pr.source][i].previous} \ {NoPath} \subseteq snap.paths

(* MergeCAS merges the pinned source.  It does so under a digest made from *)
(* that source unless pushes came after the re-read, although the merge    *)
(* ref may lag behind a push; and into the pinned target unless the base   *)
(* moved after the re-read: the PUT guards the source alone.               *)
MergeIsPinned ==
    (call.op = "MergeCAS" /\ call.took) =>
        /\ pr.merged[1] = snap.source
        /\ pr.merged[1] = snap.digest[1] \/ past.sourceMoved
        /\ pr.merged[2] = snap.target \/ past.targetMoved
==============================================================================
