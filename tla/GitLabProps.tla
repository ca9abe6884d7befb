----------------------------- MODULE GitLabProps -----------------------------
(***************************************************************************)
(* What the GitLab adapter's reads promise the run above them.             *)
(***************************************************************************)
EXTENDS GitLab

(* The governed reads of a process judge one commit per side, the one its  *)
(* first GetMR reported, however often the MR is read again (mrPinned).    *)
ReadsFollowThePin ==
    \A r \in past.reads :
        r.at = IF r.op = "FileAtHead" THEN past.first.source ELSE past.first.target

(* A changed-file list declared complete has both paths of every entry of  *)
(* the head the snapshot reports, although the instance caps its diffs and *)
(* its count, unless a push came after the MR read (mrChangedFiles).       *)
EnumerationIsWhole ==
    (call.op = "Snapshot" /\ call.out = "ok" /\ call.complete /\ ~past.pushed) =>
        \A i \in DOMAIN Diff[mr.source] :
            {Diff[mr.source][i].old, Diff[mr.source][i].new} \subseteq call.paths

(* Evidence that is not expired counts enough eligible people, never the   *)
(* author or the bot, and, where a push resets approvals and none came     *)
(* between the reads, each of them approved the pinned source (Resolve).   *)
EvidenceIsForThePins ==
    (call.out = "evidence" /\ ~call.rule.expired) =>
        /\ Cardinality({a.user : a \in call.rule.approvedBy}) >= call.rule.required
        /\ \A a \in call.rule.approvedBy :
              /\ a.user \in call.rule.eligible \ {Author, Bot}
              /\ (mr.resetOnPush /\ ~past.pushed) => a.head = pin.source
==============================================================================
