----------------------------- MODULE MCReconcile -----------------------------
(***************************************************************************)
(* Instances of Reconcile for TLC: the requests each run's callers make.   *)
(***************************************************************************)
EXTENDS ReconcileProps, TLC

NoDesire == [clearSlot |-> Nil, thread |-> Nil, approve |-> FALSE, merge |-> Nil, summary |-> Nil]
NoPre == [arm |-> FALSE, source |-> Nil, target |-> Nil, digest |-> NoDigest]
Pins(s, t, d) == [source |-> s, target |-> t, digest |-> d]

(* buildDesired: a REVIEW or BLOCK wants one thread ...                    *)
Review(s, o, sum) ==
    [desired |-> [NoDesire EXCEPT !.thread = [slot |-> s, occurrence |-> o], !.summary = sum],
     pre |-> NoPre]
(* ... and an APPROVE wants an approval and a merge pinned three ways.     *)
ApproveWith(arm, m, q, sum) ==
    [desired |-> [NoDesire EXCEPT !.approve = TRUE, !.merge = m, !.summary = sum],
     pre |-> [arm |-> arm, source |-> q.source, target |-> q.target, digest |-> q.digest]]
ApprovePinned(arm, s, t, sum) ==
    ApproveWith(arm, Pins(s, t, SyntheticDigest(s, t)), Pins(s, t, SyntheticDigest(s, t)), sum)
Clear(s) == [desired |-> [NoDesire EXCEPT !.clearSlot = s], pre |-> NoPre]

Heads0 == Shas \ {MergedTip}
ThreadRequests == {Review(s, o, Nil) : s \in Slots, o \in Occurrences} \union {Clear(s) : s \in Slots}
SummaryReviews == {Review(s, o, d) : s \in Slots, o \in Occurrences, d \in Decisions}
SummaryApprovals == {ApprovePinned(arm, s, s, d) : arm \in BOOLEAN, s \in Heads0, d \in Decisions}

(* The refusals: a missing pin, pins that disagree, nothing desired.       *)
RefusedRequests ==
    UNION {{ApproveWith(TRUE, Pins(s, s, NoDigest), Pins(s, s, NoDigest), Nil),
            ApproveWith(TRUE, Pins(s, s, SyntheticDigest(s, s)), Pins(s, Nil, NoDigest), Nil)} :
              s \in Heads0}
    \union {[desired |-> NoDesire, pre |-> NoPre]}

SerialRequests == ThreadRequests \union SummaryReviews \union SummaryApprovals
                    \union RefusedRequests

(* Reviews and armed approvals at once, and nobody who clears a slot.      *)
ContestedRequests ==
    {Review(s, o, Nil) : s \in Slots, o \in Occurrences}
    \union {ApprovePinned(TRUE, s, s, Nil) : s \in Heads0}

Symmetry == Permutations(Publishers) \union Permutations(Occurrences)
==============================================================================
