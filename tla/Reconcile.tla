------------------------------ MODULE Reconcile ------------------------------
(***************************************************************************)
(* forge.Reconcile (internal/forge/forge.go) run by several publishers     *)
(* against one merge request.  The forge is the only storage: its bot      *)
(* threads, summary notes, branch heads, approvals and merge.  Every call  *)
(* a publisher makes to the forge port is one atomic step, so the calls of *)
(* different publishers, reviewers, pushes and faults interleave freely.   *)
(*                                                                         *)
(* AtomicMerge = TRUE is the port's contract (and the in-memory fake):     *)
(* MergeCAS compares every pin and merges in one step.  AtomicMerge =      *)
(* FALSE is the GitLab adapter: two reads, then a PUT guarded by the       *)
(* source SHA alone.                                                       *)
(***************************************************************************)
EXTENDS Integers, Sequences, FiniteSets

CONSTANTS
    Publishers,      \* processes that may call Reconcile for this MR
    Slots,           \* finding identities (rule, effect, entryRef)
    Occurrences,     \* digests of the judged head content
    Decisions,       \* digests of emitted decision records
    Shas,            \* commit SHAs
    MergedTip,       \* the target tip the merge itself produces
    Nil,             \* Go's nil pointer / empty string
    Requests,        \* the (DesiredReviewState, Preconditions) pairs callers pass
    Serialized,      \* one publisher per MR at a time (CI resource_group)
    AtomicMerge,     \* see above
    NumericIds,      \* forge ids have a numeric suffix (fake, GitHub) or not (GitLab discussions)
    MaxRuns, MaxFaults, MaxReviews, MaxPushes, MaxCorruptions  \* bounds on the environment

NoDigest == <<>>
Digests == (Shas \X Shas) \union {NoDigest}
Marker == [slot : Slots, occurrence : Occurrences]
DesiredMerge == [source : Shas \union {Nil}, target : Shas \union {Nil}, digest : Digests]
DesiredReviewState == [clearSlot : Slots \union {Nil}, thread : Marker \union {Nil},
                       approve : BOOLEAN, merge : DesiredMerge \union {Nil},
                       summary : Decisions \union {Nil}]
Preconditions == [arm : BOOLEAN, source : Shas \union {Nil}, target : Shas \union {Nil},
                  digest : Digests]

ASSUME RequestsAssumption ==
    Requests \subseteq [desired : DesiredReviewState, pre : Preconditions]
ASSUME SwitchesAssumption ==
    Serialized \in BOOLEAN /\ AtomicMerge \in BOOLEAN /\ NumericIds \in BOOLEAN
ASSUME BoundsAssumption ==
    /\ MaxRuns \in Nat /\ MaxFaults \in Nat /\ MaxReviews \in Nat
    /\ MaxPushes \in Nat /\ MaxCorruptions \in Nat
ASSUME NilAssumption ==
    /\ Nil \notin Slots \union Marker \union DesiredMerge \union Decisions \union Shas
    /\ Nil \notin Requests
    /\ MergedTip \in Shas

-----------------------------------------------------------------------------
(* State.                                                                  *)

VARIABLES
    threads,    \* bot threads in creation order; the index is the forge id
    notes,      \* bot summary notes, likewise
    head,       \* current source head and target-branch tip
    approvals,  \* heads that were current when an approval was recorded
    merges,     \* merges performed (at most one)
    run,        \* per publisher: the invocation under way, or its outcome
    disturbed,  \* history: publishers whose invocation saw somebody else change the forge
    budget      \* what the environment may still do

vars == <<threads, notes, head, approvals, merges, run, disturbed, budget>>
forge == <<threads, notes, head, approvals, merges>>

(* A thread's resolver is what the forge shows a human; the adapter reads  *)
(* only whether it is resolved.  A marker that no longer parses is skipped. *)
Thread == [slot : Slots, occurrence : Occurrences, legible : BOOLEAN,
           resolver : {"nobody", "assent", "reviewer"}]
Note == [decision : Decisions, legible : BOOLEAN]
Heads == [source : Shas, target : Shas]
Merge == [pins : DesiredMerge, arm : BOOLEAN, at : Heads]
Operation == {"thread", "approval", "merge"} \X {"discussion", "note", "mr"} \X Nat

Refusals == {"ErrArmingRefused", "ErrIncompletePreconditions", "ErrSHAMoved"}
Outcomes == {"none", "ok", "error", "ErrUnsupportedDecision", "ErrRescanFailed"} \union Refusals
Steps == {"idle", "listNotes", "upsertLookup", "upsertWrite", "listThreads", "classify",
          "repair", "rescan", "clearList", "clearRescan", "gate", "headsSource",
          "headsTarget", "approve", "cas", "casTarget", "put"}
Modes == {"open", "preserveResolved", "repair"}
Writes == {"note", "thread", "resolve", "approval", "merge"}

Run == [pc : Steps, req : Requests \union {Nil},
        existing : Seq(Thread),      \* the listing reconcileThread works from
        pending : SUBSET Nat,        \* threads still to resolve
        canonical : Nat, mode : Modes, note : Nat, seen : Shas \union {Nil},
        preamble : SUBSET Operation, ops : SUBSET Operation,
        repairs : SUBSET (Nat \X Nat),
        writes : SUBSET Writes,      \* history: what this invocation changed
        outcome : Outcomes]

IdleRun == [pc |-> "idle", req |-> Nil, existing |-> <<>>, pending |-> {}, canonical |-> 0,
            mode |-> "open", note |-> 0, seen |-> Nil, preamble |-> {}, ops |-> {},
            repairs |-> {}, writes |-> {}, outcome |-> "none"]

Init ==
    /\ threads = <<>> /\ notes = <<>> /\ approvals = {} /\ merges = <<>>
    /\ head \in {h \in Heads : h.source # MergedTip /\ h.target # MergedTip}
    /\ run = [p \in Publishers |-> IdleRun]
    /\ disturbed = {}
    /\ budget = [runs |-> MaxRuns, faults |-> MaxFaults, reviews |-> MaxReviews,
                 pushes |-> MaxPushes, corruptions |-> MaxCorruptions]

-----------------------------------------------------------------------------
(* Helpers.                                                                *)

Merged == merges # <<>>
Resolved(t) == t.resolver # "nobody"
SyntheticDigest(s, t) == <<s, t>>
MaxInt == 2147483647    \* above every forge id of a run

(* What ListBotThreads returns of a forge state: the ids whose marker parses. *)
Listed(ts) == {i \in DOMAIN ts : ts[i].legible}
SameKey(t, m) == t.slot = m.slot /\ t.occurrence = m.occurrence
StaleOpen(ts, m) ==
    {i \in Listed(ts) : ts[i].slot = m.slot /\ ts[i].occurrence # m.occurrence /\ ~Resolved(ts[i])}
(* Defect: only open threads occupy the key, so a resolved one is re-posted. *)
OpenThreadsOnly(ts, m) == {i \in Listed(ts) : SameKey(ts[i], m) /\ ~Resolved(ts[i])}

Occupants(ts, m) == {i \in Listed(ts) : SameKey(ts[i], m)}
OpenOccupants(ts, m) == {i \in Occupants(ts, m) : ~Resolved(ts[i])}
OpenInSlot(ts, s) == {i \in Listed(ts) : ts[i].slot = s /\ ~Resolved(ts[i])}

IsSingleton(S) == \E x \in S : S = {x}
HasDuplicates(S) == \E x, y \in S : x # y

ForgeIDNum(i) == IF NumericIds THEN i ELSE MaxInt

(* Defect: first seen wins, in whatever order the listing returns.         *)
FirstSeen(S) == S

Canonicals(S) == {c \in S : \A t \in S : ForgeIDNum(c) <= ForgeIDNum(t)}

VerifyThreadRescan(ts, m, mode) ==
    /\ StaleOpen(ts, m) = {}
    /\ IF mode = "preserveResolved"
         THEN IsSingleton(Occupants(ts, m)) /\ OpenOccupants(ts, m) = {}
         ELSE IsSingleton(OpenOccupants(ts, m))

ReconcilePathOf(d) ==
    CASE d.clearSlot # Nil          -> "clearList"
      [] d.clearSlot = Nil /\ d.thread # Nil -> "listThreads"
      [] d.clearSlot = Nil /\ d.thread = Nil /\ d.approve /\ d.merge # Nil -> "gate"
      [] OTHER                      -> "unsupported"

CompleteForMerge(pre) == pre.source # Nil /\ pre.target # Nil /\ pre.digest # NoDigest
SamePins(m, pre) == m.source = pre.source /\ m.target = pre.target /\ m.digest = pre.digest

Desired(p) == run[p].req.desired
Pre(p) == run[p].req.pre

(* Reconcile returned: errors carry an empty receipt, and a receipt that    *)
(* has a summary preamble is rebuilt from its operations alone.             *)
Ended(r, outcome) == [r EXCEPT !.pc = "idle", !.outcome = outcome, !.ops = {}, !.repairs = {},
                               !.preamble = {}, !.existing = <<>>, !.pending = {}]
(* Defect: the summary operation is left out of the returned receipt.      *)
ReceiptWithoutPreamble(r) ==
    [r EXCEPT !.pc = "idle", !.outcome = "ok", !.preamble = {}, !.existing = <<>>, !.pending = {}]

Succeeded(r) == [r EXCEPT !.pc = "idle", !.outcome = "ok", !.ops = r.preamble \union r.ops,
                          !.repairs = IF r.preamble = {} THEN r.repairs ELSE {},
                          !.preamble = {}, !.existing = <<>>, !.pending = {}]

Set(p, r) == run' = [run EXCEPT ![p] = r] /\ UNCHANGED budget
Wrote(p, kind) == [run[p] EXCEPT !.writes = @ \union {kind}]
Spend(what) == budget[what] > 0 /\ budget' = [budget EXCEPT ![what] = @ - 1]

(* A write was applied.  Either its response arrives and the publisher goes *)
(* on as `next`, or the response is lost and the call returns an error:     *)
(* writes are never retried.                                                *)
Respond(p, next) ==
    \/ Set(p, next)
    \/ Spend("faults") /\ run' = [run EXCEPT ![p] = Ended(next, "error")]

Disturb(p) == disturbed' = disturbed \union (Publishers \ {p})
ResolveAt(ts, i) ==
    [ts EXCEPT ![i].resolver = IF @ = "nobody" THEN "assent" ELSE @]

-----------------------------------------------------------------------------
(* Reconcile: entry and summary preamble.                                  *)

(* The call of Reconcile: an unsupported desire is refused before the      *)
(* summary preamble, everything else starts with it if there is a summary. *)
Enter(p, req) ==
    LET path == ReconcilePathOf(req.desired)
        r == [IdleRun EXCEPT !.req = req]
    IN /\ run' = [run EXCEPT ![p] =
              IF path = "unsupported" THEN Ended(r, "ErrUnsupportedDecision")
              ELSE [r EXCEPT !.pc = IF req.desired.summary # Nil THEN "listNotes" ELSE path]]
       /\ disturbed' = disturbed \ {p}
       /\ UNCHANGED forge

Begin(p, req) ==
    /\ run[p].pc = "idle"
    /\ Serialized => \A q \in Publishers : run[q].pc = "idle"
    /\ Spend("runs")
    /\ Enter(p, req)

(* reconcileSummaryPreamble lists the notes and discards the result.       *)
ListBotNotes(p) ==
    /\ run[p].pc = "listNotes"
    /\ Set(p, [run[p] EXCEPT !.pc = "upsertLookup"])
    /\ UNCHANGED <<forge, disturbed>>

(* UpsertComment lists again and takes the first summary note it meets.    *)
UpsertLookup(p) ==
    LET found == {i \in DOMAIN notes : notes[i].legible}
    IN /\ run[p].pc = "upsertLookup"
       /\ \E n \in IF found = {} THEN {0} ELSE found :
             Set(p, [run[p] EXCEPT !.pc = "upsertWrite", !.note = n])
       /\ UNCHANGED <<forge, disturbed>>

UpsertWrite(p) ==
    LET new == [decision |-> Desired(p).summary, legible |-> TRUE]
        n == IF run[p].note = 0 THEN Len(notes) + 1 ELSE run[p].note
    IN /\ run[p].pc = "upsertWrite"
       /\ notes' = IF run[p].note = 0 THEN Append(notes, new) ELSE [notes EXCEPT ![n] = new]
       /\ Respond(p, [Wrote(p, "note") EXCEPT !.pc = ReconcilePathOf(Desired(p)),
                                              !.preamble = {<<"thread", "note", n>>}])
       /\ Disturb(p)
       /\ UNCHANGED <<threads, head, approvals, merges>>

-----------------------------------------------------------------------------
(* reconcileThread: supersede, then repair, reuse or create, then rescan.  *)

(* Defect: stale occurrences are left open.                                *)
ForgetStale(p) ==
    /\ run[p].pc = "listThreads"
    /\ Set(p, [run[p] EXCEPT !.pc = "classify", !.existing = threads, !.pending = {}])
    /\ UNCHANGED <<forge, disturbed>>

(* Defect: a key that is already occupied counts as done.                  *)
ReuseBeforeSupersede(p) ==
    LET m == Desired(p).thread
    IN /\ run[p].pc = "listThreads"
       /\ \/ \E i \in Occupants(threads, m) :
                Set(p, Succeeded([run[p] EXCEPT !.ops = {<<"thread", "discussion", i>>}]))
          \/ /\ Occupants(threads, m) = {}
             /\ Set(p, [run[p] EXCEPT !.pc = "classify", !.existing = threads,
                                      !.pending = StaleOpen(threads, m)])
       /\ UNCHANGED <<forge, disturbed>>

ListBotThreads(p) ==
    /\ run[p].pc = "listThreads"
    /\ Set(p, [run[p] EXCEPT !.pc = "classify", !.existing = threads,
                             !.pending = StaleOpen(threads, Desired(p).thread)])
    /\ UNCHANGED <<forge, disturbed>>

Supersede(p) ==
    /\ run[p].pc = "classify"
    /\ \E i \in run[p].pending :
          /\ threads' = ResolveAt(threads, i)
          /\ Respond(p, [Wrote(p, "resolve") EXCEPT !.pending = @ \ {i}])
    /\ Disturb(p)
    /\ UNCHANGED <<notes, head, approvals, merges>>

StartRepair(p) ==
    LET occupants == Occupants(run[p].existing, Desired(p).thread)
    IN /\ run[p].pc = "classify" /\ run[p].pending = {}
       /\ HasDuplicates(occupants)
       /\ \E c \in Canonicals(occupants) :
             Set(p, [run[p] EXCEPT !.pc = "repair", !.canonical = c, !.mode = "repair",
                                   !.pending = occupants \ {c}])
       /\ UNCHANGED <<forge, disturbed>>

(* Defect: the repair loop does not move on to the next duplicate.         *)
RepairSameForever(p) ==
    /\ run[p].pc = "repair"
    /\ \E i \in run[p].pending :
          /\ threads' = ResolveAt(threads, i)
          /\ Respond(p, [Wrote(p, "resolve") EXCEPT
                            !.repairs = @ \union {<<i, run[p].canonical>>}])
    /\ Disturb(p)
    /\ UNCHANGED <<notes, head, approvals, merges>>

RepairDuplicate(p) ==
    /\ run[p].pc = "repair"
    /\ \E i \in run[p].pending :
          /\ threads' = ResolveAt(threads, i)
          /\ Respond(p, [Wrote(p, "resolve") EXCEPT
                            !.pending = @ \ {i},
                            !.repairs = @ \union {<<i, run[p].canonical>>}])
    /\ Disturb(p)
    /\ UNCHANGED <<notes, head, approvals, merges>>

EndRepair(p) ==
    /\ run[p].pc = "repair" /\ run[p].pending = {}
    /\ Set(p, [run[p] EXCEPT !.pc = "rescan",
                             !.ops = {<<"thread", "discussion", run[p].canonical>>}])
    /\ UNCHANGED <<forge, disturbed>>

ReuseThread(p) ==
    LET occupants == Occupants(run[p].existing, Desired(p).thread)
    IN /\ run[p].pc = "classify" /\ run[p].pending = {}
       /\ \E i \in occupants :
             /\ occupants = {i}
             /\ Set(p, [run[p] EXCEPT !.pc = "rescan",
                          !.mode = IF Resolved(run[p].existing[i]) THEN "preserveResolved" ELSE "open",
                          !.ops = {<<"thread", "discussion", i>>}])
       /\ UNCHANGED <<forge, disturbed>>

(* Defect: the new thread's id is not read from the response.              *)
CreateWithoutId(p) ==
    LET m == Desired(p).thread
    IN /\ run[p].pc = "classify" /\ run[p].pending = {}
       /\ Occupants(run[p].existing, m) = {}
       /\ threads' = Append(threads, [slot |-> m.slot, occurrence |-> m.occurrence,
                                      legible |-> TRUE, resolver |-> "nobody"])
       /\ Respond(p, [Wrote(p, "thread") EXCEPT !.pc = "rescan", !.mode = "open",
                         !.ops = {<<"thread", "discussion", Nil>>}])
       /\ Disturb(p)
       /\ UNCHANGED <<notes, head, approvals, merges>>

CreateThread(p) ==
    LET m == Desired(p).thread
    IN /\ run[p].pc = "classify" /\ run[p].pending = {}
       /\ Occupants(run[p].existing, m) = {}
       /\ threads' = Append(threads, [slot |-> m.slot, occurrence |-> m.occurrence,
                                      legible |-> TRUE, resolver |-> "nobody"])
       /\ Respond(p, [Wrote(p, "thread") EXCEPT !.pc = "rescan", !.mode = "open",
                         !.ops = {<<"thread", "discussion", Len(threads) + 1>>}])
       /\ Disturb(p)
       /\ UNCHANGED <<notes, head, approvals, merges>>

RescanThreadDesired(p) ==
    /\ run[p].pc = "rescan"
    /\ Set(p, IF VerifyThreadRescan(threads, Desired(p).thread, run[p].mode)
                THEN Succeeded(run[p]) ELSE Ended(run[p], "ErrRescanFailed"))
    /\ UNCHANGED <<forge, disturbed>>

-----------------------------------------------------------------------------
(* reconcileClearSlot.                                                     *)

ClearList(p) ==
    LET s == Desired(p).clearSlot
        open == OpenInSlot(threads, s)
        inSlot == {i \in Listed(threads) : threads[i].slot = s}
    IN /\ run[p].pc = "clearList"
       /\ \/ /\ open = {} /\ inSlot = {}
             /\ Set(p, Ended(run[p], "ErrUnsupportedDecision"))
          \/ /\ open = {}
             /\ \E i \in inSlot :
                   Set(p, [run[p] EXCEPT !.pc = "clearRescan",
                                         !.ops = {<<"thread", "discussion", i>>}])
          \/ /\ IsSingleton(open)
             /\ Set(p, [run[p] EXCEPT !.pc = "clearRescan", !.pending = open])
          \/ /\ HasDuplicates(open)
             /\ Set(p, Ended(run[p], "error"))
       /\ UNCHANGED <<forge, disturbed>>

ClearResolve(p) ==
    /\ run[p].pc = "clearRescan"
    /\ \E i \in run[p].pending :
          /\ threads' = ResolveAt(threads, i)
          /\ Respond(p, [Wrote(p, "resolve") EXCEPT !.pending = {},
                            !.ops = {<<"thread", "discussion", i>>}])
    /\ Disturb(p)
    /\ UNCHANGED <<notes, head, approvals, merges>>

RescanClearSlot(p) ==
    /\ run[p].pc = "clearRescan" /\ run[p].pending = {}
    /\ Set(p, IF OpenInSlot(threads, Desired(p).clearSlot) = {}
                THEN Succeeded(run[p]) ELSE Ended(run[p], "ErrRescanFailed"))
    /\ UNCHANGED <<forge, disturbed>>

-----------------------------------------------------------------------------
(* reconcileApproveMerge.                                                  *)

ArmingGate(p) ==
    /\ run[p].pc = "gate"
    /\ Set(p, CASE ~Pre(p).arm -> Ended(run[p], "ErrArmingRefused")
                [] Pre(p).arm /\ ~CompleteForMerge(Pre(p)) ->
                       Ended(run[p], "ErrIncompletePreconditions")
                [] Pre(p).arm /\ CompleteForMerge(Pre(p)) /\ ~SamePins(Desired(p).merge, Pre(p)) ->
                       Ended(run[p], "ErrIncompletePreconditions")
                [] OTHER -> [run[p] EXCEPT !.pc = "headsSource"])
    /\ UNCHANGED <<forge, disturbed>>

(* CurrentHeads is two reads: the MR (source), then the target branch tip.  *)
ReadSource(p) ==
    /\ run[p].pc = "headsSource"
    /\ Set(p, [run[p] EXCEPT !.pc = "headsTarget", !.seen = head.source])
    /\ UNCHANGED <<forge, disturbed>>

(* Defect: the approval is recorded without looking at the heads.          *)
NoShaGuard(p) ==
    /\ run[p].pc = "headsTarget"
    /\ Set(p, [run[p] EXCEPT !.pc = "approve"])
    /\ UNCHANGED <<forge, disturbed>>

ShaGuard(p) ==
    LET m == Desired(p).merge
    IN /\ run[p].pc = "headsTarget"
       /\ Set(p, IF /\ run[p].seen = m.source /\ head.target = m.target
                    /\ SyntheticDigest(run[p].seen, head.target) = m.digest
                   THEN [run[p] EXCEPT !.pc = "approve"]
                   ELSE Ended(run[p], "ErrSHAMoved"))
       /\ UNCHANGED <<forge, disturbed>>

Approve(p) ==
    /\ run[p].pc = "approve"
    /\ approvals' = approvals \union {head}
    /\ Respond(p, [Wrote(p, "approval") EXCEPT !.pc = "cas", !.ops = {<<"approval", "mr", 0>>}])
    /\ Disturb(p)
    /\ UNCHANGED <<threads, notes, head, merges>>

(* Defect: a lost response to the merge is taken for a refused merge.      *)
LostMergeIsRefused(p) ==
    LET done == Succeeded([Wrote(p, "merge") EXCEPT !.ops = @ \union {<<"merge", "mr", 0>>}])
    IN /\ merges' = Append(merges, [pins |-> Desired(p).merge, arm |-> Pre(p).arm, at |-> head])
       /\ head' = [head EXCEPT !.target = MergedTip]
       /\ \/ Set(p, done)
          \/ Spend("faults") /\ run' = [run EXCEPT ![p] = Ended(done, "ErrSHAMoved")]
       /\ Disturb(p)
       /\ UNCHANGED <<threads, notes, approvals>>

(* The merge itself: the target branch moves to the merge commit.          *)
PerformMerge(p) ==
    /\ merges' = Append(merges, [pins |-> Desired(p).merge, arm |-> Pre(p).arm, at |-> head])
    /\ head' = [head EXCEPT !.target = MergedTip]
    /\ Respond(p, Succeeded([Wrote(p, "merge") EXCEPT !.ops = @ \union {<<"merge", "mr", 0>>}]))
    /\ Disturb(p)
    /\ UNCHANGED <<threads, notes, approvals>>

RefuseMerge(p, outcome) ==
    /\ Set(p, Ended(run[p], outcome))
    /\ UNCHANGED <<forge, disturbed>>

(* fake.MergeCAS: the port's contract, every pin compared in the merging step. *)
MergeCASAtomic(p) ==
    LET m == Desired(p).merge
        holds == /\ m.source = head.source /\ m.target = head.target
                 /\ m.digest = SyntheticDigest(head.source, head.target)
    IN /\ AtomicMerge /\ run[p].pc = "cas"
       /\ \/ Merged /\ RefuseMerge(p, "error")
          \/ ~Merged /\ ~holds /\ RefuseMerge(p, "ErrSHAMoved")
          \/ ~Merged /\ holds /\ PerformMerge(p)

(* gitlab.MergeCAS: re-read the heads, compare the target, then the source. *)
CasReadSource(p) ==
    /\ ~AtomicMerge /\ run[p].pc = "cas"
    /\ Set(p, [run[p] EXCEPT !.pc = "casTarget", !.seen = head.source])
    /\ UNCHANGED <<forge, disturbed>>

CasGuard(p) ==
    LET m == Desired(p).merge
    IN /\ run[p].pc = "casTarget"
       /\ Set(p, IF head.target = m.target /\ run[p].seen = m.source
                   THEN [run[p] EXCEPT !.pc = "put"]
                   ELSE Ended(run[p], "ErrSHAMoved"))
       /\ UNCHANGED <<forge, disturbed>>

(* Defect: the PUT carries no sha parameter.                               *)
PutWithoutSha(p) ==
    LET blocked == Merged \/ \E i \in DOMAIN threads : ~Resolved(threads[i])
    IN /\ run[p].pc = "put"
       /\ \/ blocked /\ RefuseMerge(p, "error")
          \/ ~blocked /\ PerformMerge(p)

(* PUT merge?sha=: GitLab compares the source head only.  An armed project  *)
(* blocks the merge while a discussion is open (405, a plain error).        *)
MergePut(p) ==
    LET blocked == Merged \/ \E i \in DOMAIN threads : ~Resolved(threads[i])
        moved == Desired(p).merge.source # head.source
    IN /\ run[p].pc = "put"
       /\ \/ blocked /\ RefuseMerge(p, "error")
          \/ ~blocked /\ moved /\ RefuseMerge(p, "ErrSHAMoved")
          \/ ~blocked /\ ~moved /\ PerformMerge(p)

(* A call fails after its retries without effect, or the process dies:      *)
(* nothing of the invocation runs after either.                             *)
Fail(p) ==
    /\ run[p].pc # "idle"
    /\ Spend("faults")
    /\ run' = [run EXCEPT ![p] = Ended(run[p], "error")]
    /\ UNCHANGED <<forge, disturbed>>

-----------------------------------------------------------------------------
(* The rest of the world.                                                  *)

DisturbAll == disturbed' = Publishers

ReviewerResolves ==
    /\ Spend("reviews")
    /\ \E i \in DOMAIN threads :
          /\ ~Resolved(threads[i])
          /\ threads' = [threads EXCEPT ![i].resolver = "reviewer"]
    /\ DisturbAll
    /\ UNCHANGED <<notes, head, approvals, merges, run>>

ReviewerReopens ==
    /\ Spend("reviews")
    /\ \E i \in DOMAIN threads :
          /\ Resolved(threads[i])
          /\ threads' = [threads EXCEPT ![i].resolver = "nobody"]
    /\ DisturbAll
    /\ UNCHANGED <<notes, head, approvals, merges, run>>

(* Somebody edits a bot artifact so that its marker no longer parses.      *)
CorruptMarker ==
    /\ Spend("corruptions")
    /\ \/ /\ \E i \in Listed(threads) : threads' = [threads EXCEPT ![i].legible = FALSE]
          /\ UNCHANGED notes
       \/ /\ \E i \in DOMAIN notes : notes[i].legible /\ notes' = [notes EXCEPT ![i].legible = FALSE]
          /\ UNCHANGED threads
    /\ DisturbAll
    /\ UNCHANGED <<head, approvals, merges, run>>

Push ==
    /\ Spend("pushes") /\ ~Merged
    /\ \E s \in Shas \ {MergedTip} :
          \/ s # head.source /\ head' = [head EXCEPT !.source = s]
          \/ s # head.target /\ head' = [head EXCEPT !.target = s]
    /\ DisturbAll
    /\ UNCHANGED <<threads, notes, approvals, merges, run>>

Step(p) ==
    \/ ListBotNotes(p) \/ UpsertLookup(p) \/ UpsertWrite(p)
    \/ ListBotThreads(p) \/ Supersede(p) \/ StartRepair(p) \/ RepairDuplicate(p) \/ EndRepair(p)
    \/ ReuseThread(p) \/ CreateThread(p) \/ RescanThreadDesired(p)
    \/ ClearList(p) \/ ClearResolve(p) \/ RescanClearSlot(p)
    \/ ArmingGate(p) \/ ReadSource(p) \/ ShaGuard(p) \/ Approve(p)
    \/ MergeCASAtomic(p) \/ CasReadSource(p) \/ CasGuard(p) \/ MergePut(p)

Environment == ReviewerResolves \/ ReviewerReopens \/ CorruptMarker \/ Push

Next ==
    \/ \E p \in Publishers : Step(p) \/ Fail(p) \/ \E req \in Requests : Begin(p, req)
    \/ Environment

Spec == Init /\ [][Next]_vars

(* A started process keeps running: every call ends by its request timeout. *)
FairSpec == Spec /\ \A p \in Publishers : WF_vars(Step(p))
==============================================================================
