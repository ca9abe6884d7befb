------------------------------ MODULE RunProofs ------------------------------
(***************************************************************************)
(* Theorems about publication and about the runs that publish, for any     *)
(* number of publishers, slots, commits and any budget of faults, pushes   *)
(* and reviews.  Three parts: forge.Reconcile's gate and its writes; what  *)
(* a publisher's success means and what racing publishers can and cannot   *)
(* do to each other's threads; and `assent run` as a whole, which writes   *)
(* nothing without a record, writes what its decision asks for and         *)
(* implements the merge gate.                                              *)
(***************************************************************************)
EXTENDS ReconcileProps, RunProps, TLAPS

-----------------------------------------------------------------------------
(* Part 1.  forge.Reconcile: the gate and the writes.                      *)

SummarySteps == {"listNotes", "upsertLookup", "upsertWrite"}
ThreadSteps == {"listThreads", "classify", "repair", "rescan"}
ClearSteps == {"clearList", "clearRescan"}
CasSteps == {"cas", "casTarget", "put"}
PinnedSteps == {"headsSource", "headsTarget", "approve"} \union CasSteps

(* What an invocation's position says about its request and its writes.    *)
RunOK(r) ==
    /\ r.pc # "idle" => r.req # Nil /\ r.outcome = "none"
    /\ r.pc \in SummarySteps =>
          r.req.desired.summary # Nil /\ ReconcilePathOf(r.req.desired) # "unsupported"
    /\ r.pc \in ThreadSteps => r.req.desired.thread # Nil
    /\ r.pc \in ClearSteps => r.req.desired.clearSlot # Nil
    /\ r.pc \in PinnedSteps \union {"gate"} => r.req.desired.merge # Nil
    /\ r.pc \in PinnedSteps => /\ r.req.pre.arm /\ CompleteForMerge(r.req.pre)
                               /\ SamePins(r.req.desired.merge, r.req.pre)
    /\ r.pc \in {"casTarget", "put"} => ~AtomicMerge
    /\ "merge" \in r.writes => r.pc = "idle" /\ r.outcome \in {"ok", "error"}
    /\ "approval" \in r.writes =>
          \/ r.pc \in CasSteps
          \/ r.pc = "idle" /\ r.outcome \in {"ok", "error", "ErrSHAMoved"}

(* The inductive invariant.                                                *)
Inv == TypeOK /\ \A p \in Publishers : RunOK(run[p])

(* What is true of merges, given Inv.                                      *)
MergeFacts == MergedSourceWasEvaluated /\ (AtomicMerge => MergedTargetWasEvaluated)

-----------------------------------------------------------------------------
(* Records.                                                                *)

(* The request of an invocation is well formed.                            *)
LEMMA RequestType ==
    ASSUME NEW r \in Run, r.req # Nil
    PROVE  r.req \in Requests /\ r.req.desired \in DesiredReviewState /\ r.req.pre \in Preconditions
BY RequestsAssumption DEF Run

(* Every path of an accepted desire has what its steps read.               *)
LEMMA PathNeeds ==
    ASSUME NEW d \in DesiredReviewState
    PROVE  /\ ReconcilePathOf(d) \in {"clearList", "listThreads", "gate", "unsupported"}
           /\ ReconcilePathOf(d) = "clearList" => d.clearSlot # Nil
           /\ ReconcilePathOf(d) = "listThreads" => d.thread # Nil
           /\ ReconcilePathOf(d) = "gate" => d.merge # Nil
BY DEF ReconcilePathOf

(* An invocation that returns an error keeps Inv ...                       *)
LEMMA EndedOK ==
    ASSUME NEW r \in Run, NEW outcome \in Outcomes,
           "merge" \in r.writes => outcome = "error",
           "approval" \in r.writes => outcome \in {"error", "ErrSHAMoved"}
    PROVE  Ended(r, outcome) \in Run /\ RunOK(Ended(r, outcome))
<1> DEFINE e == Ended(r, outcome)
<1>1. /\ e.pc = "idle" /\ e.outcome = outcome /\ e.writes = r.writes
  BY DEF Ended, Run
<1>2. <<>> \in Seq(Thread) /\ "idle" \in Steps
  BY DEF Steps
<1>3. e \in Run
  BY <1>2 DEF Ended, Run
<1> QED
  BY <1>1, <1>3 DEF RunOK, SummarySteps, ThreadSteps, ClearSteps, PinnedSteps, CasSteps

(* ... and so does one that returns success.                               *)
LEMMA SucceededOK ==
    ASSUME NEW r \in Run
    PROVE  Succeeded(r) \in Run /\ RunOK(Succeeded(r))
<1> DEFINE e == Succeeded(r)
<1>1. /\ e.pc = "idle" /\ e.outcome = "ok" /\ e.writes = r.writes
  BY DEF Succeeded, Run
<1>2. <<>> \in Seq(Thread) /\ "idle" \in Steps /\ "ok" \in Outcomes
  BY DEF Steps, Outcomes
<1>3. e \in Run
  BY <1>2 DEF Succeeded, Run
<1> QED
  BY <1>1, <1>3 DEF RunOK, SummarySteps, ThreadSteps, ClearSteps, PinnedSteps, CasSteps

(* Noting a write in the history keeps the record well formed.             *)
LEMMA WroteType ==
    ASSUME run \in [Publishers -> Run], NEW p \in Publishers, NEW k \in Writes
    PROVE  Wrote(p, k) \in Run
<1> DEFINE r == run[p]
           w == r.writes \union {k}
<1>1. r \in Run
  OBVIOUS
<1>2. w \in SUBSET Writes
  BY <1>1 DEF Run
<1> HIDE DEF w
<1>3. ASSUME NEW s \in Run, NEW v \in SUBSET Writes
      PROVE  [s EXCEPT !.writes = v] \in Run
  BY DEF Run
<1>4. [r EXCEPT !.writes = w] \in Run
  BY <1>1, <1>2, <1>3
<1> QED
  BY <1>4 DEF Wrote, w

(* Storing a good record for one publisher keeps all of them good.         *)
LEMMA SetOK ==
    ASSUME run \in [Publishers -> Run], \A q \in Publishers : RunOK(run[q]),
           NEW p \in Publishers, NEW r \in Run, RunOK(r), run' = [run EXCEPT ![p] = r]
    PROVE  run' \in [Publishers -> Run] /\ \A q \in Publishers : RunOK(run'[q])
<1>1. \A q \in Publishers : run'[q] = IF q = p THEN r ELSE run[q]
  OBVIOUS
<1> QED
  BY <1>1

BudgetType == [runs : Nat, faults : Nat, reviews : Nat, pushes : Nat, corruptions : Nat]

(* Spending from a budget leaves a natural number.                         *)
LEMMA SpendType ==
    ASSUME budget \in BudgetType,
           NEW k \in {"runs", "faults", "reviews", "pushes", "corruptions"}, Spend(k)
    PROVE  budget' \in BudgetType
BY DEF Spend, BudgetType

(* A write's two ends: the publisher goes on, or the response is lost.     *)
LEMMA RespondOK ==
    ASSUME run \in [Publishers -> Run], \A q \in Publishers : RunOK(run[q]), budget \in BudgetType,
           NEW p \in Publishers, NEW next \in Run, RunOK(next), Respond(p, next)
    PROVE  /\ run' \in [Publishers -> Run] /\ \A q \in Publishers : RunOK(run'[q])
           /\ budget' \in BudgetType
<1>1. CASE Set(p, next)
  BY <1>1, SetOK DEF Set
<1>2. CASE Spend("faults") /\ run' = [run EXCEPT ![p] = Ended(next, "error")]
  <2>1. Ended(next, "error") \in Run /\ RunOK(Ended(next, "error"))
    BY EndedOK DEF Outcomes
  <2> QED
    BY <1>2, <2>1, SetOK, SpendType
<1> QED
  BY <1>1, <1>2 DEF Respond

-----------------------------------------------------------------------------
(* Threads and notes.                                                      *)

(* The sets read from a thread listing hold forge ids.                     *)
LEMMA ListingType ==
    ASSUME NEW ts \in Seq(Thread), NEW m, NEW s
    PROVE  /\ StaleOpen(ts, m) \subseteq Nat /\ Occupants(ts, m) \subseteq Nat
           /\ OpenInSlot(ts, s) \subseteq Nat
BY DEF StaleOpen, Occupants, OpenInSlot, Listed

(* Replacing one element keeps the type of a sequence.                     *)
LEMMA ReplaceType ==
    ASSUME NEW S, NEW s \in Seq(S), NEW i, NEW x \in S
    PROVE  [s EXCEPT ![i] = x] \in Seq(S)
<1>1. [s EXCEPT ![i] = x] = [j \in 1..Len(s) |-> IF j = i THEN x ELSE s[j]]
  OBVIOUS
<1>2. \A j \in 1..Len(s) : (IF j = i THEN x ELSE s[j]) \in S
  OBVIOUS
<1>3. [s EXCEPT ![i] = x] \in [1..Len(s) -> S]
  BY <1>1, <1>2
<1> QED
  BY <1>3

(* ResolveThread keeps the listing well formed.                            *)
LEMMA ResolveAtType ==
    ASSUME NEW ts \in Seq(Thread), NEW i
    PROVE  ResolveAt(ts, i) \in Seq(Thread)
<1> DEFINE t == [ts[i] EXCEPT !.resolver = IF @ = "nobody" THEN "assent" ELSE @]
<1>1. CASE i \in DOMAIN ts
  <2>1. ts[i] \in Thread
    BY <1>1
  <2>2. t \in Thread
    BY <2>1 DEF Thread
  <2>3. [ts EXCEPT ![i] = t] \in Seq(Thread)
    BY <2>2, ReplaceType
  <2> QED
    BY <2>3 DEF ResolveAt
<1>2. CASE i \notin DOMAIN ts
  <2>1. [ts EXCEPT ![i] = t] = ts
    BY <1>2
  <2> QED
    BY <2>1 DEF ResolveAt
<1> QED
  BY <1>1, <1>2

-----------------------------------------------------------------------------
(* Steps that only read, and steps that write.                             *)

(* A step that only reads the forge keeps Inv if its new record is good ...*)
LEMMA ReadStep ==
    ASSUME Inv, NEW p \in Publishers, NEW r \in Run, RunOK(r), Set(p, r),
           UNCHANGED <<forge, disturbed>>
    PROVE  Inv'
<1>1. run' \in [Publishers -> Run] /\ \A q \in Publishers : RunOK(run'[q])
  BY SetOK DEF Inv, TypeOK, Set
<1> QED
  BY <1>1 DEF Inv, TypeOK, Set, forge

(* ... and so does a step that writes values of the right types.           *)
LEMMA WriteStep ==
    ASSUME Inv, NEW p \in Publishers, NEW next \in Run, RunOK(next), Respond(p, next), Disturb(p),
           threads' \in Seq(Thread), notes' \in Seq(Note), head' \in Heads,
           approvals' \subseteq Heads, merges' \in Seq(Merge)
    PROVE  Inv'
<1>1. /\ run' \in [Publishers -> Run] /\ \A q \in Publishers : RunOK(run'[q])
      /\ budget' \in BudgetType
  BY RespondOK DEF Inv, TypeOK, BudgetType
<1>2. disturbed' \subseteq Publishers
  BY DEF Inv, TypeOK, Disturb
<1> QED
  BY <1>1, <1>2 DEF Inv, TypeOK, BudgetType

(* The call of Reconcile keeps Inv (forge.go 356-388).                     *)
LEMMA EnterInv ==
    ASSUME Inv, NEW p \in Publishers, NEW req \in Requests, Enter(p, req), budget' \in BudgetType
    PROVE  Inv'
<1> DEFINE path == ReconcilePathOf(req.desired)
           r0 == [IdleRun EXCEPT !.req = req]
           r1 == [r0 EXCEPT !.pc = IF req.desired.summary # Nil THEN "listNotes" ELSE path]
           r == IF path = "unsupported" THEN Ended(r0, "ErrUnsupportedDecision") ELSE r1
<1>1. req.desired \in DesiredReviewState /\ req.pre \in Preconditions
  BY RequestsAssumption
<1>2. path \in Steps \union {"unsupported"}
  BY <1>1, PathNeeds DEF Steps
<1>3. r0 \in Run /\ r0.req = req /\ r0.outcome = "none" /\ r0.writes = {}
  <2>1. <<>> \in Seq(Thread)
    OBVIOUS
  <2> QED
    BY <2>1 DEF IdleRun, Run, Steps, Modes, Outcomes
<1>4. req # Nil
  BY NilAssumption, RequestsAssumption
<1> HIDE DEF r0, path
<1>5. ASSUME path = "unsupported" PROVE r \in Run /\ RunOK(r)
  BY <1>3, <1>5, EndedOK DEF Outcomes
<1>6. ASSUME path # "unsupported" PROVE r \in Run /\ RunOK(r)
  <2>1. r1 \in Run /\ r1.req = req /\ r1.outcome = "none" /\ r1.writes = {}
    BY <1>2, <1>3, <1>6 DEF Run, Steps
  <2>2. r1.pc = IF req.desired.summary # Nil THEN "listNotes" ELSE path
    BY <1>3 DEF Run
  <2>3. RunOK(r1)
    BY <1>1, <1>4, <1>6, <2>1, <2>2, PathNeeds
       DEF path, RunOK, SummarySteps, ThreadSteps, ClearSteps, PinnedSteps, CasSteps
  <2> QED
    BY <1>6, <2>1, <2>3
<1>7. r \in Run /\ RunOK(r)
  BY <1>5, <1>6
<1>8. run' = [run EXCEPT ![p] = r]
  BY DEF Enter, r0, path
<1>9. run' \in [Publishers -> Run] /\ \A q \in Publishers : RunOK(run'[q])
  BY <1>7, <1>8, SetOK DEF Inv, TypeOK
<1> QED
  BY <1>9 DEF Enter, Inv, TypeOK, BudgetType, forge

(* Starting an invocation keeps Inv.                                       *)
LEMMA BeginInv ==
    ASSUME Inv, NEW p \in Publishers, NEW req \in Requests, Begin(p, req)
    PROVE  Inv'
<1>1. budget' \in BudgetType
  BY SpendType DEF Begin, Inv, TypeOK, BudgetType
<1> QED
  BY <1>1, EnterInv DEF Begin

(* Inv, for one publisher.                                                 *)
LEMMA Current ==
    ASSUME Inv, NEW p \in Publishers
    PROVE  run[p] \in Run /\ RunOK(run[p])
BY DEF Inv, TypeOK

(* An invocation under way has a request and no outcome yet.               *)
LEMMA CurrentRequest ==
    ASSUME Inv, NEW p \in Publishers, run[p].pc # "idle"
    PROVE  /\ run[p].req \in Requests /\ Desired(p) \in DesiredReviewState
           /\ Pre(p) \in Preconditions /\ run[p].outcome = "none"
<1>1. run[p].req # Nil /\ run[p].outcome = "none"
  BY Current DEF RunOK
<1> QED
  BY <1>1, Current, RequestType DEF Desired, Pre

-----------------------------------------------------------------------------
(* The summary preamble.                                                   *)

(* Listing the notes keeps Inv (forge.go 436-444).                         *)
LEMMA ListBotNotesInv ==
    ASSUME Inv, NEW p \in Publishers, ListBotNotes(p)
    PROVE  Inv'
<1> DEFINE c == run[p]
           r == [c EXCEPT !.pc = "upsertLookup"]
<1>1. c \in Run /\ RunOK(c) /\ c.pc = "listNotes"
  BY Current DEF ListBotNotes
<1> HIDE DEF c
<1>2. /\ r \in Run /\ r.pc = "upsertLookup" /\ r.req = c.req /\ r.outcome = c.outcome
      /\ r.writes = c.writes
  BY <1>1 DEF Run, Steps
<1>3. RunOK(r)
  BY <1>1, <1>2 DEF RunOK, SummarySteps, ThreadSteps, ClearSteps, PinnedSteps, CasSteps
<1> QED
  BY <1>2, <1>3, ReadStep DEF ListBotNotes, c

(* Looking for the summary note keeps Inv (gitlab.go 817-826).             *)
LEMMA UpsertLookupInv ==
    ASSUME Inv, NEW p \in Publishers, UpsertLookup(p)
    PROVE  Inv'
<1> DEFINE c == run[p]
           found == {i \in DOMAIN notes : notes[i].legible}
           r(n) == [c EXCEPT !.pc = "upsertWrite", !.note = n]
<1>1. c \in Run /\ RunOK(c) /\ c.pc = "upsertLookup"
  BY Current DEF UpsertLookup
<1>2. PICK n \in IF found = {} THEN {0} ELSE found : Set(p, r(n))
  BY DEF UpsertLookup
<1>3. n \in Nat
  BY <1>2 DEF Inv, TypeOK
<1>4. UNCHANGED <<forge, disturbed>>
  BY DEF UpsertLookup
<1> HIDE DEF c
<1>5. /\ r(n) \in Run /\ r(n).pc = "upsertWrite" /\ r(n).req = c.req
      /\ r(n).outcome = c.outcome /\ r(n).writes = c.writes
  BY <1>1, <1>3 DEF Run, Steps
<1>6. RunOK(r(n))
  BY <1>1, <1>5 DEF RunOK, SummarySteps, ThreadSteps, ClearSteps, PinnedSteps, CasSteps
<1> HIDE DEF r
<1> QED
  BY <1>2, <1>4, <1>5, <1>6, ReadStep

(* Writing the summary note keeps Inv (forge.go 446-460).                  *)
LEMMA UpsertWriteInv ==
    ASSUME Inv, NEW p \in Publishers, UpsertWrite(p)
    PROVE  Inv'
<1> DEFINE c == run[p]
           w == Wrote(p, "note")
           new == [decision |-> Desired(p).summary, legible |-> TRUE]
           n == IF c.note = 0 THEN Len(notes) + 1 ELSE c.note
           path == ReconcilePathOf(Desired(p))
           r == [w EXCEPT !.pc = path, !.preamble = {<<"thread", "note", n>>}]
<1>1. c \in Run /\ RunOK(c) /\ c.pc = "upsertWrite"
  BY Current DEF UpsertWrite
<1>2. /\ Desired(p) \in DesiredReviewState /\ Desired(p).summary # Nil
      /\ path # "unsupported" /\ c.outcome = "none" /\ c.req # Nil /\ c.req.desired = Desired(p)
  BY <1>1, CurrentRequest DEF RunOK, SummarySteps, Desired
<1>3. w \in Run /\ w.req = c.req /\ w.outcome = c.outcome /\ w.writes = c.writes \union {"note"}
  BY <1>1, WroteType DEF Wrote, Run, Inv, TypeOK, Writes
<1>4. path \in {"clearList", "listThreads", "gate"}
  BY <1>2, PathNeeds
<1>5. {<<"thread", "note", n>>} \in SUBSET Operation
  BY <1>1 DEF Run, Operation, Inv, TypeOK
<1>6. Respond(p, r) /\ Disturb(p) /\ UNCHANGED <<threads, head, approvals, merges>>
  BY DEF UpsertWrite
<1>7. new \in Note
  BY <1>2 DEF Note, DesiredReviewState
<1>8. notes' \in Seq(Note)
  <2>1. notes \in Seq(Note)
    BY DEF Inv, TypeOK
  <2>2. notes' = IF c.note = 0 THEN Append(notes, new) ELSE [notes EXCEPT ![n] = new]
    BY DEF UpsertWrite
  <2> HIDE DEF new, n
  <2>3. [notes EXCEPT ![n] = new] \in Seq(Note) /\ Append(notes, new) \in Seq(Note)
    BY <1>7, <2>1, ReplaceType
  <2> QED
    BY <2>2, <2>3
<1> HIDE DEF w, n, new
<1>9. r \in Run /\ r.pc = path /\ r.req = c.req /\ r.outcome = c.outcome
      /\ r.writes = c.writes \union {"note"}
  <2> HIDE DEF path, c
  <2> QED
    BY <1>3, <1>4, <1>5 DEF Run, Steps
<1>10. RunOK(r)
  <2> HIDE DEF r, c
  <2>1. "merge" \notin c.writes /\ "approval" \notin c.writes
    BY <1>1 DEF RunOK, CasSteps
  <2> QED
    BY <1>2, <1>4, <1>9, <2>1, PathNeeds
       DEF RunOK, SummarySteps, ThreadSteps, ClearSteps, PinnedSteps, CasSteps
<1> HIDE DEF r
<1> QED
  BY <1>6, <1>8, <1>9, <1>10, WriteStep DEF Inv, TypeOK

-----------------------------------------------------------------------------
(* reconcileThread.                                                        *)

(* A move within reconcileThread neither approves nor merges.              *)
LEMMA ThreadMove ==
    ASSUME NEW c \in Run, RunOK(c), c.pc \in ThreadSteps, NEW e \in Run, e.pc \in ThreadSteps,
           e.req = c.req, e.outcome = c.outcome, e.writes \subseteq c.writes \union {"resolve", "thread"}
    PROVE  RunOK(e)
<1>1. "merge" \notin c.writes /\ "approval" \notin c.writes
  BY DEF RunOK, ThreadSteps, CasSteps
<1> QED
  BY <1>1 DEF RunOK, SummarySteps, ThreadSteps, ClearSteps, PinnedSteps, CasSteps

(* Listing the threads keeps Inv (forge.go 468).                           *)
LEMMA ListBotThreadsInv ==
    ASSUME Inv, NEW p \in Publishers, ListBotThreads(p)
    PROVE  Inv'
<1> DEFINE c == run[p]
           stale == StaleOpen(threads, Desired(p).thread)
           r == [c EXCEPT !.pc = "classify", !.existing = threads, !.pending = stale]
<1>1. c \in Run /\ RunOK(c) /\ c.pc = "listThreads"
  BY Current DEF ListBotThreads
<1>2. threads \in Seq(Thread) /\ stale \subseteq Nat
  BY ListingType DEF Inv, TypeOK
<1>3. Set(p, r) /\ UNCHANGED <<forge, disturbed>>
  BY DEF ListBotThreads
<1> HIDE DEF c, stale
<1>4. /\ r \in Run /\ r.pc = "classify" /\ r.req = c.req /\ r.outcome = c.outcome
      /\ r.writes = c.writes
  BY <1>1, <1>2 DEF Run, Steps
<1> HIDE DEF r
<1>5. RunOK(r)
  BY <1>1, <1>4, ThreadMove DEF ThreadSteps
<1> QED
  BY <1>3, <1>4, <1>5, ReadStep

(* Resolving a stale occurrence keeps Inv (forge.go 476-485).              *)
LEMMA SupersedeInv ==
    ASSUME Inv, NEW p \in Publishers, Supersede(p)
    PROVE  Inv'
<1> DEFINE c == run[p]
           w == Wrote(p, "resolve")
           r(i) == [w EXCEPT !.pending = @ \ {i}]
<1>1. c \in Run /\ RunOK(c) /\ c.pc = "classify"
  BY Current DEF Supersede
<1>2. PICK i \in c.pending : threads' = ResolveAt(threads, i) /\ Respond(p, r(i))
  BY DEF Supersede
<1>3. Disturb(p) /\ UNCHANGED <<notes, head, approvals, merges>>
  BY DEF Supersede
<1>4. threads' \in Seq(Thread)
  BY <1>2, ResolveAtType DEF Inv, TypeOK
<1>5. /\ w \in Run /\ w.pc = c.pc /\ w.req = c.req /\ w.outcome = c.outcome
      /\ w.writes = c.writes \union {"resolve"}
  BY <1>1, WroteType DEF Wrote, Run, Inv, TypeOK, Writes
<1> HIDE DEF c, w
<1>6. /\ r(i) \in Run /\ r(i).pc = w.pc /\ r(i).req = w.req /\ r(i).outcome = w.outcome
      /\ r(i).writes = w.writes
  BY <1>5 DEF Run
<1> HIDE DEF r
<1>7. RunOK(r(i))
  BY <1>1, <1>5, <1>6, ThreadMove DEF ThreadSteps
<1> QED
  BY <1>2, <1>3, <1>4, <1>6, <1>7, WriteStep DEF Inv, TypeOK

(* Choosing the canonical thread keeps Inv (forge.go 694-699).             *)
LEMMA StartRepairInv ==
    ASSUME Inv, NEW p \in Publishers, StartRepair(p)
    PROVE  Inv'
<1> DEFINE c == run[p]
           occupants == Occupants(c.existing, Desired(p).thread)
           r(i) == [c EXCEPT !.pc = "repair", !.canonical = i, !.mode = "repair",
                             !.pending = occupants \ {i}]
<1>1. c \in Run /\ RunOK(c) /\ c.pc = "classify"
  BY Current DEF StartRepair
<1>2. occupants \subseteq Nat
  BY <1>1, ListingType DEF Run
<1>3. PICK i \in Canonicals(occupants) : Set(p, r(i))
  BY DEF StartRepair
<1>4. i \in Nat /\ UNCHANGED <<forge, disturbed>>
  BY <1>2, <1>3 DEF StartRepair, Canonicals
<1> HIDE DEF c, occupants
<1>5. /\ r(i) \in Run /\ r(i).pc = "repair" /\ r(i).req = c.req /\ r(i).outcome = c.outcome
      /\ r(i).writes = c.writes
  BY <1>1, <1>2, <1>4 DEF Run, Steps, Modes
<1> HIDE DEF r
<1>6. RunOK(r(i))
  BY <1>1, <1>5, ThreadMove DEF ThreadSteps
<1> QED
  BY <1>3, <1>4, <1>5, <1>6, ReadStep

(* Resolving a duplicate keeps Inv (forge.go 702-714).                     *)
LEMMA RepairDuplicateInv ==
    ASSUME Inv, NEW p \in Publishers, RepairDuplicate(p)
    PROVE  Inv'
<1> DEFINE c == run[p]
           w == Wrote(p, "resolve")
           r(i) == [w EXCEPT !.pending = @ \ {i}, !.repairs = @ \union {<<i, c.canonical>>}]
<1>1. c \in Run /\ RunOK(c) /\ c.pc = "repair"
  BY Current DEF RepairDuplicate
<1>2. PICK i \in c.pending : threads' = ResolveAt(threads, i) /\ Respond(p, r(i))
  BY DEF RepairDuplicate
<1>3. Disturb(p) /\ UNCHANGED <<notes, head, approvals, merges>>
  BY DEF RepairDuplicate
<1>4. threads' \in Seq(Thread)
  BY <1>2, ResolveAtType DEF Inv, TypeOK
<1>5. /\ w \in Run /\ w.pc = c.pc /\ w.req = c.req /\ w.outcome = c.outcome
      /\ w.writes = c.writes \union {"resolve"}
  BY <1>1, WroteType DEF Wrote, Run, Inv, TypeOK, Writes
<1>6. <<i, c.canonical>> \in Nat \X Nat
  BY <1>1, <1>2 DEF Run
<1> HIDE DEF c, w
<1>7. /\ r(i) \in Run /\ r(i).pc = w.pc /\ r(i).req = w.req /\ r(i).outcome = w.outcome
      /\ r(i).writes = w.writes
  BY <1>5, <1>6 DEF Run
<1> HIDE DEF r
<1>8. RunOK(r(i))
  BY <1>1, <1>5, <1>7, ThreadMove DEF ThreadSteps
<1> QED
  BY <1>2, <1>3, <1>4, <1>7, <1>8, WriteStep DEF Inv, TypeOK

(* Ending the repair loop keeps Inv (forge.go 500-510).                    *)
LEMMA EndRepairInv ==
    ASSUME Inv, NEW p \in Publishers, EndRepair(p)
    PROVE  Inv'
<1> DEFINE c == run[p]
           r == [c EXCEPT !.pc = "rescan", !.ops = {<<"thread", "discussion", c.canonical>>}]
<1>1. c \in Run /\ RunOK(c) /\ c.pc = "repair"
  BY Current DEF EndRepair
<1>2. {<<"thread", "discussion", c.canonical>>} \in SUBSET Operation
  BY <1>1 DEF Run, Operation
<1>3. Set(p, r) /\ UNCHANGED <<forge, disturbed>>
  BY DEF EndRepair
<1> HIDE DEF c
<1>4. /\ r \in Run /\ r.pc = "rescan" /\ r.req = c.req /\ r.outcome = c.outcome
      /\ r.writes = c.writes
  BY <1>1, <1>2 DEF Run, Steps
<1> HIDE DEF r
<1>5. RunOK(r)
  BY <1>1, <1>4, ThreadMove DEF ThreadSteps
<1> QED
  BY <1>3, <1>4, <1>5, ReadStep

(* Reusing the one occupant keeps Inv (forge.go 511-528).                  *)
LEMMA ReuseThreadInv ==
    ASSUME Inv, NEW p \in Publishers, ReuseThread(p)
    PROVE  Inv'
<1> DEFINE c == run[p]
           occupants == Occupants(c.existing, Desired(p).thread)
           kept(i) == IF Resolved(c.existing[i]) THEN "preserveResolved" ELSE "open"
           r(i) == [c EXCEPT !.pc = "rescan", !.mode = kept(i),
                             !.ops = {<<"thread", "discussion", i>>}]
<1>1. c \in Run /\ RunOK(c) /\ c.pc = "classify"
  BY Current DEF ReuseThread
<1>2. occupants \subseteq Nat
  BY <1>1, ListingType DEF Run
<1>3. PICK i \in occupants : Set(p, r(i))
  BY DEF ReuseThread
<1>4. i \in Nat /\ UNCHANGED <<forge, disturbed>> /\ kept(i) \in Modes
  BY <1>2, <1>3 DEF ReuseThread, Modes
<1>5. {<<"thread", "discussion", i>>} \in SUBSET Operation
  BY <1>4 DEF Operation
<1> HIDE DEF c, kept
<1>6. /\ r(i) \in Run /\ r(i).pc = "rescan" /\ r(i).req = c.req /\ r(i).outcome = c.outcome
      /\ r(i).writes = c.writes
  BY <1>1, <1>4, <1>5 DEF Run, Steps
<1> HIDE DEF r
<1>7. RunOK(r(i))
  BY <1>1, <1>6, ThreadMove DEF ThreadSteps
<1> QED
  BY <1>3, <1>4, <1>6, <1>7, ReadStep

(* Posting a thread keeps Inv (forge.go 531-543).                          *)
LEMMA CreateThreadInv ==
    ASSUME Inv, NEW p \in Publishers, CreateThread(p)
    PROVE  Inv'
<1> DEFINE c == run[p]
           m == Desired(p).thread
           w == Wrote(p, "thread")
           new == [slot |-> m.slot, occurrence |-> m.occurrence, legible |-> TRUE,
                   resolver |-> "nobody"]
           id == Len(threads) + 1
           r == [w EXCEPT !.pc = "rescan", !.mode = "open", !.ops = {<<"thread", "discussion", id>>}]
<1>1. c \in Run /\ RunOK(c) /\ c.pc = "classify"
  BY Current DEF CreateThread
<1>2. m \in Marker
  BY <1>1, CurrentRequest DEF RunOK, ThreadSteps, Desired, DesiredReviewState
<1>3. threads \in Seq(Thread) /\ new \in Thread
  BY <1>2 DEF Inv, TypeOK, Thread, Marker
<1>4. threads' = Append(threads, new) /\ Respond(p, r)
  BY DEF CreateThread
<1>5. Disturb(p) /\ UNCHANGED <<notes, head, approvals, merges>>
  BY DEF CreateThread
<1>6. {<<"thread", "discussion", id>>} \in SUBSET Operation
  BY <1>3 DEF Operation
<1> HIDE DEF new
<1>7. threads' \in Seq(Thread)
  BY <1>3, <1>4
<1>8. /\ w \in Run /\ w.pc = c.pc /\ w.req = c.req /\ w.outcome = c.outcome
      /\ w.writes = c.writes \union {"thread"}
  BY <1>1, WroteType DEF Wrote, Run, Inv, TypeOK, Writes
<1> HIDE DEF c, w, id
<1>9. /\ r \in Run /\ r.pc = "rescan" /\ r.req = w.req /\ r.outcome = w.outcome
      /\ r.writes = w.writes
  BY <1>6, <1>8 DEF Run, Steps, Modes
<1> HIDE DEF r
<1>10. RunOK(r)
  BY <1>1, <1>8, <1>9, ThreadMove DEF ThreadSteps
<1> QED
  BY <1>4, <1>5, <1>7, <1>9, <1>10, WriteStep DEF Inv, TypeOK

(* Returning from an invocation that has neither approved nor merged.      *)
LEMMA ReturnOK ==
    ASSUME Inv, NEW p \in Publishers, run[p].pc # "idle", run[p].pc \notin CasSteps,
           NEW outcome \in Outcomes
    PROVE  /\ Ended(run[p], outcome) \in Run /\ RunOK(Ended(run[p], outcome))
           /\ Succeeded(run[p]) \in Run /\ RunOK(Succeeded(run[p]))
<1>1. "merge" \notin run[p].writes /\ "approval" \notin run[p].writes
  BY Current DEF RunOK
<1> QED
  BY <1>1, Current, EndedOK, SucceededOK

(* The rescan of step 9 keeps Inv (forge.go 546-565).                      *)
LEMMA RescanThreadDesiredInv ==
    ASSUME Inv, NEW p \in Publishers, RescanThreadDesired(p)
    PROVE  Inv'
<1> DEFINE r == IF VerifyThreadRescan(threads, Desired(p).thread, run[p].mode)
                  THEN Succeeded(run[p]) ELSE Ended(run[p], "ErrRescanFailed")
<1>1. run[p].pc = "rescan" /\ Set(p, r) /\ UNCHANGED <<forge, disturbed>>
  BY DEF RescanThreadDesired
<1>2. r \in Run /\ RunOK(r)
  BY <1>1, ReturnOK DEF CasSteps, Outcomes
<1> HIDE DEF r
<1> QED
  BY <1>1, <1>2, ReadStep

-----------------------------------------------------------------------------
(* reconcileClearSlot.                                                     *)

(* A move within reconcileClearSlot neither approves nor merges.           *)
LEMMA ClearMove ==
    ASSUME NEW c \in Run, RunOK(c), c.pc \in ClearSteps, NEW e \in Run, e.pc \in ClearSteps,
           e.req = c.req, e.outcome = c.outcome, e.writes \subseteq c.writes \union {"resolve"}
    PROVE  RunOK(e)
<1>1. "merge" \notin c.writes /\ "approval" \notin c.writes
  BY DEF RunOK, ClearSteps, CasSteps
<1> QED
  BY <1>1 DEF RunOK, SummarySteps, ThreadSteps, ClearSteps, PinnedSteps, CasSteps

(* Listing the slot to clear keeps Inv (forge.go 611-661).                 *)
LEMMA ClearListInv ==
    ASSUME Inv, NEW p \in Publishers, ClearList(p)
    PROVE  Inv'
<1> DEFINE c == run[p]
           s == Desired(p).clearSlot
           open == OpenInSlot(threads, s)
           inSlot == {i \in Listed(threads) : threads[i].slot = s}
           r1(i) == [c EXCEPT !.pc = "clearRescan", !.ops = {<<"thread", "discussion", i>>}]
           r2 == [c EXCEPT !.pc = "clearRescan", !.pending = open]
<1>1. c \in Run /\ RunOK(c) /\ c.pc = "clearList" /\ UNCHANGED <<forge, disturbed>>
  BY Current DEF ClearList
<1>2. open \subseteq Nat /\ inSlot \subseteq Nat
  <2>1. threads \in Seq(Thread)
    BY DEF Inv, TypeOK
  <2>2. Listed(threads) \subseteq Nat
    BY <2>1 DEF Listed
  <2> QED
    BY <2>1, <2>2, ListingType
<1>3. CASE \E outcome \in Outcomes : Set(p, Ended(c, outcome))
  BY <1>1, <1>3, ReturnOK, ReadStep DEF CasSteps
<1>4. CASE \E i \in inSlot : Set(p, r1(i))
  <2>1. PICK i \in inSlot : Set(p, r1(i))
    BY <1>4
  <2>2. {<<"thread", "discussion", i>>} \in SUBSET Operation
    BY <1>2 DEF Operation
  <2> HIDE DEF c
  <2>3. /\ r1(i) \in Run /\ r1(i).pc = "clearRescan" /\ r1(i).req = c.req
        /\ r1(i).outcome = c.outcome /\ r1(i).writes = c.writes
    BY <1>1, <2>2 DEF Run, Steps
  <2> HIDE DEF r1
  <2>4. RunOK(r1(i))
    BY <1>1, <2>3, ClearMove DEF ClearSteps
  <2> QED
    BY <1>1, <2>1, <2>3, <2>4, ReadStep
<1>5. CASE Set(p, r2)
  <2> HIDE DEF c, open
  <2>1. /\ r2 \in Run /\ r2.pc = "clearRescan" /\ r2.req = c.req /\ r2.outcome = c.outcome
        /\ r2.writes = c.writes
    BY <1>1, <1>2 DEF Run, Steps
  <2> HIDE DEF r2
  <2>2. RunOK(r2)
    BY <1>1, <2>1, ClearMove DEF ClearSteps
  <2> QED
    BY <1>1, <1>5, <2>1, <2>2, ReadStep
<1> QED
  BY <1>3, <1>4, <1>5 DEF ClearList, Outcomes

(* Resolving the thread of a cleared slot keeps Inv (forge.go 611-661).    *)
LEMMA ClearResolveInv ==
    ASSUME Inv, NEW p \in Publishers, ClearResolve(p)
    PROVE  Inv'
<1> DEFINE c == run[p]
           w == Wrote(p, "resolve")
           r(i) == [w EXCEPT !.pending = {}, !.ops = {<<"thread", "discussion", i>>}]
<1>1. c \in Run /\ RunOK(c) /\ c.pc = "clearRescan"
  BY Current DEF ClearResolve
<1>2. PICK i \in c.pending : threads' = ResolveAt(threads, i) /\ Respond(p, r(i))
  BY DEF ClearResolve
<1>3. Disturb(p) /\ UNCHANGED <<notes, head, approvals, merges>>
  BY DEF ClearResolve
<1>4. threads' \in Seq(Thread)
  BY <1>2, ResolveAtType DEF Inv, TypeOK
<1>5. /\ w \in Run /\ w.pc = c.pc /\ w.req = c.req /\ w.outcome = c.outcome
      /\ w.writes = c.writes \union {"resolve"}
  BY <1>1, WroteType DEF Wrote, Run, Inv, TypeOK, Writes
<1>6. {<<"thread", "discussion", i>>} \in SUBSET Operation
  BY <1>1, <1>2 DEF Run, Operation
<1> HIDE DEF c, w
<1>7. /\ r(i) \in Run /\ r(i).pc = w.pc /\ r(i).req = w.req /\ r(i).outcome = w.outcome
      /\ r(i).writes = w.writes
  BY <1>5, <1>6 DEF Run
<1> HIDE DEF r
<1>8. RunOK(r(i))
  BY <1>1, <1>5, <1>7, ClearMove DEF ClearSteps
<1> QED
  BY <1>2, <1>3, <1>4, <1>7, <1>8, WriteStep DEF Inv, TypeOK

(* The rescan of a cleared slot keeps Inv (forge.go 663-675).              *)
LEMMA RescanClearSlotInv ==
    ASSUME Inv, NEW p \in Publishers, RescanClearSlot(p)
    PROVE  Inv'
<1> DEFINE r == IF OpenInSlot(threads, Desired(p).clearSlot) = {}
                  THEN Succeeded(run[p]) ELSE Ended(run[p], "ErrRescanFailed")
<1>1. run[p].pc = "clearRescan" /\ Set(p, r) /\ UNCHANGED <<forge, disturbed>>
  BY DEF RescanClearSlot
<1>2. r \in Run /\ RunOK(r)
  BY <1>1, ReturnOK DEF CasSteps, Outcomes
<1> HIDE DEF r
<1> QED
  BY <1>1, <1>2, ReadStep

-----------------------------------------------------------------------------
(* reconcileApproveMerge.                                                  *)

(* A move past the arming gate that does not merge keeps the pins.         *)
LEMMA PinnedMove ==
    ASSUME NEW c \in Run, RunOK(c), c.pc \in PinnedSteps, NEW e \in Run, e.pc \in PinnedSteps,
           e.req = c.req, e.outcome = c.outcome, "merge" \notin e.writes,
           "approval" \in e.writes => e.pc \in CasSteps,
           e.pc \in {"casTarget", "put"} => ~AtomicMerge
    PROVE  RunOK(e)
BY DEF RunOK, SummarySteps, ThreadSteps, ClearSteps, PinnedSteps, CasSteps

(* The arming and completeness checks keep Inv (forge.go 789-801).         *)
LEMMA ArmingGateInv ==
    ASSUME Inv, NEW p \in Publishers, ArmingGate(p)
    PROVE  Inv'
<1> DEFINE c == run[p]
           pass == Pre(p).arm /\ CompleteForMerge(Pre(p)) /\ SamePins(Desired(p).merge, Pre(p))
           r == [c EXCEPT !.pc = "headsSource"]
<1>1. c \in Run /\ RunOK(c) /\ c.pc = "gate" /\ UNCHANGED <<forge, disturbed>>
  BY Current DEF ArmingGate
<1>2. \/ \E outcome \in Outcomes : Set(p, Ended(c, outcome))
      \/ pass /\ Set(p, r)
  BY CurrentRequest, <1>1 DEF ArmingGate, Outcomes, Refusals, Preconditions
<1>3. CASE \E outcome \in Outcomes : Set(p, Ended(c, outcome))
  BY <1>1, <1>3, ReturnOK, ReadStep DEF CasSteps
<1>4. CASE pass /\ Set(p, r)
  <2>1. /\ c.req.pre.arm /\ CompleteForMerge(c.req.pre) /\ SamePins(c.req.desired.merge, c.req.pre)
        /\ c.req.desired.merge # Nil /\ c.req # Nil /\ c.outcome = "none"
        /\ "merge" \notin c.writes /\ "approval" \notin c.writes
    BY <1>1, <1>4 DEF Pre, Desired, RunOK, CasSteps
  <2> HIDE DEF c
  <2>2. /\ r \in Run /\ r.pc = "headsSource" /\ r.req = c.req /\ r.outcome = c.outcome
        /\ r.writes = c.writes
    BY <1>1 DEF Run, Steps
  <2> HIDE DEF r
  <2>3. RunOK(r)
    BY <2>1, <2>2 DEF RunOK, SummarySteps, ThreadSteps, ClearSteps, PinnedSteps, CasSteps
  <2> QED
    BY <1>1, <1>4, <2>2, <2>3, ReadStep
<1> QED
  BY <1>2, <1>3, <1>4

(* The four steps that read the heads.                                     *)
LEMMA HeadsInv ==
    ASSUME Inv, NEW p \in Publishers,
           ReadSource(p) \/ ShaGuard(p) \/ CasReadSource(p) \/ CasGuard(p)
    PROVE  Inv'
<1> DEFINE c == run[p]
           r1(s) == [c EXCEPT !.pc = s, !.seen = head.source]
           r2(s) == [c EXCEPT !.pc = s]
<1>1. c \in Run /\ RunOK(c) /\ c.pc \in PinnedSteps /\ UNCHANGED <<forge, disturbed>>
  BY Current DEF ReadSource, ShaGuard, CasReadSource, CasGuard, PinnedSteps, CasSteps
<1>2. "merge" \notin c.writes /\ head.source \in Shas
  BY <1>1 DEF RunOK, PinnedSteps, CasSteps, Inv, TypeOK, Heads
<1>3. \/ Set(p, Ended(c, "ErrSHAMoved"))
      \/ \E s \in {"headsTarget", "approve"} : c.pc \notin CasSteps /\ (Set(p, r1(s)) \/ Set(p, r2(s)))
      \/ \E s \in {"casTarget", "put"} : ~AtomicMerge /\ (Set(p, r1(s)) \/ Set(p, r2(s)))
  BY <1>1 DEF ReadSource, ShaGuard, CasReadSource, CasGuard, CasSteps, RunOK
<1>4. CASE Set(p, Ended(c, "ErrSHAMoved"))
  BY <1>1, <1>2, <1>4, EndedOK, ReadStep DEF Outcomes, Refusals
<1>5. ASSUME NEW s \in {"headsTarget", "approve", "casTarget", "put"},
             Set(p, r1(s)) \/ Set(p, r2(s)), s \in CasSteps \/ c.pc \notin CasSteps,
             s \in {"casTarget", "put"} => ~AtomicMerge
      PROVE  Inv'
  <2>1. "approval" \in c.writes => s \in CasSteps
    BY <1>1, <1>5 DEF RunOK, PinnedSteps, CasSteps
  <2>2. s \in PinnedSteps
    BY <1>5 DEF PinnedSteps, CasSteps
  <2> HIDE DEF c
  <2>3. /\ r1(s) \in Run /\ r1(s).pc = s /\ r1(s).req = c.req /\ r1(s).outcome = c.outcome
        /\ r1(s).writes = c.writes
    BY <1>1, <1>2 DEF Run, Steps
  <2>4. /\ r2(s) \in Run /\ r2(s).pc = s /\ r2(s).req = c.req /\ r2(s).outcome = c.outcome
        /\ r2(s).writes = c.writes
    BY <1>1 DEF Run, Steps
  <2> HIDE DEF r1, r2
  <2>5. RunOK(r1(s)) /\ RunOK(r2(s))
    BY <1>1, <1>2, <1>5, <2>1, <2>2, <2>3, <2>4, PinnedMove
  <2> QED
    BY <1>1, <1>5, <2>3, <2>4, <2>5, ReadStep
<1> QED
  BY <1>3, <1>4, <1>5 DEF CasSteps

(* Recording the approval keeps Inv (forge.go 819-823).                    *)
LEMMA ApproveInv ==
    ASSUME Inv, NEW p \in Publishers, Approve(p)
    PROVE  Inv'
<1> DEFINE c == run[p]
           w == Wrote(p, "approval")
           r == [w EXCEPT !.pc = "cas", !.ops = {<<"approval", "mr", 0>>}]
<1>1. c \in Run /\ RunOK(c) /\ c.pc = "approve"
  BY Current DEF Approve
<1>2. /\ approvals' = approvals \union {head} /\ Respond(p, r) /\ Disturb(p)
      /\ UNCHANGED <<threads, notes, head, merges>>
  BY DEF Approve
<1>3. /\ w \in Run /\ w.pc = c.pc /\ w.req = c.req /\ w.outcome = c.outcome
      /\ w.writes = c.writes \union {"approval"}
  BY <1>1, WroteType DEF Wrote, Run, Inv, TypeOK, Writes
<1>4. {<<"approval", "mr", 0>>} \in SUBSET Operation
  BY DEF Operation
<1> HIDE DEF c, w
<1>5. /\ r \in Run /\ r.pc = "cas" /\ r.req = w.req /\ r.outcome = w.outcome
      /\ r.writes = w.writes
  BY <1>3, <1>4 DEF Run, Steps
<1> HIDE DEF r
<1>6. RunOK(r)
  <2>1. "merge" \notin c.writes
    BY <1>1 DEF RunOK
  <2> QED
    BY <1>1, <1>3, <1>5, <2>1, PinnedMove DEF PinnedSteps, CasSteps
<1> QED
  BY <1>2, <1>5, <1>6, WriteStep DEF Inv, TypeOK

(* The merge is only reached with the pins in place.                       *)
LEMMA PinsInPlace ==
    ASSUME Inv, NEW p \in Publishers, run[p].pc \in CasSteps
    PROVE  /\ Desired(p).merge \in DesiredMerge /\ Pre(p).arm = TRUE
           /\ Desired(p).merge.source # Nil /\ Desired(p).merge.target # Nil
           /\ Desired(p).merge.digest # NoDigest
<1>1. Desired(p) \in DesiredReviewState /\ Pre(p) \in Preconditions
  BY CurrentRequest DEF CasSteps
<1>2. /\ Desired(p).merge # Nil /\ Pre(p).arm /\ CompleteForMerge(Pre(p))
      /\ SamePins(Desired(p).merge, Pre(p))
  BY Current DEF RunOK, PinnedSteps, Desired, Pre
<1> QED
  BY <1>1, <1>2 DEF CompleteForMerge, SamePins, DesiredReviewState, Preconditions

(* The merge keeps Inv, its response lost or not (forge.go 824-836).       *)
LEMMA PerformMergeInv ==
    ASSUME Inv, NEW p \in Publishers, run[p].pc \in CasSteps, PerformMerge(p)
    PROVE  Inv'
<1> DEFINE w == Wrote(p, "merge")
           v == [w EXCEPT !.ops = @ \union {<<"merge", "mr", 0>>}]
           new == [pins |-> Desired(p).merge, arm |-> Pre(p).arm, at |-> head]
<1>1. w \in Run
  BY WroteType DEF Inv, TypeOK, Writes
<1>2. <<"merge", "mr", 0>> \in Operation
  BY DEF Operation
<1>3. new \in Merge /\ merges \in Seq(Merge)
  BY PinsInPlace DEF Merge, Inv, TypeOK
<1>4. merges' = Append(merges, new) /\ Respond(p, Succeeded(v)) /\ Disturb(p)
  BY DEF PerformMerge
<1>5. head' \in Heads
  BY NilAssumption DEF PerformMerge, Inv, TypeOK, Heads
<1>6. threads' \in Seq(Thread) /\ notes' \in Seq(Note) /\ approvals' \subseteq Heads
  BY DEF PerformMerge, Inv, TypeOK
<1> HIDE DEF w, new
<1>7. v \in Run
  BY <1>1, <1>2 DEF Run
<1> HIDE DEF v
<1>8. Succeeded(v) \in Run /\ RunOK(Succeeded(v))
  BY <1>7, SucceededOK
<1>9. merges' \in Seq(Merge)
  BY <1>3, <1>4
<1> QED
  BY <1>4, <1>5, <1>6, <1>8, <1>9, WriteStep

(* A refused merge keeps Inv (forge.go 824-830).                           *)
LEMMA RefuseMergeInv ==
    ASSUME Inv, NEW p \in Publishers, run[p].pc \in CasSteps, NEW o \in {"error", "ErrSHAMoved"},
           RefuseMerge(p, o)
    PROVE  Inv'
<1>1. "merge" \notin run[p].writes
  BY Current DEF RunOK, CasSteps
<1>2. Ended(run[p], o) \in Run /\ RunOK(Ended(run[p], o))
  BY <1>1, Current, EndedOK DEF Outcomes, Refusals
<1> QED
  BY <1>2, ReadStep DEF RefuseMerge

(* Both forms of MergeCAS keep Inv.                                        *)
LEMMA MergeInv ==
    ASSUME Inv, NEW p \in Publishers, MergeCASAtomic(p) \/ MergePut(p)
    PROVE  Inv'
<1>1. run[p].pc \in CasSteps
  BY DEF MergeCASAtomic, MergePut, CasSteps
<1>2. PerformMerge(p) \/ RefuseMerge(p, "error") \/ RefuseMerge(p, "ErrSHAMoved")
  BY DEF MergeCASAtomic, MergePut
<1> QED
  BY <1>1, <1>2, PerformMergeInv, RefuseMergeInv

(* A failed call or a crash keeps Inv.                                     *)
LEMMA FailInv ==
    ASSUME Inv, NEW p \in Publishers, Fail(p)
    PROVE  Inv'
<1>1. Ended(run[p], "error") \in Run /\ RunOK(Ended(run[p], "error"))
  BY Current, EndedOK DEF Outcomes
<1>2. run' \in [Publishers -> Run] /\ \A q \in Publishers : RunOK(run'[q])
  BY <1>1, SetOK DEF Fail, Inv, TypeOK
<1>3. budget' \in BudgetType
  BY SpendType DEF Fail, Inv, TypeOK, BudgetType
<1> QED
  BY <1>2, <1>3 DEF Fail, Inv, TypeOK, BudgetType, forge

-----------------------------------------------------------------------------
(* The rest of the world.                                                  *)

(* Reviewers, edits of a marker and pushes keep Inv.                       *)
LEMMA EnvironmentInv ==
    ASSUME Inv, Environment
    PROVE  Inv'
<1>1. /\ run \in [Publishers -> Run] /\ \A q \in Publishers : RunOK(run[q])
      /\ threads \in Seq(Thread) /\ notes \in Seq(Note) /\ head \in Heads
      /\ approvals \subseteq Heads /\ merges \in Seq(Merge) /\ budget \in BudgetType
  BY DEF Inv, TypeOK, BudgetType
<1>2. run' = run /\ disturbed' = Publishers /\ approvals' = approvals /\ merges' = merges
  BY DEF Environment, ReviewerResolves, ReviewerReopens, CorruptMarker, Push, DisturbAll
<1>3. budget' \in BudgetType
  BY <1>1, SpendType DEF Environment, ReviewerResolves, ReviewerReopens, CorruptMarker, Push
<1>4. threads' \in Seq(Thread)
  <2>1. ASSUME NEW i \in DOMAIN threads, NEW who \in {"nobody", "reviewer"}
        PROVE  [threads EXCEPT ![i].resolver = who] \in Seq(Thread)
    <3> DEFINE t == [threads[i] EXCEPT !.resolver = who]
    <3>1. threads[i] \in Thread
      BY <1>1
    <3>2. t \in Thread
      BY <3>1 DEF Thread
    <3>3. [threads EXCEPT ![i] = t] \in Seq(Thread)
      BY <1>1, <3>2, ReplaceType
    <3> QED
      BY <3>3
  <2>2. ASSUME NEW i \in DOMAIN threads
        PROVE  [threads EXCEPT ![i].legible = FALSE] \in Seq(Thread)
    <3> DEFINE t == [threads[i] EXCEPT !.legible = FALSE]
    <3>1. threads[i] \in Thread
      BY <1>1
    <3>2. t \in Thread
      BY <3>1 DEF Thread
    <3>3. [threads EXCEPT ![i] = t] \in Seq(Thread)
      BY <1>1, <3>2, ReplaceType
    <3> QED
      BY <3>3
  <2>3. CASE ReviewerResolves \/ ReviewerReopens
    BY <2>1, <2>3 DEF ReviewerResolves, ReviewerReopens
  <2>4. CASE CorruptMarker
    BY <1>1, <2>2, <2>4 DEF CorruptMarker, Listed
  <2>5. CASE Push
    BY <1>1, <2>5 DEF Push
  <2> QED
    BY <2>3, <2>4, <2>5 DEF Environment
<1>5. notes' \in Seq(Note)
  <2>1. ASSUME NEW i \in DOMAIN notes
        PROVE  [notes EXCEPT ![i].legible = FALSE] \in Seq(Note)
    <3> DEFINE t == [notes[i] EXCEPT !.legible = FALSE]
    <3>1. notes[i] \in Note
      BY <1>1
    <3>2. t \in Note
      BY <3>1 DEF Note
    <3>3. [notes EXCEPT ![i] = t] \in Seq(Note)
      BY <1>1, <3>2, ReplaceType
    <3> QED
      BY <3>3
  <2>2. CASE CorruptMarker
    BY <1>1, <2>1, <2>2 DEF CorruptMarker
  <2>3. CASE ReviewerResolves \/ ReviewerReopens \/ Push
    BY <1>1, <2>3 DEF ReviewerResolves, ReviewerReopens, Push
  <2> QED
    BY <2>2, <2>3 DEF Environment
<1>6. head' \in Heads
  BY <1>1 DEF Environment, ReviewerResolves, ReviewerReopens, CorruptMarker, Push, Heads
<1> QED
  BY <1>1, <1>2, <1>3, <1>4, <1>5, <1>6 DEF Inv, TypeOK, BudgetType

(* Every step of an invocation keeps Inv.                                  *)
LEMMA StepInv ==
    ASSUME Inv, NEW p \in Publishers, Step(p)
    PROVE  Inv'
<1>1. CASE ListBotNotes(p) \/ UpsertLookup(p) \/ UpsertWrite(p)
  BY <1>1, ListBotNotesInv, UpsertLookupInv, UpsertWriteInv
<1>2. CASE \/ ListBotThreads(p) \/ Supersede(p) \/ StartRepair(p) \/ RepairDuplicate(p)
           \/ EndRepair(p) \/ ReuseThread(p) \/ CreateThread(p) \/ RescanThreadDesired(p)
  BY <1>2, ListBotThreadsInv, SupersedeInv, StartRepairInv, RepairDuplicateInv, EndRepairInv,
     ReuseThreadInv, CreateThreadInv, RescanThreadDesiredInv
<1>3. CASE ClearList(p) \/ ClearResolve(p) \/ RescanClearSlot(p)
  BY <1>3, ClearListInv, ClearResolveInv, RescanClearSlotInv
<1>4. CASE \/ ArmingGate(p) \/ ReadSource(p) \/ ShaGuard(p) \/ Approve(p)
           \/ MergeCASAtomic(p) \/ CasReadSource(p) \/ CasGuard(p) \/ MergePut(p)
  BY <1>4, ArmingGateInv, HeadsInv, ApproveInv, MergeInv
<1> QED
  BY <1>1, <1>2, <1>3, <1>4 DEF Step

(* Inv holds initially.                                                    *)
LEMMA InitInv == Init => Inv
<1> SUFFICES ASSUME Init PROVE Inv
  OBVIOUS
<1>1. IdleRun \in Run
  <2>1. <<>> \in Seq(Thread)
    OBVIOUS
  <2> QED
    BY <2>1 DEF IdleRun, Run, Steps, Modes, Outcomes
<1>2. RunOK(IdleRun)
  BY DEF RunOK, IdleRun, SummarySteps, ThreadSteps, ClearSteps, PinnedSteps, CasSteps
<1>3. run = [p \in Publishers |-> IdleRun]
  BY DEF Init
<1>4. run \in [Publishers -> Run] /\ \A p \in Publishers : RunOK(run[p])
  BY <1>1, <1>2, <1>3
<1>5. threads \in Seq(Thread) /\ notes \in Seq(Note) /\ merges \in Seq(Merge)
  BY DEF Init
<1>6. budget \in BudgetType
  BY BoundsAssumption DEF Init, BudgetType
<1> QED
  BY <1>4, <1>5, <1>6 DEF Init, Inv, TypeOK, BudgetType

(* Inv is inductive.                                                       *)
LEMMA NextInv == Inv /\ [Next]_vars => Inv'
<1> SUFFICES ASSUME Inv, [Next]_vars PROVE Inv'
  OBVIOUS
<1>1. CASE \E p \in Publishers : Step(p) \/ Fail(p) \/ \E req \in Requests : Begin(p, req)
  BY <1>1, StepInv, FailInv, BeginInv
<1>2. CASE Environment
  BY <1>2, EnvironmentInv
<1>3. CASE UNCHANGED vars
  <2>1. \A p \in Publishers : RunOK(run[p]) => RunOK(run'[p])
    BY <1>3 DEF vars
  <2> QED
    BY <1>3, <2>1 DEF vars, Inv, TypeOK
<1> QED
  BY <1>1, <1>2, <1>3 DEF Next

(* Inv is an invariant of every behaviour.                                 *)
THEOREM InvariantHolds == Spec => []Inv
BY InitInv, NextInv, PTL DEF Spec

(* Type correctness of the publication model, for every instance.          *)
THEOREM TypeCorrect == Spec => []TypeOK
<1>1. Inv => TypeOK
  BY DEF Inv
<1> QED
  BY <1>1, InvariantHolds, PTL

(* A fail-closed refusal, which the run reports as exit code 0, never hides *)
(* a merge; refusals before the SHA guard never hide an approval either     *)
(* (forge.go 784-830).                                                      *)
THEOREM RefusalsHideNoMerge == Spec => []RefusalHidesNoMerge
<1>1. Inv => RefusalHidesNoMerge
  BY DEF Inv, RunOK, RefusalHidesNoMerge, Refusals, CasSteps
<1> QED
  BY <1>1, InvariantHolds, PTL

-----------------------------------------------------------------------------
(* What was merged.                                                        *)

(* A merge whose heads were compared keeps the merge facts ...             *)
LEMMA MergeRecorded ==
    ASSUME Inv, MergeFacts, NEW p \in Publishers, run[p].pc \in CasSteps, PerformMerge(p),
           head.source = Desired(p).merge.source,
           AtomicMerge => head.target = Desired(p).merge.target
    PROVE  MergeFacts'
<1> DEFINE new == [pins |-> Desired(p).merge, arm |-> Pre(p).arm, at |-> head]
<1>1. merges \in Seq(Merge) /\ merges' = Append(merges, new)
  BY DEF Inv, TypeOK, PerformMerge
<1>2. /\ new.arm = TRUE /\ new.pins.source # Nil /\ new.pins.target # Nil
      /\ new.pins.digest # NoDigest /\ new.at.source = new.pins.source
      /\ AtomicMerge => new.at.target = new.pins.target
  BY PinsInPlace
<1> HIDE DEF new
<1>3. \A k \in DOMAIN merges' : merges'[k] = new \/ (k \in DOMAIN merges /\ merges'[k] = merges[k])
  BY <1>1
<1> QED
  BY <1>2, <1>3 DEF MergeFacts, MergedSourceWasEvaluated, MergedTargetWasEvaluated

(* ... as does every step that does not merge.                             *)
LEMMA MergesKept == ASSUME MergeFacts, merges' = merges PROVE MergeFacts'
BY DEF MergeFacts, MergedSourceWasEvaluated, MergedTargetWasEvaluated

(* The merge facts are inductive relative to Inv.                          *)
LEMMA MergeFactsNext == Inv /\ MergeFacts /\ [Next]_vars => MergeFacts'
<1> SUFFICES ASSUME Inv, MergeFacts, [Next]_vars PROVE MergeFacts'
  OBVIOUS
<1>1. ASSUME NEW p \in Publishers, MergeCASAtomic(p) PROVE MergeFacts'
  <2>1. CASE \E o \in {"error", "ErrSHAMoved"} : RefuseMerge(p, o)
    BY <2>1, MergesKept DEF RefuseMerge, forge
  <2>2. CASE PerformMerge(p) /\ head.source = Desired(p).merge.source
             /\ head.target = Desired(p).merge.target
    BY <1>1, <2>2, MergeRecorded DEF MergeCASAtomic, CasSteps
  <2> QED
    BY <1>1, <2>1, <2>2 DEF MergeCASAtomic
<1>2. ASSUME NEW p \in Publishers, MergePut(p) PROVE MergeFacts'
  <2>1. CASE \E o \in {"error", "ErrSHAMoved"} : RefuseMerge(p, o)
    BY <2>1, MergesKept DEF RefuseMerge, forge
  <2>2. run[p].pc = "put" /\ ~AtomicMerge
    BY <1>2, Current DEF MergePut, RunOK
  <2>3. CASE PerformMerge(p) /\ head.source = Desired(p).merge.source
    BY <2>2, <2>3, MergeRecorded DEF CasSteps
  <2> QED
    BY <1>2, <2>1, <2>3 DEF MergePut
<1>3. ASSUME NEW p \in Publishers, Step(p) PROVE MergeFacts'
  <2>1. CASE MergeCASAtomic(p) \/ MergePut(p)
    BY <1>1, <1>2, <2>1
  <2>2. CASE ListBotNotes(p) \/ UpsertLookup(p) \/ UpsertWrite(p)
    BY <2>2, MergesKept DEF ListBotNotes, UpsertLookup, UpsertWrite, forge
  <2>3. CASE \/ ListBotThreads(p) \/ Supersede(p) \/ StartRepair(p) \/ RepairDuplicate(p)
             \/ EndRepair(p) \/ ReuseThread(p) \/ CreateThread(p) \/ RescanThreadDesired(p)
    BY <2>3, MergesKept DEF ListBotThreads, Supersede, StartRepair, RepairDuplicate, EndRepair,
       ReuseThread, CreateThread, RescanThreadDesired, forge
  <2>4. CASE ClearList(p) \/ ClearResolve(p) \/ RescanClearSlot(p)
    BY <2>4, MergesKept DEF ClearList, ClearResolve, RescanClearSlot, forge
  <2>5. CASE \/ ArmingGate(p) \/ ReadSource(p) \/ ShaGuard(p) \/ Approve(p)
             \/ CasReadSource(p) \/ CasGuard(p)
    BY <2>5, MergesKept DEF ArmingGate, ReadSource, ShaGuard, Approve, CasReadSource, CasGuard, forge
  <2> QED
    BY <1>3, <2>1, <2>2, <2>3, <2>4, <2>5 DEF Step
<1>4. ASSUME NEW p \in Publishers, Fail(p) \/ \E req \in Requests : Begin(p, req)
      PROVE  MergeFacts'
  BY <1>4, MergesKept DEF Fail, Begin, Enter, forge
<1>5. CASE Environment
  BY <1>5, MergesKept DEF Environment, ReviewerResolves, ReviewerReopens, CorruptMarker, Push
<1>6. CASE UNCHANGED vars
  BY <1>6, MergesKept DEF vars
<1> QED
  BY <1>3, <1>4, <1>5, <1>6 DEF Next

(* The merge facts hold in every behaviour.                                *)
LEMMA MergeFactsInvariant == Spec => []MergeFacts
<1>1. Init => MergeFacts
  BY DEF Init, MergeFacts, MergedSourceWasEvaluated, MergedTargetWasEvaluated
<1> QED
  BY <1>1, MergeFactsNext, InvariantHolds, PTL DEF Spec

(* Whatever pushes, faults and other publishers do between the calls, the   *)
(* source head that is merged is the evaluated one, by an armed run with    *)
(* all three pins: reconcileApproveMerge followed by either MergeCAS        *)
(* (forge.go 787-836, fake.go 284-303, gitlab.go 1006-1047).                *)
THEOREM MergedSourceEvaluated == Spec => []MergedSourceWasEvaluated
<1>1. MergeFacts => MergedSourceWasEvaluated
  BY DEF MergeFacts
<1> QED
  BY <1>1, MergeFactsInvariant, PTL

(* Where MergeCAS compares and merges in one step, as the port documents    *)
(* (forge.go 241-245), the target tip that is merged into was evaluated too.*)
THEOREM MergedTargetEvaluated ==
    ASSUME AtomicMerge
    PROVE  Spec => []MergedTargetWasEvaluated
<1>1. MergeFacts => MergedTargetWasEvaluated
  BY DEF MergeFacts
<1> QED
  BY <1>1, MergeFactsInvariant, PTL

-----------------------------------------------------------------------------
(* Part 2.  What a publication leaves behind: first the effect of every step, *)
(* field by field; then one invariant per theorem over those effects.      *)

(* What each step does, field by field, for the invariants below.          *)

Goes(p, r) == run' = [run EXCEPT ![p] = r]
SameCall(r, c) == r.req = c.req /\ r.outcome = c.outcome
SameReceipt(r, c) == r.preamble = c.preamble /\ r.ops = c.ops /\ r.writes = c.writes
Returned(e, r, o) ==
    /\ e.pc = "idle" /\ e.outcome = o /\ e.req = r.req /\ e.writes = r.writes
    /\ e.preamble = {} /\ e.ops = {}
Answered(e, r) ==
    /\ e.pc = "idle" /\ e.outcome = "ok" /\ e.req = r.req /\ e.writes = r.writes
    /\ e.preamble = {} /\ e.ops = r.preamble \union r.ops
(* A write's response arrived, or was lost.                                *)
Replied(e, r) == e = r \/ Returned(e, r, "error")

(* What a returning invocation leaves in its record.                       *)
LEMMA ReturnFields ==
    ASSUME NEW r \in Run, NEW o \in Outcomes
    PROVE  /\ Ended(r, o) \in Run /\ Returned(Ended(r, o), r, o)
           /\ Succeeded(r) \in Run /\ Answered(Succeeded(r), r)
<1>1. <<>> \in Seq(Thread) /\ "idle" \in Steps /\ "ok" \in Outcomes
  BY DEF Steps, Outcomes
<1>2. Ended(r, o) \in Run /\ Returned(Ended(r, o), r, o)
  BY <1>1 DEF Ended, Run, Returned
<1>3. Succeeded(r) \in Run /\ Answered(Succeeded(r), r)
  BY <1>1 DEF Succeeded, Run, Answered
<1> QED
  BY <1>2, <1>3

(* Noting a write changes the history alone.                               *)
LEMMA WroteFields ==
    ASSUME Inv, NEW p \in Publishers, NEW k \in Writes
    PROVE  LET w == Wrote(p, k)
           IN  /\ w \in Run /\ SameCall(w, run[p]) /\ w.pc = run[p].pc
               /\ w.preamble = run[p].preamble /\ w.ops = run[p].ops
               /\ w.writes = run[p].writes \union {k}
               /\ w.existing = run[p].existing /\ w.pending = run[p].pending
               /\ w.canonical = run[p].canonical /\ w.mode = run[p].mode
               /\ w.note = run[p].note /\ w.seen = run[p].seen /\ w.repairs = run[p].repairs
<1>1. Wrote(p, k) \in Run
  BY WroteType DEF Inv, TypeOK
<1>2. run[p] \in Run
  BY Current
<1> QED
  BY <1>1, <1>2 DEF Wrote, Run, SameCall

(* A write's response arrives or is lost.                                  *)
LEMMA RespondFields ==
    ASSUME NEW p \in Publishers, NEW r \in Run, Respond(p, r)
    PROVE  \E e \in Run : Goes(p, e) /\ Replied(e, r)
<1>1. Ended(r, "error") \in Run /\ Returned(Ended(r, "error"), r, "error")
  BY ReturnFields DEF Outcomes
<1> QED
  BY <1>1 DEF Respond, Set, Goes, Replied

(* The listing and the lookup before the summary (forge.go 436-460).       *)
LEMMA SummaryEffect ==
    ASSUME Inv, NEW p \in Publishers, ListBotNotes(p) \/ UpsertLookup(p)
    PROVE  \E r \in Run :
              /\ Goes(p, r) /\ UNCHANGED <<forge, disturbed>>
              /\ run[p].pc \in {"listNotes", "upsertLookup"} /\ SameCall(r, run[p])
              /\ SameReceipt(r, run[p]) /\ r.pending = run[p].pending
              /\ r.pc \in {"upsertLookup", "upsertWrite"}
              /\ r.pc = "upsertWrite" => r.note = 0 \/ r.note \in DOMAIN notes
<1> DEFINE c == run[p]
           found == {i \in DOMAIN notes : notes[i].legible}
           r(n) == [c EXCEPT !.pc = "upsertWrite", !.note = n]
           s == [c EXCEPT !.pc = "upsertLookup"]
<1>1. c \in Run
  BY Current
<1>2. CASE ListBotNotes(p)
  <2>1. Goes(p, s) /\ c.pc = "listNotes" /\ UNCHANGED <<forge, disturbed>>
    BY <1>2 DEF ListBotNotes, Set, Goes
  <2> HIDE DEF c
  <2>2. /\ s \in Run /\ s.pc = "upsertLookup" /\ SameCall(s, c) /\ SameReceipt(s, c)
        /\ s.pending = c.pending
    BY <1>1 DEF Run, Steps, SameCall, SameReceipt
  <2> QED
    BY <2>1, <2>2 DEF c
<1>3. CASE UpsertLookup(p)
  <2>1. PICK n \in IF found = {} THEN {0} ELSE found : Set(p, r(n))
    BY <1>3 DEF UpsertLookup
  <2>2. n \in Nat /\ (n = 0 \/ n \in DOMAIN notes)
    BY <2>1 DEF Inv, TypeOK
  <2>3. Goes(p, r(n)) /\ c.pc = "upsertLookup" /\ UNCHANGED <<forge, disturbed>>
    BY <1>3, <2>1 DEF UpsertLookup, Set, Goes
  <2> HIDE DEF c
  <2>4. /\ r(n) \in Run /\ r(n).pc = "upsertWrite" /\ SameCall(r(n), c) /\ SameReceipt(r(n), c)
        /\ r(n).note = n /\ r(n).pending = c.pending
    BY <1>1, <2>2 DEF Run, Steps, SameCall, SameReceipt
  <2> HIDE DEF r
  <2> QED
    BY <2>2, <2>3, <2>4 DEF c
<1> QED
  BY <1>2, <1>3

(* The summary is written in place of the one found, or appended.          *)
LEMMA UpsertWriteEffect ==
    ASSUME Inv, NEW p \in Publishers, UpsertWrite(p)
    PROVE  \E r, e \in Run, n \in Nat :
              /\ Goes(p, e) /\ Replied(e, r) /\ Disturb(p)
              /\ UNCHANGED <<threads, head, approvals, merges>>
              /\ run[p].pc = "upsertWrite" /\ SameCall(r, run[p])
              /\ r.pc = ReconcilePathOf(Desired(p)) /\ r.pc # "unsupported"
              /\ r.ops = run[p].ops /\ r.pending = run[p].pending
              /\ r.preamble = {<<"thread", "note", n>>}
              /\ r.writes = run[p].writes \union {"note"}
              /\ DOMAIN notes \subseteq DOMAIN notes'
              /\ run[p].note = 0 \/ run[p].note \in DOMAIN notes => n \in DOMAIN notes'
              /\ \A i \in DOMAIN notes' : \/ i \in DOMAIN notes /\ notes'[i] = notes[i]
                                          \/ notes'[i].decision = Desired(p).summary
<1> DEFINE c == run[p]
           w == Wrote(p, "note")
           new == [decision |-> Desired(p).summary, legible |-> TRUE]
           n == IF c.note = 0 THEN Len(notes) + 1 ELSE c.note
           path == ReconcilePathOf(Desired(p))
           r == [w EXCEPT !.pc = path, !.preamble = {<<"thread", "note", n>>}]
<1>1. /\ c.pc = "upsertWrite" /\ Respond(p, r) /\ Disturb(p)
      /\ UNCHANGED <<threads, head, approvals, merges>>
      /\ notes' = IF c.note = 0 THEN Append(notes, new) ELSE [notes EXCEPT ![n] = new]
  BY DEF UpsertWrite
<1>2. c \in Run /\ notes \in Seq(Note) /\ n \in Nat
  BY Current DEF Run, Inv, TypeOK
<1>3. new.decision = Desired(p).summary
  OBVIOUS
<1>4. /\ DOMAIN notes \subseteq DOMAIN notes'
      /\ c.note = 0 \/ c.note \in DOMAIN notes => n \in DOMAIN notes'
      /\ \A i \in DOMAIN notes' : (i \in DOMAIN notes /\ notes'[i] = notes[i]) \/ notes'[i] = new
  <2> HIDE DEF new
  <2>1. CASE c.note = 0
    <3>1. notes' = Append(notes, new) /\ n = Len(notes) + 1
      BY <1>1, <2>1
    <3> QED
      BY <1>2, <3>1
  <2>2. CASE c.note # 0
    BY <1>1, <1>2, <2>2
  <2> QED
    BY <2>1, <2>2
<1>5. /\ w \in Run /\ SameCall(w, c) /\ w.ops = c.ops /\ w.writes = c.writes \union {"note"}
      /\ w.pending = c.pending
  BY WroteFields DEF Writes
<1>6. path \in Steps /\ path # "unsupported"
  <2>1. path \in {"clearList", "listThreads", "gate", "unsupported"}
    BY <1>1, CurrentRequest, PathNeeds
  <2>2. path # "unsupported"
    BY <1>1, Current DEF RunOK, SummarySteps, Desired
  <2> QED
    BY <2>1, <2>2 DEF Steps
<1>7. {<<"thread", "note", n>>} \in SUBSET Operation
  BY <1>2 DEF Operation
<1> HIDE DEF w, c, path, n, new
<1>8. /\ r \in Run /\ SameCall(r, w) /\ r.pc = path /\ r.ops = w.ops /\ r.writes = w.writes
      /\ r.preamble = {<<"thread", "note", n>>} /\ r.pending = w.pending
  BY <1>5, <1>6, <1>7 DEF Run, SameCall
<1> HIDE DEF r
<1>9. PICK e \in Run : Goes(p, e) /\ Replied(e, r)
  BY <1>1, <1>8, RespondFields
<1> QED
  BY <1>1, <1>2, <1>3, <1>4, <1>5, <1>6, <1>8, <1>9 DEF c, path, SameCall

(* reconcileThread lists the threads (forge.go 468-476).                   *)
LEMMA ListBotThreadsEffect ==
    ASSUME Inv, NEW p \in Publishers, ListBotThreads(p)
    PROVE  \E r \in Run :
              /\ Goes(p, r) /\ UNCHANGED <<forge, disturbed>>
              /\ run[p].pc = "listThreads" /\ SameCall(r, run[p]) /\ SameReceipt(r, run[p])
              /\ r.pc = "classify" /\ r.existing = threads
              /\ r.pending = StaleOpen(threads, Desired(p).thread)
<1> DEFINE c == run[p]
           stale == StaleOpen(threads, Desired(p).thread)
           r == [c EXCEPT !.pc = "classify", !.existing = threads, !.pending = stale]
<1>1. c \in Run /\ threads \in Seq(Thread) /\ stale \subseteq Nat
  BY Current, ListingType DEF Inv, TypeOK
<1>2. Goes(p, r) /\ c.pc = "listThreads" /\ UNCHANGED <<forge, disturbed>>
  BY DEF ListBotThreads, Set, Goes
<1> HIDE DEF c, stale
<1>3. /\ r \in Run /\ SameCall(r, c) /\ SameReceipt(r, c) /\ r.pc = "classify"
      /\ r.existing = threads /\ r.pending = stale
  BY <1>1 DEF Run, Steps, SameCall, SameReceipt
<1> HIDE DEF r
<1> QED
  BY <1>2, <1>3 DEF c, stale

(* Resolving a stale occurrence, then a duplicate (forge.go 476-485,       *)
(* 700-716).                                                               *)
LEMMA ResolveEffect ==
    ASSUME Inv, NEW p \in Publishers, Supersede(p) \/ RepairDuplicate(p)
    PROVE  \E r, e \in Run, i \in run[p].pending :
              /\ Goes(p, e) /\ Replied(e, r) /\ Disturb(p)
              /\ threads' = ResolveAt(threads, i) /\ UNCHANGED <<notes, head, approvals, merges>>
              /\ run[p].pc \in {"classify", "repair"} /\ SameCall(r, run[p])
              /\ r.preamble = run[p].preamble /\ r.ops = run[p].ops
              /\ r.writes = run[p].writes \union {"resolve"}
              /\ r.pc = run[p].pc /\ r.existing = run[p].existing
              /\ r.pending = run[p].pending \ {i}
              /\ r.canonical = run[p].canonical /\ r.mode = run[p].mode
<1> DEFINE c == run[p]
           w == Wrote(p, "resolve")
           r1(i) == [w EXCEPT !.pending = @ \ {i}]
           r2(i) == [w EXCEPT !.pending = @ \ {i}, !.repairs = @ \union {<<i, c.canonical>>}]
<1>1. PICK i \in c.pending : /\ threads' = ResolveAt(threads, i)
                             /\ Respond(p, r1(i)) \/ Respond(p, r2(i))
  BY DEF Supersede, RepairDuplicate
<1>2. /\ c.pc \in {"classify", "repair"} /\ Disturb(p) /\ UNCHANGED <<notes, head, approvals, merges>>
  BY DEF Supersede, RepairDuplicate
<1>3. c \in Run /\ i \in Nat /\ c.canonical \in Nat
  BY <1>1, Current DEF Run
<1>4. /\ w \in Run /\ SameCall(w, c) /\ w.ops = c.ops /\ w.writes = c.writes \union {"resolve"}
      /\ w.preamble = c.preamble /\ w.pc = c.pc /\ w.existing = c.existing
      /\ w.pending = c.pending /\ w.canonical = c.canonical /\ w.mode = c.mode
  BY WroteFields DEF Writes
<1> HIDE DEF c, w
<1>5. ASSUME NEW r, r = r1(i) \/ r = r2(i)
      PROVE  /\ r \in Run /\ SameCall(r, w) /\ r.ops = w.ops /\ r.writes = w.writes
             /\ r.preamble = w.preamble /\ r.pc = w.pc /\ r.existing = w.existing
             /\ r.pending = w.pending \ {i} /\ r.canonical = w.canonical /\ r.mode = w.mode
  <2>1. w.pending \ {i} \in SUBSET Nat /\ w.repairs \union {<<i, c.canonical>>} \in SUBSET (Nat \X Nat)
    BY <1>3, <1>4 DEF Run
  <2>2. CASE r = r1(i)
    BY <1>4, <2>1, <2>2 DEF Run, SameCall
  <2>3. CASE r = r2(i)
    BY <1>4, <2>1, <2>3 DEF Run, SameCall
  <2> QED
    BY <1>5, <2>2, <2>3
<1>6. PICK r : Respond(p, r) /\ (r = r1(i) \/ r = r2(i))
  BY <1>1
<1> HIDE DEF r1, r2
<1>7. PICK e \in Run : Goes(p, e) /\ Replied(e, r)
  BY <1>5, <1>6, RespondFields
<1>8. /\ r \in Run /\ SameCall(r, c) /\ r.ops = c.ops /\ r.writes = c.writes \union {"resolve"}
      /\ r.preamble = c.preamble /\ r.pc = c.pc /\ r.existing = c.existing
      /\ r.pending = c.pending \ {i} /\ r.canonical = c.canonical /\ r.mode = c.mode
  BY <1>4, <1>5, <1>6 DEF SameCall
<1> QED
  BY <1>1, <1>2, <1>7, <1>8 DEF c

(* repairDuplicates picks the canonical thread (forge.go 694-699).         *)
LEMMA StartRepairEffect ==
    ASSUME Inv, NEW p \in Publishers, StartRepair(p)
    PROVE  LET occupants == Occupants(run[p].existing, Desired(p).thread)
           IN  \E r \in Run, i \in Canonicals(occupants) :
              /\ Goes(p, r) /\ UNCHANGED <<forge, disturbed>>
              /\ run[p].pc = "classify" /\ run[p].pending = {} /\ HasDuplicates(occupants)
              /\ SameCall(r, run[p]) /\ SameReceipt(r, run[p])
              /\ r.pc = "repair" /\ r.canonical = i /\ r.mode = "repair"
              /\ r.pending = occupants \ {i} /\ r.existing = run[p].existing
<1> DEFINE c == run[p]
           occupants == Occupants(c.existing, Desired(p).thread)
           r(i) == [c EXCEPT !.pc = "repair", !.canonical = i, !.mode = "repair",
                             !.pending = occupants \ {i}]
<1>1. PICK i \in Canonicals(occupants) : Set(p, r(i))
  BY DEF StartRepair
<1>2. /\ c.pc = "classify" /\ c.pending = {} /\ HasDuplicates(occupants)
      /\ UNCHANGED <<forge, disturbed>>
  BY DEF StartRepair
<1>3. c \in Run /\ occupants \subseteq Nat
  BY Current, ListingType DEF Run
<1>4. i \in occupants
  BY <1>1 DEF Canonicals
<1>5. occupants \ {i} \in SUBSET Nat /\ i \in Nat
  BY <1>3, <1>4
<1> HIDE DEF c, occupants
<1>6. /\ r(i) \in Run /\ SameCall(r(i), c) /\ SameReceipt(r(i), c) /\ r(i).pc = "repair"
      /\ r(i).canonical = i /\ r(i).mode = "repair" /\ r(i).pending = occupants \ {i}
      /\ r(i).existing = c.existing
  BY <1>3, <1>5 DEF Run, Steps, Modes, SameCall, SameReceipt
<1>7. Goes(p, r(i))
  BY <1>1 DEF Set, Goes
<1> HIDE DEF r
<1> QED
  BY <1>1, <1>2, <1>6, <1>7 DEF c, occupants

(* The repair ends, or the only occupant is reused (forge.go 502-522,      *)
(* 717-724).                                                               *)
LEMMA SettleEffect ==
    ASSUME Inv, NEW p \in Publishers, EndRepair(p) \/ ReuseThread(p)
    PROVE  \E r \in Run, i \in Nat :
              /\ Goes(p, r) /\ UNCHANGED <<forge, disturbed>>
              /\ run[p].pending = {} /\ SameCall(r, run[p])
              /\ r.preamble = run[p].preamble /\ r.writes = run[p].writes
              /\ r.pc = "rescan" /\ r.ops = {<<"thread", "discussion", i>>}
              /\ \/ run[p].pc = "repair" /\ i = run[p].canonical /\ r.mode = run[p].mode
                 \/ /\ run[p].pc = "classify"
                    /\ Occupants(run[p].existing, Desired(p).thread) = {i}
                    /\ r.mode = IF Resolved(run[p].existing[i]) THEN "preserveResolved" ELSE "open"
<1> DEFINE c == run[p]
           occupants == Occupants(c.existing, Desired(p).thread)
           k(i) == IF Resolved(c.existing[i]) THEN "preserveResolved" ELSE "open"
           r1 == [c EXCEPT !.pc = "rescan", !.ops = {<<"thread", "discussion", c.canonical>>}]
           r2(i) == [c EXCEPT !.pc = "rescan", !.mode = k(i), !.ops = {<<"thread", "discussion", i>>}]
<1>1. c \in Run /\ occupants \subseteq Nat /\ c.canonical \in Nat
  BY Current, ListingType DEF Run
<1>2. c.pending = {} /\ UNCHANGED <<forge, disturbed>>
  BY DEF EndRepair, ReuseThread
<1>3. \A i \in Nat : {<<"thread", "discussion", i>>} \in SUBSET Operation
  BY DEF Operation
<1>4. CASE EndRepair(p)
  <2>1. Goes(p, r1) /\ c.pc = "repair"
    BY <1>4 DEF EndRepair, Set, Goes
  <2> HIDE DEF c
  <2>2. {<<"thread", "discussion", c.canonical>>} \in SUBSET Operation
    BY <1>1, <1>3
  <2>3. /\ r1 \in Run /\ SameCall(r1, c) /\ r1.preamble = c.preamble /\ r1.writes = c.writes
        /\ r1.pc = "rescan" /\ r1.ops = {<<"thread", "discussion", c.canonical>>}
        /\ r1.mode = c.mode
    BY <1>1, <2>2 DEF Run, Steps, SameCall
  <2> HIDE DEF r1
  <2> QED
    BY <1>1, <1>2, <2>1, <2>3 DEF c
<1>5. CASE ReuseThread(p)
  <2>1. PICK i \in occupants : occupants = {i} /\ Goes(p, r2(i)) /\ c.pc = "classify"
    BY <1>5 DEF ReuseThread, Set, Goes
  <2>2. i \in Nat /\ {<<"thread", "discussion", i>>} \in SUBSET Operation /\ k(i) \in Modes
    BY <1>1, <1>3, <2>1 DEF Modes
  <2> HIDE DEF c, k, occupants
  <2>3. /\ r2(i) \in Run /\ SameCall(r2(i), c) /\ r2(i).preamble = c.preamble
        /\ r2(i).writes = c.writes /\ r2(i).pc = "rescan"
        /\ r2(i).ops = {<<"thread", "discussion", i>>} /\ r2(i).mode = k(i)
    BY <1>1, <2>2 DEF Run, Steps, SameCall
  <2> HIDE DEF r2
  <2> QED
    BY <1>2, <2>1, <2>2, <2>3 DEF c, k, occupants
<1> QED
  BY <1>4, <1>5

(* A new thread is posted (forge.go 524-543).                              *)
LEMMA CreateThreadEffect ==
    ASSUME Inv, NEW p \in Publishers, CreateThread(p)
    PROVE  LET m == Desired(p).thread
           IN  \E r, e \in Run :
              /\ Goes(p, e) /\ Replied(e, r) /\ Disturb(p) /\ UNCHANGED <<notes, head, approvals, merges>>
              /\ threads' = Append(threads, [slot |-> m.slot, occurrence |-> m.occurrence,
                                             legible |-> TRUE, resolver |-> "nobody"])
              /\ run[p].pc = "classify" /\ run[p].pending = {} /\ Occupants(run[p].existing, m) = {}
              /\ SameCall(r, run[p]) /\ r.preamble = run[p].preamble
              /\ r.writes = run[p].writes \union {"thread"}
              /\ r.pc = "rescan" /\ r.mode = "open"
              /\ r.ops = {<<"thread", "discussion", Len(threads) + 1>>}
<1> DEFINE c == run[p]
           w == Wrote(p, "thread")
           n == Len(threads) + 1
           r == [w EXCEPT !.pc = "rescan", !.mode = "open", !.ops = {<<"thread", "discussion", n>>}]
<1>1. Respond(p, r) /\ Disturb(p) /\ UNCHANGED <<notes, head, approvals, merges>>
  BY DEF CreateThread
<1>2. {<<"thread", "discussion", n>>} \in SUBSET Operation
  BY DEF Operation, Inv, TypeOK
<1>3. w \in Run /\ SameCall(w, c) /\ w.preamble = c.preamble /\ w.writes = c.writes \union {"thread"}
  BY WroteFields DEF Writes
<1> HIDE DEF c, w, n
<1>4. /\ r \in Run /\ SameCall(r, w) /\ r.preamble = w.preamble /\ r.writes = w.writes
      /\ r.pc = "rescan" /\ r.mode = "open" /\ r.ops = {<<"thread", "discussion", n>>}
  BY <1>2, <1>3 DEF Run, Steps, Modes, SameCall
<1> HIDE DEF r
<1>5. PICK e \in Run : Goes(p, e) /\ Replied(e, r)
  BY <1>1, <1>4, RespondFields
<1>6. /\ SameCall(r, c) /\ r.preamble = c.preamble /\ r.writes = c.writes \union {"thread"}
  BY <1>3, <1>4 DEF SameCall
<1> QED
  BY <1>1, <1>4, <1>5, <1>6 DEF c, n, CreateThread

(* The rescans decide the outcome (forge.go 554-609, 760-775).             *)
LEMMA RescanEffect ==
    ASSUME Inv, NEW p \in Publishers, RescanThreadDesired(p) \/ RescanClearSlot(p)
    PROVE  \E e \in Run :
              /\ Goes(p, e) /\ UNCHANGED <<forge, disturbed>>
              /\ \/ Answered(e, run[p]) \/ Returned(e, run[p], "ErrRescanFailed")
              /\ \/ /\ run[p].pc = "rescan"
                    /\ VerifyThreadRescan(threads, Desired(p).thread, run[p].mode) <=> e.outcome = "ok"
                 \/ /\ run[p].pc = "clearRescan" /\ run[p].pending = {}
                    /\ OpenInSlot(threads, Desired(p).clearSlot) = {} <=> e.outcome = "ok"
<1> DEFINE c == run[p]
           bad == Ended(c, "ErrRescanFailed")
           good == Succeeded(c)
<1>1. /\ good \in Run /\ Answered(good, c) /\ bad \in Run /\ Returned(bad, c, "ErrRescanFailed")
  BY Current, ReturnFields DEF Outcomes
<1>2. good.outcome = "ok" /\ bad.outcome = "ErrRescanFailed"
  BY <1>1 DEF Answered, Returned
<1> HIDE DEF good, bad
<1>3. CASE RescanThreadDesired(p)
  <2>1. /\ c.pc = "rescan" /\ UNCHANGED <<forge, disturbed>>
        /\ Goes(p, IF VerifyThreadRescan(threads, Desired(p).thread, c.mode) THEN good ELSE bad)
    BY <1>3 DEF RescanThreadDesired, Set, Goes, good, bad
  <2> QED
    BY <1>1, <1>2, <2>1
<1>4. CASE RescanClearSlot(p)
  <2>1. /\ c.pc = "clearRescan" /\ c.pending = {} /\ UNCHANGED <<forge, disturbed>>
        /\ Goes(p, IF OpenInSlot(threads, Desired(p).clearSlot) = {} THEN good ELSE bad)
    BY <1>4 DEF RescanClearSlot, Set, Goes, good, bad
  <2> QED
    BY <1>1, <1>2, <2>1
<1> QED
  BY <1>3, <1>4

(* reconcileClearSlot lists the slot (forge.go 736-752).                   *)
LEMMA ClearListEffect ==
    ASSUME Inv, NEW p \in Publishers, ClearList(p)
    PROVE  \E e \in Run :
              /\ Goes(p, e) /\ UNCHANGED <<forge, disturbed>> /\ run[p].pc = "clearList"
              /\ \/ \E o \in {"ErrUnsupportedDecision", "error"} : Returned(e, run[p], o)
                 \/ /\ SameCall(e, run[p]) /\ e.pc = "clearRescan" /\ e.preamble = run[p].preamble
                    /\ e.writes = run[p].writes
                    /\ \/ /\ \E i \in DOMAIN threads : e.ops = {<<"thread", "discussion", i>>}
                          /\ e.pending = run[p].pending
                          /\ OpenInSlot(threads, Desired(p).clearSlot) = {}
                       \/ /\ e.ops = run[p].ops
                          /\ e.pending = OpenInSlot(threads, Desired(p).clearSlot)
                          /\ IsSingleton(e.pending)
<1> DEFINE c == run[p]
           open == OpenInSlot(threads, Desired(p).clearSlot)
           inSlot == {i \in Listed(threads) : threads[i].slot = Desired(p).clearSlot}
           r1(i) == [c EXCEPT !.pc = "clearRescan", !.ops = {<<"thread", "discussion", i>>}]
           r2 == [c EXCEPT !.pc = "clearRescan", !.pending = open]
           r3(o) == Ended(c, o)
<1>1. /\ c.pc = "clearList" /\ UNCHANGED <<forge, disturbed>>
      /\ \/ \E o \in {"ErrUnsupportedDecision", "error"} : Goes(p, r3(o))
         \/ open = {} /\ \E i \in inSlot : Goes(p, r1(i))
         \/ IsSingleton(open) /\ Goes(p, r2)
  BY DEF ClearList, Set, Goes
<1>2. c \in Run /\ threads \in Seq(Thread) /\ open \subseteq Nat
  BY Current, ListingType DEF Inv, TypeOK
<1>3. inSlot \subseteq DOMAIN threads
  BY DEF Listed
<1>4. \A i \in DOMAIN threads : {<<"thread", "discussion", i>>} \in SUBSET Operation
  BY <1>2 DEF Operation
<1>5. \A o \in {"ErrUnsupportedDecision", "error"} : r3(o) \in Run /\ Returned(r3(o), c, o)
  BY <1>2, ReturnFields DEF Outcomes
<1> HIDE DEF c, open, inSlot, r3
<1>6. ASSUME NEW i \in DOMAIN threads
      PROVE  /\ r1(i) \in Run /\ SameCall(r1(i), c) /\ r1(i).pc = "clearRescan"
             /\ r1(i).preamble = c.preamble /\ r1(i).writes = c.writes
             /\ r1(i).ops = {<<"thread", "discussion", i>>} /\ r1(i).pending = c.pending
  BY <1>2, <1>4 DEF Run, Steps, SameCall
<1>7. /\ r2 \in Run /\ SameCall(r2, c) /\ r2.pc = "clearRescan" /\ r2.preamble = c.preamble
      /\ r2.writes = c.writes /\ r2.ops = c.ops /\ r2.pending = open
  BY <1>2 DEF Run, Steps, SameCall
<1> HIDE DEF r1, r2
<1>8. CASE \E o \in {"ErrUnsupportedDecision", "error"} : Goes(p, r3(o))
  BY <1>1, <1>5, <1>8 DEF c
<1>9. CASE open = {} /\ \E i \in inSlot : Goes(p, r1(i))
  BY <1>1, <1>3, <1>6, <1>9 DEF c, open
<1>10. CASE IsSingleton(open) /\ Goes(p, r2)
  BY <1>1, <1>7, <1>10 DEF c, open
<1> QED
  BY <1>1, <1>8, <1>9, <1>10

(* The slot's one open thread is resolved (forge.go 753-759).              *)
LEMMA ClearResolveEffect ==
    ASSUME Inv, NEW p \in Publishers, ClearResolve(p)
    PROVE  \E r, e \in Run, i \in run[p].pending :
              /\ Goes(p, e) /\ Replied(e, r) /\ Disturb(p)
              /\ threads' = ResolveAt(threads, i) /\ UNCHANGED <<notes, head, approvals, merges>>
              /\ run[p].pc = "clearRescan" /\ SameCall(r, run[p]) /\ r.preamble = run[p].preamble
              /\ r.writes = run[p].writes \union {"resolve"}
              /\ r.pc = "clearRescan" /\ r.pending = {} /\ r.ops = {<<"thread", "discussion", i>>}
<1> DEFINE c == run[p]
           w == Wrote(p, "resolve")
           r(i) == [w EXCEPT !.pending = {}, !.ops = {<<"thread", "discussion", i>>}]
<1>1. PICK i \in c.pending : threads' = ResolveAt(threads, i) /\ Respond(p, r(i))
  BY DEF ClearResolve
<1>2. c.pc = "clearRescan" /\ Disturb(p) /\ UNCHANGED <<notes, head, approvals, merges>>
  BY DEF ClearResolve
<1>3. {<<"thread", "discussion", i>>} \in SUBSET Operation
  BY <1>1, Current DEF Run, Operation
<1>4. /\ w \in Run /\ SameCall(w, c) /\ w.preamble = c.preamble /\ w.pc = c.pc
      /\ w.writes = c.writes \union {"resolve"}
  BY WroteFields DEF Writes
<1> HIDE DEF c, w
<1>5. /\ r(i) \in Run /\ SameCall(r(i), w) /\ r(i).preamble = w.preamble /\ r(i).pc = w.pc
      /\ r(i).writes = w.writes /\ r(i).pending = {} /\ r(i).ops = {<<"thread", "discussion", i>>}
  BY <1>3, <1>4 DEF Run, SameCall
<1> HIDE DEF r
<1>6. PICK e \in Run : Goes(p, e) /\ Replied(e, r(i))
  BY <1>1, <1>5, RespondFields
<1>7. SameCall(r(i), c)
  BY <1>4, <1>5 DEF SameCall
<1> QED
  BY <1>1, <1>2, <1>4, <1>5, <1>6, <1>7 DEF c

(* The arming gate (forge.go 789-801).                                     *)
LEMMA ArmingGateEffect ==
    ASSUME Inv, NEW p \in Publishers, ArmingGate(p)
    PROVE  \E e \in Run :
              /\ Goes(p, e) /\ UNCHANGED <<forge, disturbed>> /\ run[p].pc = "gate"
              /\ \/ \E o \in {"ErrArmingRefused", "ErrIncompletePreconditions"} :
                       Returned(e, run[p], o)
                 \/ e.pc = "headsSource" /\ SameCall(e, run[p]) /\ SameReceipt(e, run[p])
<1> DEFINE c == run[p]
           r == [c EXCEPT !.pc = "headsSource"]
           s(o) == Ended(c, o)
<1>1. /\ c.pc = "gate" /\ UNCHANGED <<forge, disturbed>>
      /\ \/ \E o \in {"ErrArmingRefused", "ErrIncompletePreconditions"} : Goes(p, s(o))
         \/ Goes(p, r)
  BY DEF ArmingGate, Set, Goes
<1>2. c \in Run
  BY Current
<1>3. \A o \in {"ErrArmingRefused", "ErrIncompletePreconditions"} :
         s(o) \in Run /\ Returned(s(o), c, o)
  BY <1>2, ReturnFields DEF Outcomes, Refusals
<1> HIDE DEF c, s
<1>4. r \in Run /\ r.pc = "headsSource" /\ SameCall(r, c) /\ SameReceipt(r, c)
  BY <1>2 DEF Run, Steps, SameCall, SameReceipt
<1> HIDE DEF r
<1> QED
  BY <1>1, <1>3, <1>4 DEF c

(* The steps that read the heads (forge.go 803-818, gitlab.go 1006-1032).  *)
LEMMA HeadsEffect ==
    ASSUME Inv, NEW p \in Publishers,
           ReadSource(p) \/ ShaGuard(p) \/ CasReadSource(p) \/ CasGuard(p)
    PROVE  LET c == run[p]
               m == Desired(p).merge
           IN  \E e \in Run :
              /\ Goes(p, e) /\ UNCHANGED <<forge, disturbed>>
              /\ \/ /\ SameCall(e, c) /\ SameReceipt(e, c)
                    /\ \/ c.pc = "headsSource" /\ e.pc = "headsTarget" /\ e.seen = head.source
                       \/ /\ c.pc = "headsTarget" /\ e.pc = "approve"
                          /\ c.seen = m.source /\ head.target = m.target
                          /\ SyntheticDigest(c.seen, head.target) = m.digest
                       \/ c.pc = "cas" /\ e.pc = "casTarget" /\ e.seen = head.source
                       \/ /\ c.pc = "casTarget" /\ e.pc = "put"
                          /\ c.seen = m.source /\ head.target = m.target
                 \/ /\ Returned(e, c, "ErrSHAMoved")
                    /\ \/ /\ c.pc = "headsTarget"
                          /\ ~(/\ c.seen = m.source /\ head.target = m.target
                               /\ SyntheticDigest(c.seen, head.target) = m.digest)
                       \/ c.pc = "casTarget" /\ ~(c.seen = m.source /\ head.target = m.target)
<1> DEFINE c == run[p]
           m == Desired(p).merge
           seen(s) == [c EXCEPT !.pc = s, !.seen = head.source]
           goto(s) == [c EXCEPT !.pc = s]
           moved == Ended(c, "ErrSHAMoved")
<1>1. c \in Run /\ head.source \in Shas
  BY Current DEF Inv, TypeOK, Heads
<1>2. moved \in Run /\ Returned(moved, c, "ErrSHAMoved")
  BY <1>1, ReturnFields DEF Outcomes, Refusals
<1>3. ASSUME NEW s \in {"headsTarget", "approve", "casTarget", "put"}
      PROVE  /\ seen(s) \in Run /\ seen(s).pc = s /\ seen(s).seen = head.source
             /\ SameCall(seen(s), c) /\ SameReceipt(seen(s), c)
             /\ goto(s) \in Run /\ goto(s).pc = s
             /\ SameCall(goto(s), c) /\ SameReceipt(goto(s), c)
  <2> HIDE DEF c
  <2> QED
    BY <1>1 DEF Run, Steps, SameCall, SameReceipt
<1>4. UNCHANGED <<forge, disturbed>>
  BY DEF ReadSource, ShaGuard, CasReadSource, CasGuard
<1>5. CASE ReadSource(p)
  <2>1. c.pc = "headsSource" /\ Goes(p, seen("headsTarget"))
    BY <1>5 DEF ReadSource, Set, Goes
  <2> HIDE DEF seen, goto, moved
  <2> QED
    BY <1>3, <1>4, <2>1
<1>6. CASE CasReadSource(p)
  <2>1. c.pc = "cas" /\ Goes(p, seen("casTarget"))
    BY <1>6 DEF CasReadSource, Set, Goes
  <2> HIDE DEF seen, goto, moved
  <2> QED
    BY <1>3, <1>4, <2>1
<1>7. CASE ShaGuard(p)
  <2>1. /\ c.pc = "headsTarget"
        /\ Goes(p, IF /\ c.seen = m.source /\ head.target = m.target
                      /\ SyntheticDigest(c.seen, head.target) = m.digest
                     THEN goto("approve") ELSE moved)
    BY <1>7 DEF ShaGuard, Set, Goes
  <2> HIDE DEF seen, goto, moved
  <2> QED
    BY <1>2, <1>3, <1>4, <2>1
<1>8. CASE CasGuard(p)
  <2>1. /\ c.pc = "casTarget"
        /\ Goes(p, IF head.target = m.target /\ c.seen = m.source THEN goto("put") ELSE moved)
    BY <1>8 DEF CasGuard, Set, Goes
  <2> HIDE DEF seen, goto, moved
  <2> QED
    BY <1>2, <1>3, <1>4, <2>1
<1> QED
  BY <1>5, <1>6, <1>7, <1>8

(* The approval (forge.go 819-823).                                        *)
LEMMA ApproveEffect ==
    ASSUME Inv, NEW p \in Publishers, Approve(p)
    PROVE  \E r, e \in Run :
              /\ Goes(p, e) /\ Replied(e, r) /\ Disturb(p)
              /\ approvals' = approvals \union {head} /\ UNCHANGED <<threads, notes, head, merges>>
              /\ run[p].pc = "approve" /\ SameCall(r, run[p]) /\ r.preamble = run[p].preamble
              /\ r.writes = run[p].writes \union {"approval"}
              /\ r.pc = "cas" /\ r.ops = {<<"approval", "mr", 0>>}
<1> DEFINE c == run[p]
           w == Wrote(p, "approval")
           r == [w EXCEPT !.pc = "cas", !.ops = {<<"approval", "mr", 0>>}]
<1>1. /\ c.pc = "approve" /\ approvals' = approvals \union {head} /\ Respond(p, r) /\ Disturb(p)
      /\ UNCHANGED <<threads, notes, head, merges>>
  BY DEF Approve
<1>2. /\ w \in Run /\ SameCall(w, c) /\ w.preamble = c.preamble
      /\ w.writes = c.writes \union {"approval"}
  BY WroteFields DEF Writes
<1>3. {<<"approval", "mr", 0>>} \in SUBSET Operation
  BY DEF Operation
<1> HIDE DEF c, w
<1>4. /\ r \in Run /\ SameCall(r, w) /\ r.preamble = w.preamble /\ r.writes = w.writes
      /\ r.pc = "cas" /\ r.ops = {<<"approval", "mr", 0>>}
  BY <1>2, <1>3 DEF Run, Steps, SameCall
<1> HIDE DEF r
<1>5. PICK e \in Run : Goes(p, e) /\ Replied(e, r)
  BY <1>1, <1>4, RespondFields
<1>6. SameCall(r, c)
  BY <1>2, <1>4 DEF SameCall
<1> QED
  BY <1>1, <1>2, <1>4, <1>5, <1>6 DEF c

(* Both forms of the merge (fake.go 284-303, gitlab.go 1033-1047).         *)
LEMMA MergeEffect ==
    ASSUME Inv, NEW p \in Publishers, MergeCASAtomic(p) \/ MergePut(p)
    PROVE  LET c == run[p]
               m == Desired(p).merge
           IN  \E e \in Run :
              /\ Goes(p, e) /\ c.pc \in {"cas", "put"} /\ (c.pc = "cas" => AtomicMerge)
              /\ \/ /\ UNCHANGED <<forge, disturbed>>
                    /\ \/ Returned(e, c, "error")
                       \/ /\ Returned(e, c, "ErrSHAMoved")
                          /\ \/ m.source # head.source
                             \/ /\ c.pc = "cas"
                                /\ \/ m.target # head.target
                                   \/ m.digest # SyntheticDigest(head.source, head.target)
                 \/ /\ Disturb(p) /\ UNCHANGED <<threads, notes, approvals>>
                    /\ ~Merged /\ m.source = head.source
                    /\ c.pc = "cas" => m.target = head.target
                    /\ merges' = Append(merges, [pins |-> m, arm |-> Pre(p).arm, at |-> head])
                    /\ head' = [head EXCEPT !.target = MergedTip]
                    /\ e.pc = "idle" /\ e.req = c.req /\ e.writes = c.writes \union {"merge"}
                    /\ \/ /\ e.outcome = "ok"
                          /\ e.ops = c.preamble \union (c.ops \union {<<"merge", "mr", 0>>})
                       \/ e.outcome = "error"
<1> DEFINE c == run[p]
           m == Desired(p).merge
           w == Wrote(p, "merge")
           v == [w EXCEPT !.ops = @ \union {<<"merge", "mr", 0>>}]
           refused(o) == Ended(c, o)
<1>1. c.pc \in {"cas", "put"} /\ (c.pc = "cas" => AtomicMerge)
  BY DEF MergeCASAtomic, MergePut
<1>2. \A o \in {"error", "ErrSHAMoved"} : refused(o) \in Run /\ Returned(refused(o), c, o)
  BY Current, ReturnFields DEF Outcomes, Refusals
<1>3. CASE RefuseMerge(p, "error")
  BY <1>1, <1>2, <1>3 DEF RefuseMerge, Set, Goes
<1>4. CASE /\ RefuseMerge(p, "ErrSHAMoved")
           /\ \/ m.source # head.source
              \/ /\ c.pc = "cas"
                 /\ \/ m.target # head.target
                    \/ m.digest # SyntheticDigest(head.source, head.target)
  BY <1>1, <1>2, <1>4 DEF RefuseMerge, Set, Goes
<1>5. CASE /\ PerformMerge(p) /\ ~Merged /\ m.source = head.source
           /\ c.pc = "cas" => m.target = head.target
  <2>1. /\ w \in Run /\ SameCall(w, c) /\ w.preamble = c.preamble /\ w.ops = c.ops
        /\ w.writes = c.writes \union {"merge"}
    BY WroteFields DEF Writes
  <2>2. {<<"merge", "mr", 0>>} \in SUBSET Operation
    BY DEF Operation
  <2>3. Respond(p, Succeeded(v)) /\ Disturb(p) /\ UNCHANGED <<threads, notes, approvals>>
    BY <1>5 DEF PerformMerge
  <2> HIDE DEF c, w
  <2>4. /\ v \in Run /\ SameCall(v, w) /\ v.preamble = w.preamble /\ v.writes = w.writes
        /\ v.ops = w.ops \union {<<"merge", "mr", 0>>}
    BY <2>1, <2>2 DEF Run, SameCall
  <2> HIDE DEF v
  <2>5. Succeeded(v) \in Run /\ Answered(Succeeded(v), v)
    BY <2>4, ReturnFields DEF Outcomes
  <2>6. PICK e \in Run : Goes(p, e) /\ Replied(e, Succeeded(v))
    BY <2>3, <2>5, RespondFields
  <2>7. /\ e.pc = "idle" /\ e.req = c.req /\ e.writes = c.writes \union {"merge"}
        /\ \/ /\ e.outcome = "ok"
              /\ e.ops = c.preamble \union (c.ops \union {<<"merge", "mr", 0>>})
           \/ e.outcome = "error"
    BY <2>1, <2>4, <2>5, <2>6 DEF Answered, Returned, Replied, SameCall
  <2> QED
    BY <1>1, <1>5, <2>3, <2>6, <2>7 DEF PerformMerge, c
<1> QED
  BY <1>3, <1>4, <1>5 DEF MergeCASAtomic, MergePut

(* A failed call or a crash.                                               *)
LEMMA FailEffect ==
    ASSUME Inv, NEW p \in Publishers, Fail(p)
    PROVE  \E e \in Run : /\ Goes(p, e) /\ Returned(e, run[p], "error") /\ run[p].pc # "idle"
                          /\ UNCHANGED <<forge, disturbed>>
BY Current, ReturnFields DEF Outcomes, Fail, Goes

(* The call of Reconcile (forge.go 356-388).                               *)
LEMMA EnterEffect ==
    ASSUME NEW p \in Publishers, NEW req \in Requests, Enter(p, req)
    PROVE  \E e \in Run :
              /\ Goes(p, e) /\ UNCHANGED forge /\ disturbed' = disturbed \ {p}
              /\ e.req = req /\ e.preamble = {} /\ e.ops = {} /\ e.writes = {} /\ e.pending = {}
              /\ \/ e.pc = "idle" /\ e.outcome = "ErrUnsupportedDecision"
                 \/ /\ e.outcome = "none" /\ ReconcilePathOf(req.desired) # "unsupported"
                    /\ e.pc = IF req.desired.summary # Nil THEN "listNotes"
                              ELSE ReconcilePathOf(req.desired)
<1> DEFINE path == ReconcilePathOf(req.desired)
           r0 == [IdleRun EXCEPT !.req = req]
           r1 == [r0 EXCEPT !.pc = IF req.desired.summary # Nil THEN "listNotes" ELSE path]
           bad == Ended(r0, "ErrUnsupportedDecision")
<1>1. path \in {"clearList", "listThreads", "gate", "unsupported"}
  BY RequestsAssumption, PathNeeds
<1>2. <<>> \in Seq(Thread)
  OBVIOUS
<1>3. /\ r0 \in Run /\ r0.req = req /\ r0.outcome = "none" /\ r0.preamble = {} /\ r0.ops = {}
      /\ r0.writes = {} /\ r0.pending = {}
  BY <1>2 DEF IdleRun, Run, Steps, Modes, Outcomes
<1>4. /\ Goes(p, IF path = "unsupported" THEN bad ELSE r1)
      /\ UNCHANGED forge /\ disturbed' = disturbed \ {p}
  BY DEF Enter, Goes
<1>5. bad.pending = {}
  BY <1>3 DEF Ended, Run
<1> HIDE DEF r0, path
<1>6. bad \in Run /\ Returned(bad, r0, "ErrUnsupportedDecision")
  BY <1>3, ReturnFields DEF Outcomes
<1> HIDE DEF bad
<1>7. ASSUME path # "unsupported"
      PROVE  /\ r1 \in Run /\ r1.req = r0.req /\ r1.outcome = r0.outcome /\ r1.preamble = r0.preamble
             /\ r1.ops = r0.ops /\ r1.writes = r0.writes /\ r1.pending = r0.pending
             /\ r1.pc = IF req.desired.summary # Nil THEN "listNotes" ELSE path
  BY <1>1, <1>3, <1>7 DEF Run, Steps
<1> HIDE DEF r1
<1> QED
  BY <1>3, <1>4, <1>5, <1>6, <1>7 DEF Returned, path

-----------------------------------------------------------------------------
(* The path of a request.                                                  *)

(* The position of an invocation is on the path of its request.            *)
PathOK(r) ==
    /\ r.pc \in ThreadSteps => ReconcilePathOf(r.req.desired) = "listThreads"
    /\ r.pc \in ClearSteps => ReconcilePathOf(r.req.desired) = "clearList"
    /\ r.pc \in PinnedSteps \union {"gate"} => ReconcilePathOf(r.req.desired) = "gate"
PathInv == \A p \in Publishers : PathOK(run[p])

(* Storing one publisher's record leaves the others alone.                 *)
LEMMA Stored ==
    ASSUME Inv, NEW p \in Publishers, NEW e, Goes(p, e)
    PROVE  \A q \in Publishers : run'[q] = IF q = p THEN e ELSE run[q]
BY DEF Inv, TypeOK, Goes

(* Steps of one kind of path stay on it until the invocation is idle.      *)
LEMMA StepPath ==
    ASSUME Inv, PathInv, NEW p \in Publishers, Step(p)
    PROVE  \E e \in Run : Goes(p, e) /\ PathOK(e) /\ e.req = run[p].req
<1>1. PathOK(run[p]) /\ run[p].req.desired = Desired(p)
  BY DEF PathInv, Desired
<1> USE DEF PathOK, SummarySteps, ThreadSteps, ClearSteps, PinnedSteps, CasSteps
<1>2. CASE ListBotNotes(p) \/ UpsertLookup(p)
  BY <1>2, SummaryEffect DEF SameCall
<1>3. CASE UpsertWrite(p)
  <2>1. PICK r \in Run, e \in Run : /\ Goes(p, e) /\ Replied(e, r) /\ SameCall(r, run[p])
                                    /\ r.pc = ReconcilePathOf(Desired(p))
    BY <1>3, UpsertWriteEffect
  <2>2. Desired(p) \in DesiredReviewState
    BY <1>3, CurrentRequest DEF UpsertWrite
  <2>3. r.pc \in {"clearList", "listThreads", "gate", "unsupported"}
    BY <2>1, <2>2, PathNeeds
  <2> QED
    BY <1>1, <2>1, <2>3 DEF Replied, Returned, SameCall
<1>4. CASE ListBotThreads(p)
  BY <1>1, <1>4, ListBotThreadsEffect DEF SameCall
<1>5. CASE Supersede(p) \/ RepairDuplicate(p)
  BY <1>1, <1>5, ResolveEffect DEF SameCall, Replied, Returned
<1>6. CASE StartRepair(p)
  BY <1>1, <1>6, StartRepairEffect DEF SameCall
<1>7. CASE EndRepair(p) \/ ReuseThread(p)
  BY <1>1, <1>7, SettleEffect DEF SameCall
<1>8. CASE CreateThread(p)
  <2>1. PICK r \in Run, e \in Run : /\ Goes(p, e) /\ Replied(e, r) /\ SameCall(r, run[p])
                                    /\ run[p].pc = "classify" /\ r.pc = "rescan"
    BY <1>8, CreateThreadEffect
  <2> QED
    BY <1>1, <2>1 DEF SameCall, Replied, Returned
<1>9. CASE RescanThreadDesired(p) \/ RescanClearSlot(p)
  BY <1>9, RescanEffect DEF Answered, Returned
<1>10. CASE ClearList(p)
  BY <1>1, <1>10, ClearListEffect DEF SameCall, Returned
<1>11. CASE ClearResolve(p)
  BY <1>1, <1>11, ClearResolveEffect DEF SameCall, Replied, Returned
<1>12. CASE ArmingGate(p)
  BY <1>1, <1>12, ArmingGateEffect DEF SameCall, Returned
<1>13. CASE ReadSource(p) \/ ShaGuard(p) \/ CasReadSource(p) \/ CasGuard(p)
  BY <1>1, <1>13, HeadsEffect DEF SameCall, Returned
<1>14. CASE Approve(p)
  BY <1>1, <1>14, ApproveEffect DEF SameCall, Replied, Returned
<1>15. CASE MergeCASAtomic(p) \/ MergePut(p)
  BY <1>15, MergeEffect DEF Returned
<1> QED
  BY <1>2, <1>3, <1>4, <1>5, <1>6, <1>7, <1>8, <1>9, <1>10, <1>11, <1>12, <1>13, <1>14, <1>15
     DEF Step

(* Every invocation follows the path of its request.                       *)
LEMMA PathNext == Inv /\ PathInv /\ [Next]_vars => PathInv'
<1> SUFFICES ASSUME Inv, PathInv, [Next]_vars PROVE PathInv'
  OBVIOUS
<1>1. ASSUME NEW p \in Publishers, NEW e \in Run, Goes(p, e), PathOK(e) PROVE PathInv'
  <2>1. \A q \in Publishers : run'[q] = IF q = p THEN e ELSE run[q]
    BY <1>1, Stored
  <2> QED
    BY <1>1, <2>1 DEF PathInv
<1>2. ASSUME NEW p \in Publishers, Step(p) PROVE PathInv'
  BY <1>1, <1>2, StepPath
<1>3. ASSUME NEW p \in Publishers, Fail(p) PROVE PathInv'
  BY <1>1, <1>3, FailEffect
     DEF PathOK, Returned, ThreadSteps, ClearSteps, PinnedSteps, CasSteps
<1>4. ASSUME NEW p \in Publishers, NEW req \in Requests, Begin(p, req) PROVE PathInv'
  <2>1. req.desired \in DesiredReviewState
    BY RequestsAssumption
  <2>2. PICK e \in Run : /\ Goes(p, e) /\ e.req = req
                         /\ e.pc \in {"idle", "listNotes", ReconcilePathOf(req.desired)}
    BY <1>4, EnterEffect DEF Begin
  <2>3. PathOK(e)
    BY <2>1, <2>2, PathNeeds DEF PathOK, ThreadSteps, ClearSteps, PinnedSteps, CasSteps
  <2> QED
    BY <1>1, <2>2, <2>3
<1>5. CASE run' = run
  BY <1>5 DEF PathInv
<1>6. Environment => run' = run
  BY DEF Environment, ReviewerResolves, ReviewerReopens, CorruptMarker, Push
<1> QED
  BY <1>2, <1>3, <1>4, <1>5, <1>6 DEF Next, vars

(* The path of every invocation, in every state.                           *)
LEMMA PathHolds == Spec => []PathInv
<1>1. Init => PathInv
  BY DEF Init, PathInv, PathOK, IdleRun, ThreadSteps, ClearSteps, PinnedSteps, CasSteps
<1> QED
  BY <1>1, PathNext, InvariantHolds, PTL DEF Spec

-----------------------------------------------------------------------------
(* Success.                                                                *)

(* What success promises of the threads, for one request.                  *)
Shows(d) ==
    /\ ReconcilePathOf(d) = "listThreads" =>
          /\ StaleOpen(threads, d.thread) = {}
          /\ \/ IsSingleton(OpenOccupants(threads, d.thread))
             \/ IsSingleton(Occupants(threads, d.thread))
    /\ ReconcilePathOf(d) = "clearList" => OpenInSlot(threads, d.clearSlot) = {}

(* A step of p either returns what its rescan saw, or is not a success; a   *)
(* step that changes the threads disturbs every other publisher.            *)
LEMMA StepShows ==
    ASSUME Inv, PathInv, NEW p \in Publishers, Step(p)
    PROVE  \E e \in Run :
              /\ Goes(p, e)
              /\ e.pc = "idle" /\ e.outcome = "ok" => Shows(e.req.desired) /\ threads' = threads
              /\ threads' = threads \/ disturbed' = disturbed \union (Publishers \ {p})
              /\ disturbed \subseteq disturbed'
<1>1. PathOK(run[p]) /\ run[p].req.desired = Desired(p)
  BY DEF PathInv, Desired
<1>2. run[p].pc # "idle" => run[p].outcome = "none"
  BY Current DEF RunOK
<1> USE DEF Disturb, forge
<1>3. CASE ListBotNotes(p) \/ UpsertLookup(p)
  BY <1>3, SummaryEffect
<1>4. CASE UpsertWrite(p)
  BY <1>2, <1>4, UpsertWriteEffect DEF SameCall, Replied, Returned
<1>5. CASE ListBotThreads(p)
  BY <1>5, ListBotThreadsEffect
<1>6. CASE Supersede(p) \/ RepairDuplicate(p)
  BY <1>2, <1>6, ResolveEffect DEF SameCall, Replied, Returned
<1>7. CASE StartRepair(p)
  BY <1>7, StartRepairEffect
<1>8. CASE EndRepair(p) \/ ReuseThread(p)
  BY <1>8, SettleEffect
<1>9. CASE CreateThread(p)
  BY <1>2, <1>9, CreateThreadEffect DEF SameCall, Replied, Returned
<1>10. CASE RescanThreadDesired(p) \/ RescanClearSlot(p)
  <2>1. PICK e \in Run :
              /\ Goes(p, e) /\ UNCHANGED <<forge, disturbed>>
              /\ \/ Answered(e, run[p]) \/ Returned(e, run[p], "ErrRescanFailed")
              /\ \/ /\ run[p].pc = "rescan"
                    /\ VerifyThreadRescan(threads, Desired(p).thread, run[p].mode) <=> e.outcome = "ok"
                 \/ /\ run[p].pc = "clearRescan" /\ run[p].pending = {}
                    /\ OpenInSlot(threads, Desired(p).clearSlot) = {} <=> e.outcome = "ok"
    BY <1>10, RescanEffect
  <2>2. e.req.desired = Desired(p)
    BY <1>1, <2>1 DEF Answered, Returned
  <2>3. e.outcome = "ok" => Shows(Desired(p))
    BY <1>1, <2>1 DEF Shows, VerifyThreadRescan, PathOK, ThreadSteps, ClearSteps
  <2> QED
    BY <2>1, <2>2, <2>3
<1>11. CASE ClearList(p)
  BY <1>11, ClearListEffect DEF Returned
<1>12. CASE ClearResolve(p)
  BY <1>2, <1>12, ClearResolveEffect DEF SameCall, Replied, Returned
<1>13. CASE ArmingGate(p)
  BY <1>13, ArmingGateEffect DEF Returned
<1>14. CASE ReadSource(p) \/ ShaGuard(p) \/ CasReadSource(p) \/ CasGuard(p)
  BY <1>14, HeadsEffect DEF Returned
<1>15. CASE Approve(p)
  BY <1>2, <1>15, ApproveEffect DEF SameCall, Replied, Returned
<1>16. CASE MergeCASAtomic(p) \/ MergePut(p)
  <2>1. Shows(Desired(p))
    BY <1>1, <1>16, MergeEffect DEF Shows, PathOK, PinnedSteps, CasSteps
  <2>2. PICK e \in Run : /\ Goes(p, e) /\ e.req = run[p].req /\ threads' = threads
                        /\ disturbed \subseteq disturbed'
    BY <1>16, MergeEffect DEF Returned
  <2> QED
    BY <1>1, <2>1, <2>2
<1> QED
  BY <1>3, <1>4, <1>5, <1>6, <1>7, <1>8, <1>9, <1>10, <1>11, <1>12, <1>13, <1>14, <1>15, <1>16
     DEF Step

(* Success with nobody else's change since keeps its promise.              *)
LEMMA SettledNext == Inv /\ PathInv /\ SettledMatchesDesired /\ [Next]_vars => SettledMatchesDesired'
<1> SUFFICES ASSUME Inv, PathInv, SettledMatchesDesired, [Next]_vars PROVE SettledMatchesDesired'
  OBVIOUS
<1>1. SettledMatchesDesired <=> \A p \in Publishers : Settled(p) => Shows(run[p].req.desired)
  BY DEF SettledMatchesDesired, Shows, PathOf, Desired
<1>2. SettledMatchesDesired' <=>
         \A p \in Publishers : Settled(p)' => Shows(run[p].req.desired)'
  BY DEF SettledMatchesDesired, Shows, PathOf, Desired
<1>3. ASSUME NEW d, threads' = threads, Shows(d) PROVE Shows(d)'
  BY <1>3 DEF Shows
<1>4. ASSUME NEW p \in Publishers, NEW e \in Run, Goes(p, e),
             e.pc = "idle" /\ e.outcome = "ok" => Shows(e.req.desired) /\ threads' = threads,
             threads' = threads \/ disturbed' = disturbed \union (Publishers \ {p}),
             disturbed \ {p} \subseteq disturbed'
      PROVE  SettledMatchesDesired'
  <2>1. \A q \in Publishers : run'[q] = IF q = p THEN e ELSE run[q]
    BY <1>4, Stored
  <2>2. ASSUME NEW q \in Publishers, Settled(q)' PROVE Shows(run[q].req.desired)'
    <3>1. CASE q = p
      BY <1>3, <1>4, <2>1, <2>2, <3>1 DEF Settled
    <3>2. CASE q # p
      <4>1. Settled(q) /\ threads' = threads
        BY <1>4, <2>1, <2>2, <3>2 DEF Settled
      <4>2. Shows(run[q].req.desired)
        BY <1>1, <4>1
      <4>3. run'[q] = run[q]
        BY <2>1, <3>2
      <4> QED
        BY <4>1, <4>2, <4>3 DEF Shows
    <3> QED
      BY <3>1, <3>2
  <2> QED
    BY <1>2, <2>2
<1>5. ASSUME NEW p \in Publishers, Step(p) PROVE SettledMatchesDesired'
  BY <1>4, <1>5, StepShows
<1>6. ASSUME NEW p \in Publishers, Fail(p) PROVE SettledMatchesDesired'
  BY <1>4, <1>6, FailEffect DEF Returned, forge
<1>7. ASSUME NEW p \in Publishers, NEW req \in Requests, Begin(p, req) PROVE SettledMatchesDesired'
  BY <1>4, <1>7, EnterEffect DEF Begin, forge
<1>8. CASE Environment
  <2>1. disturbed' = Publishers
    BY <1>8 DEF Environment, ReviewerResolves, ReviewerReopens, CorruptMarker, Push, DisturbAll
  <2> QED
    BY <1>2, <2>1 DEF Settled
<1>9. CASE UNCHANGED vars
  <2>1. ASSUME NEW q \in Publishers, Settled(q)' PROVE Shows(run[q].req.desired)'
    BY <1>1, <1>9, <2>1 DEF Settled, Shows, vars
  <2> QED
    BY <1>2, <2>1
<1> QED
  BY <1>5, <1>6, <1>7, <1>8, <1>9 DEF Next

(* Success means that the forge shows the desired state: a caller that     *)
(* reconcileThread or reconcileClearSlot told "ok", and whom nobody has     *)
(* disturbed since it called, finds no open thread of its slot with another *)
(* occurrence, exactly one thread for its own, or the cleared slot closed,  *)
(* however many publishers race (forge.go 463-609, 726-775).                *)
THEOREM SuccessShowsDesired == Spec => []SettledMatchesDesired
<1>1. Init => SettledMatchesDesired
  BY DEF Init, SettledMatchesDesired, Settled, IdleRun
<1> QED
  BY <1>1, SettledNext, PathHolds, InvariantHolds, PTL DEF Spec

-----------------------------------------------------------------------------
(* The receipt.                                                            *)

(* ReceiptIsHonest, for one record.                                        *)
Honest(r) ==
    /\ r.ops # {}
    /\ \A op \in r.ops : Exists(op)
    /\ \A k \in {"approval", "merge"} : (\E op \in r.ops : op[1] = k) <=> k \in r.writes
    /\ (\E op \in r.ops : op[2] = "note") <=> "note" \in r.writes

(* The operation on the receipt of reconcileThread and reconcileClearSlot. *)
OneThreadOp(r) == \E i \in DOMAIN threads : r.ops = {<<"thread", "discussion", i>>}

(* What the summary preamble has put aside.                                *)
PreambleOK(r) ==
    \/ r.preamble = {} /\ "note" \notin r.writes
    \/ "note" \in r.writes /\ \E n \in DOMAIN notes : r.preamble = {<<"thread", "note", n>>}

(* What an invocation has written and will put on its receipt.             *)
ReceiptOK(r) ==
    /\ r.pc # "idle" => PreambleOK(r)
    /\ r.pc \in SummarySteps \union {"clearList"} => r.pending = {}
    /\ r.pc = "upsertWrite" => r.note = 0 \/ r.note \in DOMAIN notes
    /\ r.pc = "classify" => DOMAIN r.existing \subseteq DOMAIN threads
    /\ r.pc = "repair" => r.canonical \in DOMAIN threads
    /\ r.pc \in {"rescan", "clearRescan", "idle"} \union CasSteps \/ r.ops = {}
    /\ r.pc = "rescan" => OneThreadOp(r)
    /\ r.pc = "clearRescan" => /\ r.pending \subseteq DOMAIN threads
                               /\ IF r.pending = {} THEN OneThreadOp(r) ELSE r.ops = {}
    /\ r.pc \in CasSteps => /\ r.ops = {<<"approval", "mr", 0>>}
                            /\ "approval" \in r.writes /\ approvals # {}
    /\ r.pc = "idle" /\ r.outcome = "ok" => Honest(r)
ReceiptInv == \A p \in Publishers : ReceiptOK(run[p])

(* Nothing an operation names is ever deleted.                             *)
Grows ==
    /\ DOMAIN threads \subseteq DOMAIN threads' /\ DOMAIN notes \subseteq DOMAIN notes'
    /\ approvals \subseteq approvals' /\ (Merged => Merged')

(* A forge that only grows keeps the records of those who do not move.     *)
LEMMA GrowsKeeps ==
    ASSUME Grows, NEW r, ReceiptOK(r)
    PROVE  ReceiptOK(r)'
<1>1. PreambleOK(r) => PreambleOK(r)'
  BY DEF Grows, PreambleOK
<1>2. OneThreadOp(r) => OneThreadOp(r)'
  BY DEF Grows, OneThreadOp
<1>3. Honest(r) => Honest(r)'
  <2>1. \A op : Exists(op) => Exists(op)'
    BY DEF Grows, Exists
  <2> QED
    BY <2>1 DEF Honest
<1>4. approvals # {} => approvals' # {}
  BY DEF Grows
<1> QED
  BY <1>1, <1>2, <1>3, <1>4 DEF ReceiptOK, Grows

(* An invocation that returns an error has nothing to answer for.          *)
LEMMA ReturnedReceipt ==
    ASSUME NEW e, NEW r, NEW o, Returned(e, r, o), o # "ok"
    PROVE  ReceiptOK(e) /\ ReceiptOK(e)'
BY DEF Returned, ReceiptOK, SummarySteps, CasSteps

(* One that returns a thread operation is honest.                          *)
LEMMA AnsweredReceipt ==
    ASSUME NEW e, NEW r, Answered(e, r), PreambleOK(r), OneThreadOp(r),
           "approval" \notin r.writes, "merge" \notin r.writes
    PROVE  ReceiptOK(e)
<1>1. PICK i \in DOMAIN threads : r.ops = {<<"thread", "discussion", i>>}
  BY DEF OneThreadOp
<1>2. CASE r.preamble = {} /\ "note" \notin r.writes
  <2>1. e.ops = {<<"thread", "discussion", i>>} /\ e.writes = r.writes
    BY <1>1, <1>2 DEF Answered
  <2>2. Honest(e)
    BY <1>2, <2>1 DEF Honest, Exists
  <2> QED
    BY <2>2 DEF ReceiptOK, Answered, SummarySteps, CasSteps
<1>3. CASE "note" \in r.writes /\ \E n \in DOMAIN notes : r.preamble = {<<"thread", "note", n>>}
  <2>1. PICK n \in DOMAIN notes : r.preamble = {<<"thread", "note", n>>}
    BY <1>3
  <2>2. /\ e.ops = {<<"thread", "note", n>>, <<"thread", "discussion", i>>} /\ e.writes = r.writes
    BY <1>1, <2>1 DEF Answered
  <2>3. Honest(e)
    BY <1>3, <2>2 DEF Honest, Exists
  <2> QED
    BY <2>3 DEF ReceiptOK, Answered, SummarySteps, CasSteps
<1> QED
  BY <1>2, <1>3 DEF PreambleOK

(* Resolving a thread deletes none.                                        *)
LEMMA ResolveDomain ==
    ASSUME NEW ts, NEW i
    PROVE  DOMAIN ResolveAt(ts, i) = DOMAIN ts
BY DEF ResolveAt

(* The steps of the summary preamble and of reconcileThread.               *)
LEMMA ThreadReceipt ==
    ASSUME Inv, PathInv, ReceiptInv, NEW p \in Publishers,
           \/ ListBotNotes(p) \/ UpsertLookup(p) \/ UpsertWrite(p) \/ ListBotThreads(p)
           \/ Supersede(p) \/ StartRepair(p) \/ RepairDuplicate(p) \/ EndRepair(p)
           \/ ReuseThread(p) \/ CreateThread(p)
    PROVE  Grows /\ \E e \in Run : Goes(p, e) /\ ReceiptOK(e)'
<1>1. ReceiptOK(run[p]) /\ run[p] \in Run
  BY Current DEF ReceiptInv
<1> USE DEF SummarySteps, CasSteps
<1>2. CASE ListBotNotes(p) \/ UpsertLookup(p)
  <2>1. PICK r \in Run :
              /\ Goes(p, r) /\ UNCHANGED <<forge, disturbed>>
              /\ run[p].pc \in {"listNotes", "upsertLookup"} /\ SameCall(r, run[p])
              /\ SameReceipt(r, run[p]) /\ r.pending = run[p].pending
              /\ r.pc \in {"upsertLookup", "upsertWrite"}
              /\ r.pc = "upsertWrite" => r.note = 0 \/ r.note \in DOMAIN notes
    BY <1>2, SummaryEffect
  <2>2. ReceiptOK(r)
    BY <1>1, <2>1 DEF ReceiptOK, PreambleOK, SameReceipt
  <2>3. Grows
    BY <2>1 DEF Grows, forge, Merged
  <2> QED
    BY <2>1, <2>2, <2>3, GrowsKeeps
<1>3. CASE UpsertWrite(p)
  <2>1. PICK r \in Run, e \in Run, n \in Nat :
              /\ Goes(p, e) /\ Replied(e, r)
              /\ UNCHANGED <<threads, head, approvals, merges>>
              /\ run[p].pc = "upsertWrite" /\ SameCall(r, run[p])
              /\ r.pc = ReconcilePathOf(Desired(p)) /\ r.pc # "unsupported"
              /\ r.ops = run[p].ops /\ r.pending = run[p].pending
              /\ r.preamble = {<<"thread", "note", n>>}
              /\ r.writes = run[p].writes \union {"note"}
              /\ DOMAIN notes \subseteq DOMAIN notes'
              /\ run[p].note = 0 \/ run[p].note \in DOMAIN notes => n \in DOMAIN notes'
    BY <1>3, UpsertWriteEffect
  <2>2. r.pc \in {"clearList", "listThreads", "gate"}
    <3>1. Desired(p) \in DesiredReviewState
      BY <1>3, CurrentRequest DEF UpsertWrite
    <3> QED
      BY <2>1, <3>1, PathNeeds
  <2>3. run[p].ops = {} /\ run[p].pending = {} /\ n \in DOMAIN notes'
    BY <1>1, <2>1 DEF ReceiptOK
  <2>4. ReceiptOK(r)'
    BY <2>1, <2>2, <2>3 DEF ReceiptOK, PreambleOK
  <2>5. Grows
    BY <2>1 DEF Grows, Merged
  <2>6. ReceiptOK(e)'
    BY <2>1, <2>4, ReturnedReceipt DEF Replied
  <2> QED
    BY <2>1, <2>5, <2>6
<1>4. CASE ListBotThreads(p)
  <2>1. PICK r \in Run :
              /\ Goes(p, r) /\ UNCHANGED <<forge, disturbed>>
              /\ run[p].pc = "listThreads" /\ SameReceipt(r, run[p])
              /\ r.pc = "classify" /\ r.existing = threads
    BY <1>4, ListBotThreadsEffect
  <2>2. ReceiptOK(r)
    BY <1>1, <2>1 DEF ReceiptOK, PreambleOK, SameReceipt
  <2>3. Grows
    BY <2>1 DEF Grows, forge, Merged
  <2> QED
    BY <2>1, <2>2, <2>3, GrowsKeeps
<1>5. CASE Supersede(p) \/ RepairDuplicate(p)
  <2>1. PICK r \in Run, e \in Run, i \in run[p].pending :
              /\ Goes(p, e) /\ Replied(e, r)
              /\ threads' = ResolveAt(threads, i) /\ UNCHANGED <<notes, head, approvals, merges>>
              /\ run[p].pc \in {"classify", "repair"}
              /\ r.preamble = run[p].preamble /\ r.ops = run[p].ops
              /\ r.writes = run[p].writes \union {"resolve"}
              /\ r.pc = run[p].pc /\ r.existing = run[p].existing
              /\ r.canonical = run[p].canonical
    BY <1>5, ResolveEffect
  <2>2. Grows
    BY <2>1, ResolveDomain DEF Grows, Merged
  <2>3. ReceiptOK(r)
    BY <1>1, <2>1 DEF ReceiptOK, PreambleOK
  <2>4. ReceiptOK(e)'
    BY <2>1, <2>2, <2>3, GrowsKeeps, ReturnedReceipt DEF Replied
  <2> QED
    BY <2>1, <2>2, <2>4
<1>6. CASE StartRepair(p)
  <2> DEFINE occupants == Occupants(run[p].existing, Desired(p).thread)
  <2>1. PICK r \in Run, i \in Canonicals(occupants) :
              /\ Goes(p, r) /\ UNCHANGED <<forge, disturbed>>
              /\ run[p].pc = "classify" /\ SameReceipt(r, run[p])
              /\ r.pc = "repair" /\ r.canonical = i
    BY <1>6, StartRepairEffect
  <2>2. i \in DOMAIN threads
    BY <1>1, <2>1 DEF ReceiptOK, Canonicals, Occupants, Listed
  <2>3. ReceiptOK(r)
    BY <1>1, <2>1, <2>2 DEF ReceiptOK, PreambleOK, SameReceipt
  <2>4. Grows
    BY <2>1 DEF Grows, forge, Merged
  <2> QED
    BY <2>1, <2>3, <2>4, GrowsKeeps
<1>7. CASE EndRepair(p) \/ ReuseThread(p)
  <2>1. PICK r \in Run, i \in Nat :
              /\ Goes(p, r) /\ UNCHANGED <<forge, disturbed>>
              /\ r.preamble = run[p].preamble /\ r.writes = run[p].writes
              /\ r.pc = "rescan" /\ r.ops = {<<"thread", "discussion", i>>}
              /\ \/ run[p].pc = "repair" /\ i = run[p].canonical
                 \/ run[p].pc = "classify" /\ Occupants(run[p].existing, Desired(p).thread) = {i}
    BY <1>7, SettleEffect
  <2>2. i \in DOMAIN threads
    <3>1. CASE run[p].pc = "repair" /\ i = run[p].canonical
      BY <1>1, <3>1 DEF ReceiptOK
    <3>2. CASE run[p].pc = "classify" /\ Occupants(run[p].existing, Desired(p).thread) = {i}
      <4>1. i \in Occupants(run[p].existing, Desired(p).thread)
        BY <3>2
      <4> QED
        BY <1>1, <3>2, <4>1 DEF ReceiptOK, Occupants, Listed
    <3> QED
      BY <2>1, <3>1, <3>2
  <2>3. ReceiptOK(r)
    BY <1>1, <2>1, <2>2 DEF ReceiptOK, PreambleOK, OneThreadOp
  <2>4. Grows
    BY <2>1 DEF Grows, forge, Merged
  <2> QED
    BY <2>1, <2>3, <2>4, GrowsKeeps
<1>8. CASE CreateThread(p)
  <2> DEFINE m == Desired(p).thread
             new == [slot |-> m.slot, occurrence |-> m.occurrence, legible |-> TRUE,
                     resolver |-> "nobody"]
  <2>1. PICK r \in Run, e \in Run :
              /\ Goes(p, e) /\ Replied(e, r) /\ UNCHANGED <<notes, head, approvals, merges>>
              /\ threads' = Append(threads, new)
              /\ run[p].pc = "classify" /\ r.preamble = run[p].preamble
              /\ r.writes = run[p].writes \union {"thread"}
              /\ r.pc = "rescan" /\ r.ops = {<<"thread", "discussion", Len(threads) + 1>>}
    BY <1>8, CreateThreadEffect
  <2> HIDE DEF new
  <2>2. threads \in Seq(Thread)
    BY DEF Inv, TypeOK
  <2>3. DOMAIN threads \subseteq DOMAIN threads' /\ Len(threads) + 1 \in DOMAIN threads'
    BY <2>1, <2>2
  <2>4. Grows
    BY <2>1, <2>3 DEF Grows, Merged
  <2>5. PreambleOK(r)'
    BY <1>1, <2>1 DEF ReceiptOK, PreambleOK
  <2>6. ReceiptOK(r)'
    BY <2>1, <2>3, <2>5 DEF ReceiptOK, OneThreadOp
  <2>7. ReceiptOK(e)'
    BY <2>1, <2>6, ReturnedReceipt DEF Replied
  <2> QED
    BY <2>1, <2>4, <2>7
<1> QED
  BY <1>2, <1>3, <1>4, <1>5, <1>6, <1>7, <1>8

(* The rescans, reconcileClearSlot and reconcileApproveMerge.              *)
LEMMA OtherReceipt ==
    ASSUME Inv, PathInv, ReceiptInv, NEW p \in Publishers,
           \/ RescanThreadDesired(p) \/ ClearList(p) \/ ClearResolve(p) \/ RescanClearSlot(p)
           \/ ArmingGate(p) \/ ReadSource(p) \/ ShaGuard(p) \/ Approve(p)
           \/ MergeCASAtomic(p) \/ CasReadSource(p) \/ CasGuard(p) \/ MergePut(p)
    PROVE  Grows /\ \E e \in Run : Goes(p, e) /\ ReceiptOK(e)'
<1>1. ReceiptOK(run[p]) /\ run[p] \in Run /\ RunOK(run[p])
  BY Current DEF ReceiptInv
<1> USE DEF SummarySteps, CasSteps
<1>2. CASE RescanThreadDesired(p) \/ RescanClearSlot(p)
  <2>1. PICK e \in Run :
              /\ Goes(p, e) /\ UNCHANGED <<forge, disturbed>>
              /\ Answered(e, run[p]) \/ Returned(e, run[p], "ErrRescanFailed")
              /\ run[p].pc = "rescan" \/ (run[p].pc = "clearRescan" /\ run[p].pending = {})
    BY <1>2, RescanEffect
  <2>2. Grows
    BY <2>1 DEF Grows, forge, Merged
  <2>3. PreambleOK(run[p]) /\ OneThreadOp(run[p])
    BY <1>1, <2>1 DEF ReceiptOK
  <2>4. "approval" \notin run[p].writes /\ "merge" \notin run[p].writes
    BY <1>1, <2>1 DEF RunOK
  <2>5. ReceiptOK(e)
    BY <2>1, <2>3, <2>4, AnsweredReceipt, ReturnedReceipt
  <2> QED
    BY <2>1, <2>2, <2>5, GrowsKeeps
<1>3. CASE ClearList(p)
  <2>1. PICK e \in Run :
              /\ Goes(p, e) /\ UNCHANGED <<forge, disturbed>> /\ run[p].pc = "clearList"
              /\ \/ \E o \in {"ErrUnsupportedDecision", "error"} : Returned(e, run[p], o)
                 \/ /\ e.pc = "clearRescan" /\ e.preamble = run[p].preamble
                    /\ e.writes = run[p].writes
                    /\ \/ /\ \E i \in DOMAIN threads : e.ops = {<<"thread", "discussion", i>>}
                          /\ e.pending = run[p].pending
                       \/ /\ e.ops = run[p].ops
                          /\ e.pending = OpenInSlot(threads, Desired(p).clearSlot)
                          /\ IsSingleton(e.pending)
    BY <1>3, ClearListEffect
  <2>2. Grows
    BY <2>1 DEF Grows, forge, Merged
  <2>3. run[p].pending = {} /\ run[p].ops = {} /\ PreambleOK(run[p])
    BY <1>1, <2>1 DEF ReceiptOK
  <2>4. CASE \E o \in {"ErrUnsupportedDecision", "error"} : Returned(e, run[p], o)
    BY <2>1, <2>2, <2>4, ReturnedReceipt
  <2>5. CASE /\ e.pc = "clearRescan" /\ e.preamble = run[p].preamble /\ e.writes = run[p].writes
             /\ \E i \in DOMAIN threads : e.ops = {<<"thread", "discussion", i>>}
             /\ e.pending = run[p].pending
    <3>1. ReceiptOK(e)
      BY <2>3, <2>5 DEF ReceiptOK, PreambleOK, OneThreadOp
    <3> QED
      BY <2>1, <2>2, <3>1, GrowsKeeps
  <2>6. CASE /\ e.pc = "clearRescan" /\ e.preamble = run[p].preamble /\ e.writes = run[p].writes
             /\ e.ops = run[p].ops /\ IsSingleton(e.pending)
             /\ e.pending = OpenInSlot(threads, Desired(p).clearSlot)
    <3>1. e.pending \subseteq DOMAIN threads /\ e.pending # {}
      BY <2>6 DEF OpenInSlot, Listed, IsSingleton
    <3>2. ReceiptOK(e)
      BY <2>3, <2>6, <3>1 DEF ReceiptOK, PreambleOK
    <3> QED
      BY <2>1, <2>2, <3>2, GrowsKeeps
  <2> QED
    BY <2>1, <2>4, <2>5, <2>6
<1>4. CASE ClearResolve(p)
  <2>1. PICK r \in Run, e \in Run, i \in run[p].pending :
              /\ Goes(p, e) /\ Replied(e, r)
              /\ threads' = ResolveAt(threads, i) /\ UNCHANGED <<notes, head, approvals, merges>>
              /\ run[p].pc = "clearRescan" /\ r.preamble = run[p].preamble
              /\ r.writes = run[p].writes \union {"resolve"}
              /\ r.pc = "clearRescan" /\ r.pending = {} /\ r.ops = {<<"thread", "discussion", i>>}
    BY <1>4, ClearResolveEffect
  <2>2. Grows
    BY <2>1, ResolveDomain DEF Grows, Merged
  <2>3. i \in DOMAIN threads
    BY <1>1, <2>1 DEF ReceiptOK
  <2>4. ReceiptOK(r)
    BY <1>1, <2>1, <2>3 DEF ReceiptOK, PreambleOK, OneThreadOp
  <2>5. ReceiptOK(e)'
    BY <2>1, <2>2, <2>4, GrowsKeeps, ReturnedReceipt DEF Replied
  <2> QED
    BY <2>1, <2>2, <2>5
<1>5. CASE ArmingGate(p)
  <2>1. PICK e \in Run :
              /\ Goes(p, e) /\ UNCHANGED <<forge, disturbed>> /\ run[p].pc = "gate"
              /\ \/ \E o \in {"ErrArmingRefused", "ErrIncompletePreconditions"} :
                       Returned(e, run[p], o)
                 \/ e.pc = "headsSource" /\ SameReceipt(e, run[p])
    BY <1>5, ArmingGateEffect
  <2>2. Grows
    BY <2>1 DEF Grows, forge, Merged
  <2>3. ReceiptOK(e)
    <3>1. CASE e.pc = "headsSource" /\ SameReceipt(e, run[p])
      BY <1>1, <2>1, <3>1 DEF ReceiptOK, PreambleOK, SameReceipt
    <3> QED
      BY <2>1, <3>1, ReturnedReceipt
  <2> QED
    BY <2>1, <2>2, <2>3, GrowsKeeps
<1>6. CASE ReadSource(p) \/ ShaGuard(p) \/ CasReadSource(p) \/ CasGuard(p)
  <2>1. PICK e \in Run :
              /\ Goes(p, e) /\ UNCHANGED <<forge, disturbed>>
              /\ \/ /\ SameReceipt(e, run[p])
                    /\ \/ run[p].pc = "headsSource" /\ e.pc = "headsTarget"
                       \/ run[p].pc = "headsTarget" /\ e.pc = "approve"
                       \/ run[p].pc = "cas" /\ e.pc = "casTarget"
                       \/ run[p].pc = "casTarget" /\ e.pc = "put"
                 \/ Returned(e, run[p], "ErrSHAMoved")
    BY <1>6, HeadsEffect
  <2>2. Grows
    BY <2>1 DEF Grows, forge, Merged
  <2>3. ReceiptOK(e)
    <3>1. CASE /\ SameReceipt(e, run[p])
               /\ \/ run[p].pc = "headsSource" /\ e.pc = "headsTarget"
                  \/ run[p].pc = "headsTarget" /\ e.pc = "approve"
                  \/ run[p].pc = "cas" /\ e.pc = "casTarget"
                  \/ run[p].pc = "casTarget" /\ e.pc = "put"
      BY <1>1, <3>1 DEF ReceiptOK, PreambleOK, SameReceipt
    <3> QED
      BY <2>1, <3>1, ReturnedReceipt
  <2> QED
    BY <2>1, <2>2, <2>3, GrowsKeeps
<1>7. CASE Approve(p)
  <2>1. PICK r \in Run, e \in Run :
              /\ Goes(p, e) /\ Replied(e, r)
              /\ approvals' = approvals \union {head} /\ UNCHANGED <<threads, notes, head, merges>>
              /\ run[p].pc = "approve" /\ r.preamble = run[p].preamble
              /\ r.writes = run[p].writes \union {"approval"}
              /\ r.pc = "cas" /\ r.ops = {<<"approval", "mr", 0>>}
    BY <1>7, ApproveEffect
  <2>2. Grows /\ approvals' # {}
    BY <2>1 DEF Grows, Merged
  <2>3. PreambleOK(r)'
    BY <1>1, <2>1 DEF ReceiptOK, PreambleOK
  <2>4. ReceiptOK(r)'
    BY <2>1, <2>2, <2>3 DEF ReceiptOK
  <2>5. ReceiptOK(e)'
    BY <2>1, <2>4, ReturnedReceipt DEF Replied
  <2> QED
    BY <2>1, <2>2, <2>5
<1>8. CASE MergeCASAtomic(p) \/ MergePut(p)
  <2>1. PICK e \in Run :
              /\ Goes(p, e) /\ run[p].pc \in {"cas", "put"}
              /\ \/ /\ UNCHANGED <<forge, disturbed>>
                    /\ Returned(e, run[p], "error") \/ Returned(e, run[p], "ErrSHAMoved")
                 \/ /\ UNCHANGED <<threads, notes, approvals>>
                    /\ merges' = Append(merges, [pins |-> Desired(p).merge, arm |-> Pre(p).arm,
                                                 at |-> head])
                    /\ e.pc = "idle" /\ e.writes = run[p].writes \union {"merge"}
                    /\ \/ /\ e.outcome = "ok"
                          /\ e.ops = run[p].preamble \union (run[p].ops \union {<<"merge", "mr", 0>>})
                       \/ e.outcome = "error"
    BY <1>8, MergeEffect
  <2>2. CASE UNCHANGED <<forge, disturbed>>
              /\ (Returned(e, run[p], "error") \/ Returned(e, run[p], "ErrSHAMoved"))
    <3>1. Grows
      BY <2>2 DEF Grows, forge, Merged
    <3>2. ReceiptOK(e)'
      BY <2>2, ReturnedReceipt
    <3> QED
      BY <2>1, <3>1, <3>2
  <2>3. CASE /\ UNCHANGED <<threads, notes, approvals>>
             /\ merges' = Append(merges, [pins |-> Desired(p).merge, arm |-> Pre(p).arm, at |-> head])
             /\ e.pc = "idle" /\ e.writes = run[p].writes \union {"merge"}
             /\ \/ /\ e.outcome = "ok"
                   /\ e.ops = run[p].preamble \union (run[p].ops \union {<<"merge", "mr", 0>>})
                \/ e.outcome = "error"
    <3>1. Merged'
      BY <2>3 DEF Merged, Inv, TypeOK
    <3>2. Grows
      BY <2>3, <3>1 DEF Grows
    <3>3. /\ PreambleOK(run[p]) /\ "approval" \in run[p].writes /\ approvals' # {}
          /\ run[p].ops = {<<"approval", "mr", 0>>}
      BY <1>1, <2>1, <2>3 DEF ReceiptOK
    <3>4. ASSUME e.outcome = "ok" PROVE Honest(e)'
      <4>1. CASE run[p].preamble = {} /\ "note" \notin run[p].writes
        <5>1. e.ops = {<<"approval", "mr", 0>>, <<"merge", "mr", 0>>}
          BY <2>3, <3>3, <3>4, <4>1
        <5> QED
          BY <2>3, <3>1, <3>3, <4>1, <5>1 DEF Honest, Exists
      <4>2. CASE "note" \in run[p].writes
                 /\ \E n \in DOMAIN notes : run[p].preamble = {<<"thread", "note", n>>}
        <5>1. PICK n \in DOMAIN notes' : run[p].preamble = {<<"thread", "note", n>>}
          BY <2>3, <4>2
        <5>2. e.ops = {<<"thread", "note", n>>, <<"approval", "mr", 0>>, <<"merge", "mr", 0>>}
          BY <2>3, <3>3, <3>4, <5>1
        <5> QED
          BY <2>3, <3>1, <3>3, <4>2, <5>2 DEF Honest, Exists
      <4> QED
        BY <3>3, <4>1, <4>2 DEF PreambleOK
    <3>5. ReceiptOK(e)'
      BY <2>3, <3>4 DEF ReceiptOK
    <3> QED
      BY <2>1, <3>2, <3>5
  <2> QED
    BY <2>1, <2>2, <2>3
<1> QED
  BY <1>2, <1>3, <1>4, <1>5, <1>6, <1>7, <1>8

(* People delete nothing either.                                           *)
LEMMA EnvironmentGrows ==
    ASSUME Inv, Environment
    PROVE  Grows /\ run' = run
BY DEF Environment, ReviewerResolves, ReviewerReopens, CorruptMarker, Push, Grows, Merged

(* The receipts stay honest.                                               *)
LEMMA ReceiptNext == Inv /\ PathInv /\ ReceiptInv /\ [Next]_vars => ReceiptInv'
<1> SUFFICES ASSUME Inv, PathInv, ReceiptInv, [Next]_vars PROVE ReceiptInv'
  OBVIOUS
<1>1. ASSUME NEW p \in Publishers, NEW e \in Run, Goes(p, e), Grows, ReceiptOK(e)' PROVE ReceiptInv'
  <2> SUFFICES ASSUME NEW q \in Publishers PROVE ReceiptOK(run[q])'
    BY DEF ReceiptInv
  <2>1. run'[q] = IF q = p THEN e ELSE run[q]
    BY <1>1, Stored
  <2>2. CASE q = p
    BY <1>1, <2>1, <2>2 DEF ReceiptOK, PreambleOK, OneThreadOp, Honest
  <2>3. CASE q # p
    <3> DEFINE r == run[q]
    <3>1. \A x : ReceiptOK(x) => ReceiptOK(x)'
      BY <1>1, GrowsKeeps
    <3>2. ReceiptOK(run[q])
      BY DEF ReceiptInv
    <3>3. PICK x : x = run[q]
      OBVIOUS
    <3>4. ReceiptOK(x)'
      BY <3>1, <3>2, <3>3
    <3>5. run'[q] = x
      BY <2>1, <2>3, <3>3
    <3> QED
      BY <3>4, <3>5 DEF ReceiptOK, PreambleOK, OneThreadOp, Honest
  <2> QED
    BY <2>2, <2>3
<1>2. ASSUME NEW p \in Publishers, Step(p) PROVE ReceiptInv'
  BY <1>1, <1>2, ThreadReceipt, OtherReceipt DEF Step
<1>3. ASSUME NEW p \in Publishers, Fail(p) PROVE ReceiptInv'
  <2>1. PICK e \in Run : Goes(p, e) /\ Returned(e, run[p], "error") /\ UNCHANGED <<forge, disturbed>>
    BY <1>3, FailEffect
  <2>2. Grows
    BY <2>1 DEF Grows, forge, Merged
  <2> QED
    BY <1>1, <2>1, <2>2, ReturnedReceipt
<1>4. ASSUME NEW p \in Publishers, NEW req \in Requests, Begin(p, req) PROVE ReceiptInv'
  <2>1. PICK e \in Run :
              /\ Goes(p, e) /\ UNCHANGED forge
              /\ e.preamble = {} /\ e.ops = {} /\ e.writes = {} /\ e.pending = {}
              /\ \/ e.pc = "idle" /\ e.outcome = "ErrUnsupportedDecision"
                 \/ /\ ReconcilePathOf(req.desired) # "unsupported"
                    /\ e.pc = IF req.desired.summary # Nil THEN "listNotes"
                              ELSE ReconcilePathOf(req.desired)
    BY <1>4, EnterEffect DEF Begin
  <2>2. \/ e.pc = "idle" /\ e.outcome = "ErrUnsupportedDecision"
        \/ e.pc \in {"listNotes", "clearList", "listThreads", "gate"}
    BY <2>1, RequestsAssumption, PathNeeds
  <2>3. Grows
    BY <2>1 DEF Grows, forge, Merged
  <2>4. ReceiptOK(e)
    BY <2>1, <2>2 DEF ReceiptOK, PreambleOK, SummarySteps, CasSteps
  <2> QED
    BY <1>1, <2>1, <2>3, <2>4, GrowsKeeps
<1>5. ASSUME Grows, run' = run PROVE ReceiptInv'
  <2> SUFFICES ASSUME NEW q \in Publishers PROVE ReceiptOK(run[q])'
    BY DEF ReceiptInv
  <2>1. \A x : ReceiptOK(x) => ReceiptOK(x)'
    BY <1>5, GrowsKeeps
  <2>2. PICK x : x = run[q]
    OBVIOUS
  <2>3. ReceiptOK(x)' /\ run'[q] = x
    BY <1>5, <2>1, <2>2 DEF ReceiptInv
  <2> QED
    BY <2>3 DEF ReceiptOK, PreambleOK, OneThreadOp, Honest
<1>6. UNCHANGED vars => Grows /\ run' = run
  BY DEF vars, Grows, Merged
<1> QED
  BY <1>2, <1>3, <1>4, <1>5, <1>6, EnvironmentGrows DEF Next

(* The receipt invariant of every behaviour.                               *)
LEMMA ReceiptHolds == Spec => []ReceiptInv
<1>1. Init => ReceiptInv
  BY DEF Init, ReceiptInv, ReceiptOK, IdleRun, SummarySteps, CasSteps
<1> QED
  BY <1>1, ReceiptNext, PathHolds, InvariantHolds, PTL DEF Spec

(* A receipt is never empty and never invents a write: each operation it    *)
(* names is on the forge, and it lists an approval, a merge or a summary    *)
(* note exactly when the invocation wrote one, through every interleaving,  *)
(* lost response and crash (forge.go 378-434, 446-460, 819-836).            *)
THEOREM ReceiptsAreHonest == Spec => []ReceiptIsHonest
<1>1. ReceiptInv => ReceiptIsHonest
  BY DEF ReceiptInv, ReceiptOK, ReceiptIsHonest, Honest
<1> QED
  BY <1>1, ReceiptHolds, PTL

-----------------------------------------------------------------------------
(* The SHA guard and the approval.                                         *)

(* The heads an undisturbed invocation has compared are still there.       *)
HeadsOK(r, quiet) ==
    LET m == r.req.desired.merge
    IN  /\ quiet =>
             /\ r.pc \in {"headsTarget", "casTarget"} => r.seen = head.source
             /\ r.pc \in {"approve"} \union CasSteps =>
                   /\ m.source = head.source /\ m.target = head.target
                   /\ m.digest = SyntheticDigest(head.source, head.target)
        /\ r.outcome = "ErrSHAMoved" /\ "approval" \in r.writes => ~quiet
HeadsKnown == \A p \in Publishers : HeadsOK(run[p], p \notin disturbed)

(* Each step of an invocation keeps what it knows of the heads.            *)
LEMMA StepHeads ==
    ASSUME Inv, HeadsKnown, NEW p \in Publishers, Step(p)
    PROVE  \E e \in Run :
              /\ Goes(p, e) /\ HeadsOK(e, p \notin disturbed)'
              /\ head' = head \/ disturbed' = disturbed \union (Publishers \ {p})
              /\ disturbed \subseteq disturbed' /\ (p \in disturbed' => p \in disturbed)
<1>1. /\ HeadsOK(run[p], p \notin disturbed) /\ run[p].req.desired = Desired(p)
      /\ run[p] \in Run /\ RunOK(run[p])
  BY Current DEF HeadsKnown, Desired
<1>2. run[p].pc # "idle" => run[p].outcome = "none"
  BY <1>1 DEF RunOK
<1> USE DEF Disturb, forge, CasSteps
<1>3. CASE ListBotNotes(p) \/ UpsertLookup(p)
  <2>1. PICK e \in Run : /\ Goes(p, e) /\ UNCHANGED <<forge, disturbed>>
                         /\ run[p].pc \in {"listNotes", "upsertLookup"} /\ SameCall(e, run[p])
                         /\ e.pc \in {"upsertLookup", "upsertWrite"}
    BY <1>3, SummaryEffect
  <2> QED
    BY <1>2, <2>1 DEF HeadsOK, SameCall
<1>4. CASE UpsertWrite(p)
  <2>1. PICK r \in Run, e \in Run :
              /\ Goes(p, e) /\ Replied(e, r) /\ Disturb(p) /\ head' = head
              /\ run[p].pc = "upsertWrite" /\ SameCall(r, run[p])
              /\ r.pc = ReconcilePathOf(Desired(p))
    BY <1>4, UpsertWriteEffect
  <2>2. r.pc \in {"clearList", "listThreads", "gate", "unsupported"}
    <3>1. Desired(p) \in DesiredReviewState
      BY <1>4, CurrentRequest DEF UpsertWrite
    <3> QED
      BY <2>1, <3>1, PathNeeds
  <2> QED
    BY <1>2, <2>1, <2>2 DEF HeadsOK, SameCall, Replied, Returned
<1>5. CASE ListBotThreads(p)
  <2>1. PICK e \in Run : /\ Goes(p, e) /\ UNCHANGED <<forge, disturbed>>
                         /\ run[p].pc = "listThreads" /\ SameCall(e, run[p]) /\ e.pc = "classify"
    BY <1>5, ListBotThreadsEffect
  <2> QED
    BY <1>2, <2>1 DEF HeadsOK, SameCall
<1>6. CASE Supersede(p) \/ RepairDuplicate(p)
  <2>1. PICK r \in Run, e \in Run :
              /\ Goes(p, e) /\ Replied(e, r) /\ Disturb(p) /\ head' = head
              /\ run[p].pc \in {"classify", "repair"} /\ SameCall(r, run[p]) /\ r.pc = run[p].pc
    BY <1>6, ResolveEffect
  <2> QED
    BY <1>2, <2>1 DEF HeadsOK, SameCall, Replied, Returned
<1>7. CASE StartRepair(p)
  <2>1. PICK e \in Run : /\ Goes(p, e) /\ UNCHANGED <<forge, disturbed>>
                         /\ run[p].pc = "classify" /\ SameCall(e, run[p]) /\ e.pc = "repair"
    BY <1>7, StartRepairEffect
  <2> QED
    BY <1>2, <2>1 DEF HeadsOK, SameCall
<1>8. CASE EndRepair(p) \/ ReuseThread(p)
  <2>1. PICK e \in Run : /\ Goes(p, e) /\ UNCHANGED <<forge, disturbed>>
                         /\ run[p].pc \in {"classify", "repair"} /\ SameCall(e, run[p])
                         /\ e.pc = "rescan"
    BY <1>8, SettleEffect
  <2> QED
    BY <1>2, <2>1 DEF HeadsOK, SameCall
<1>9. CASE CreateThread(p)
  <2>1. PICK r \in Run, e \in Run :
              /\ Goes(p, e) /\ Replied(e, r) /\ Disturb(p) /\ head' = head
              /\ run[p].pc = "classify" /\ SameCall(r, run[p]) /\ r.pc = "rescan"
    BY <1>9, CreateThreadEffect
  <2> QED
    BY <1>2, <2>1 DEF HeadsOK, SameCall, Replied, Returned
<1>10. CASE RescanThreadDesired(p) \/ RescanClearSlot(p)
  <2>1. PICK e \in Run : /\ Goes(p, e) /\ UNCHANGED <<forge, disturbed>>
                         /\ Answered(e, run[p]) \/ Returned(e, run[p], "ErrRescanFailed")
    BY <1>10, RescanEffect
  <2> QED
    BY <2>1 DEF HeadsOK, Answered, Returned
<1>11. CASE ClearList(p)
  <2>1. PICK e \in Run : /\ Goes(p, e) /\ UNCHANGED <<forge, disturbed>> /\ run[p].pc = "clearList"
                         /\ \/ \E o \in {"ErrUnsupportedDecision", "error"} : Returned(e, run[p], o)
                            \/ SameCall(e, run[p]) /\ e.pc = "clearRescan"
    BY <1>11, ClearListEffect
  <2> QED
    BY <1>2, <2>1 DEF HeadsOK, SameCall, Returned
<1>12. CASE ClearResolve(p)
  <2>1. PICK r \in Run, e \in Run :
              /\ Goes(p, e) /\ Replied(e, r) /\ Disturb(p) /\ head' = head
              /\ run[p].pc = "clearRescan" /\ SameCall(r, run[p]) /\ r.pc = "clearRescan"
    BY <1>12, ClearResolveEffect
  <2> QED
    BY <1>2, <2>1 DEF HeadsOK, SameCall, Replied, Returned
<1>13. CASE ArmingGate(p)
  <2>1. PICK e \in Run :
              /\ Goes(p, e) /\ UNCHANGED <<forge, disturbed>> /\ run[p].pc = "gate"
              /\ \/ \E o \in {"ErrArmingRefused", "ErrIncompletePreconditions"} :
                       Returned(e, run[p], o)
                 \/ e.pc = "headsSource" /\ SameCall(e, run[p])
    BY <1>13, ArmingGateEffect
  <2> QED
    BY <1>2, <2>1 DEF HeadsOK, SameCall, Returned
<1>14. CASE ReadSource(p) \/ ShaGuard(p) \/ CasReadSource(p) \/ CasGuard(p)
  <2> DEFINE c == run[p]
             m == Desired(p).merge
  <2>1. PICK e \in Run :
              /\ Goes(p, e) /\ UNCHANGED <<forge, disturbed>>
              /\ \/ /\ SameCall(e, c) /\ SameReceipt(e, c)
                    /\ \/ c.pc = "headsSource" /\ e.pc = "headsTarget" /\ e.seen = head.source
                       \/ /\ c.pc = "headsTarget" /\ e.pc = "approve"
                          /\ c.seen = m.source /\ head.target = m.target
                          /\ SyntheticDigest(c.seen, head.target) = m.digest
                       \/ c.pc = "cas" /\ e.pc = "casTarget" /\ e.seen = head.source
                       \/ /\ c.pc = "casTarget" /\ e.pc = "put"
                          /\ c.seen = m.source /\ head.target = m.target
                 \/ /\ Returned(e, c, "ErrSHAMoved")
                    /\ \/ c.pc = "headsTarget"
                       \/ c.pc = "casTarget" /\ ~(c.seen = m.source /\ head.target = m.target)
    BY <1>14, HeadsEffect
  <2>2. CASE SameCall(e, c) /\ SameReceipt(e, c)
    BY <1>1, <1>2, <2>1, <2>2 DEF HeadsOK, SameCall, Returned
  <2>3. CASE Returned(e, c, "ErrSHAMoved") /\ c.pc = "headsTarget"
    BY <1>1, <2>1, <2>3 DEF HeadsOK, Returned, RunOK
  <2>4. CASE /\ Returned(e, c, "ErrSHAMoved") /\ c.pc = "casTarget"
             /\ ~(c.seen = m.source /\ head.target = m.target)
    BY <1>1, <2>1, <2>4 DEF HeadsOK, Returned
  <2> QED
    BY <2>1, <2>2, <2>3, <2>4
<1>15. CASE Approve(p)
  <2>1. PICK r \in Run, e \in Run :
              /\ Goes(p, e) /\ Replied(e, r) /\ Disturb(p) /\ head' = head
              /\ run[p].pc = "approve" /\ SameCall(r, run[p]) /\ r.pc = "cas"
    BY <1>15, ApproveEffect
  <2> QED
    BY <1>1, <1>2, <2>1 DEF HeadsOK, SameCall, Replied, Returned
<1>16. CASE MergeCASAtomic(p) \/ MergePut(p)
  <2> DEFINE c == run[p]
             m == Desired(p).merge
  <2>1. PICK e \in Run :
              /\ Goes(p, e) /\ c.pc \in {"cas", "put"}
              /\ \/ /\ UNCHANGED <<forge, disturbed>>
                    /\ \/ Returned(e, c, "error")
                       \/ /\ Returned(e, c, "ErrSHAMoved")
                          /\ \/ m.source # head.source
                             \/ /\ c.pc = "cas"
                                /\ \/ m.target # head.target
                                   \/ m.digest # SyntheticDigest(head.source, head.target)
                 \/ /\ Disturb(p) /\ e.pc = "idle" /\ e.outcome \in {"ok", "error"}
    BY <1>16, MergeEffect
  <2> QED
    BY <1>1, <2>1 DEF HeadsOK, Returned
<1> QED
  BY <1>3, <1>4, <1>5, <1>6, <1>7, <1>8, <1>9, <1>10, <1>11, <1>12, <1>13, <1>14, <1>15, <1>16
     DEF Step

(* What undisturbed invocations know of the heads stays true.              *)
LEMMA HeadsNext == Inv /\ HeadsKnown /\ [Next]_vars => HeadsKnown'
<1> SUFFICES ASSUME Inv, HeadsKnown, [Next]_vars PROVE HeadsKnown'
  OBVIOUS
<1>1. ASSUME NEW p \in Publishers, NEW e \in Run, Goes(p, e), HeadsOK(e, p \notin disturbed)',
             head' = head \/ disturbed' = disturbed \union (Publishers \ {p}),
             disturbed \ {p} \subseteq disturbed'
      PROVE  HeadsKnown'
  <2> SUFFICES ASSUME NEW q \in Publishers PROVE HeadsOK(run[q], q \notin disturbed)'
    BY DEF HeadsKnown
  <2>1. run'[q] = IF q = p THEN e ELSE run[q]
    BY <1>1, Stored
  <2>2. CASE q = p
    BY <1>1, <2>1, <2>2 DEF HeadsOK
  <2>3. CASE q # p
    BY <1>1, <2>1, <2>3 DEF HeadsOK, HeadsKnown
  <2> QED
    BY <2>2, <2>3
<1>2. ASSUME NEW p \in Publishers, Step(p) PROVE HeadsKnown'
  BY <1>1, <1>2, StepHeads
<1>3. ASSUME NEW p \in Publishers, Fail(p) PROVE HeadsKnown'
  <2>1. PICK e \in Run : Goes(p, e) /\ Returned(e, run[p], "error") /\ UNCHANGED <<forge, disturbed>>
    BY <1>3, FailEffect
  <2>2. HeadsOK(e, p \notin disturbed)'
    BY <2>1 DEF HeadsOK, Returned, CasSteps
  <2> QED
    BY <1>1, <2>1, <2>2 DEF forge
<1>4. ASSUME NEW p \in Publishers, NEW req \in Requests, Begin(p, req) PROVE HeadsKnown'
  <2>1. PICK e \in Run :
              /\ Goes(p, e) /\ UNCHANGED forge /\ disturbed' = disturbed \ {p} /\ e.writes = {}
              /\ e.pc \in {"idle", "listNotes", ReconcilePathOf(req.desired)}
    BY <1>4, EnterEffect DEF Begin
  <2>2. e.pc \in {"idle", "listNotes", "clearList", "listThreads", "gate", "unsupported"}
    BY <2>1, RequestsAssumption, PathNeeds
  <2>3. HeadsOK(e, p \notin disturbed)'
    BY <2>1, <2>2 DEF HeadsOK, CasSteps
  <2> QED
    BY <1>1, <2>1, <2>3 DEF forge
<1>5. CASE Environment
  <2>1. run' = run /\ disturbed' = Publishers
    BY <1>5 DEF Environment, ReviewerResolves, ReviewerReopens, CorruptMarker, Push, DisturbAll
  <2> QED
    BY <2>1 DEF HeadsKnown, HeadsOK
<1>6. CASE UNCHANGED vars
  BY <1>6 DEF vars, HeadsKnown, HeadsOK
<1> QED
  BY <1>2, <1>3, <1>4, <1>5, <1>6 DEF Next

(* An approval is left without its merge by a SHA refusal only when         *)
(* somebody moved a head during the invocation: a move before it is caught  *)
(* by the pre-check, for either MergeCAS (forge.go 803-830).                *)
THEOREM DanglingApprovalsAreMoves == Spec => []DanglingApprovalOnlyIfMoved
<1>1. Init => HeadsKnown
  BY DEF Init, HeadsKnown, HeadsOK, IdleRun, CasSteps
<1>2. HeadsKnown => DanglingApprovalOnlyIfMoved
  BY DEF HeadsKnown, HeadsOK, DanglingApprovalOnlyIfMoved
<1> QED
  BY <1>1, <1>2, HeadsNext, InvariantHolds, PTL DEF Spec

-----------------------------------------------------------------------------
(* One publisher at a time: the listing a publisher decides from may be    *)
(* out of date, but it can only have more threads than the forge has now,  *)
(* never fewer.                                                            *)

Busy(p) == run[p].pc # "idle"

(* No two publishers are at work, and the listing of the one that is covers *)
(* every thread of its key.                                                 *)
OneBusy == \A p, q \in Publishers : Busy(p) /\ Busy(q) => p = q
ListingCovers ==
    \A p \in Publishers : run[p].pc = "classify" =>
        Occupants(threads, run[p].req.desired.thread)
            \subseteq Occupants(run[p].existing, run[p].req.desired.thread)
SerialInv == OneThreadPerKey /\ OneBusy /\ ListingCovers

(* A change of the threads that adds none and renames none.                *)
Quiet(ts, us) ==
    /\ Listed(us) \subseteq Listed(ts)
    /\ \A i \in Listed(us) : us[i].slot = ts[i].slot /\ us[i].occurrence = ts[i].occurrence

(* A quiet change leaves one thread per key and empties no listing.        *)
LEMMA QuietKeeps ==
    ASSUME OneThreadPerKey, Quiet(threads, threads')
    PROVE  /\ OneThreadPerKey'
           /\ \A m : Occupants(threads', m) \subseteq Occupants(threads, m)
BY DEF OneThreadPerKey, Quiet, Occupants, SameKey

(* Resolving a thread is quiet.                                            *)
LEMMA ResolveQuiet ==
    ASSUME NEW ts \in Seq(Thread), NEW i
    PROVE  Quiet(ts, ResolveAt(ts, i))
<1> DEFINE us == ResolveAt(ts, i)
<1>1. DOMAIN us = DOMAIN ts
  BY DEF ResolveAt
<1>2. ASSUME NEW j \in DOMAIN ts
      PROVE  /\ us[j].slot = ts[j].slot /\ us[j].occurrence = ts[j].occurrence
             /\ us[j].legible = ts[j].legible
  BY DEF ResolveAt, Thread
<1>3. Quiet(ts, us)
  <2> HIDE DEF us
  <2> QED
    BY <1>1, <1>2 DEF Quiet, Listed
<1> QED
  BY <1>3

(* What a publisher's step can do to the threads and to its own record.    *)
Frame(p, r) ==
    /\ run' = [run EXCEPT ![p] = r]
    /\ \/ r.pc # "classify" /\ Quiet(threads, threads')
       \/ r.pc = "classify" /\ threads' = threads /\ r.existing = threads
       \/ /\ r.pc = "classify" /\ run[p].pc = "classify" /\ Quiet(threads, threads')
          /\ r.existing = run[p].existing /\ r.req = run[p].req
       \/ r.pc # "classify" /\ CreateThread(p)

(* A framed step of the busy publisher keeps the invariant.                *)
LEMMA FrameKeeps ==
    ASSUME Inv, SerialInv, NEW p \in Publishers, Busy(p) \/ \A q \in Publishers : ~Busy(q),
           NEW r, Frame(p, r)
    PROVE  SerialInv'
<1>1. \A q \in Publishers : run'[q] = IF q = p THEN r ELSE run[q]
  BY DEF Frame, Inv, TypeOK
<1>2. OneBusy'
  BY <1>1 DEF SerialInv, OneBusy, Busy
<1>3. \A q \in Publishers : q # p => ~Busy(q)
  BY DEF SerialInv, OneBusy
<1>4. CASE r.pc # "classify" /\ Quiet(threads, threads')
  <2>1. ListingCovers'
    BY <1>1, <1>3, <1>4 DEF ListingCovers, Busy
  <2> QED
    BY <1>2, <1>4, <2>1, QuietKeeps DEF SerialInv
<1>5. CASE r.pc = "classify" /\ threads' = threads /\ r.existing = threads
  <2>1. ListingCovers'
    BY <1>1, <1>3, <1>5 DEF ListingCovers, Busy
  <2>2. OneThreadPerKey'
    BY <1>5 DEF SerialInv, OneThreadPerKey, Listed
  <2> QED
    BY <1>2, <2>1, <2>2 DEF SerialInv
<1>6. CASE /\ r.pc = "classify" /\ run[p].pc = "classify" /\ Quiet(threads, threads')
           /\ r.existing = run[p].existing /\ r.req = run[p].req
  <2>1. /\ OneThreadPerKey'
        /\ \A m : Occupants(threads', m) \subseteq Occupants(threads, m)
    BY <1>6, QuietKeeps DEF SerialInv
  <2>2. ListingCovers'
    BY <1>1, <1>3, <1>6, <2>1 DEF SerialInv, ListingCovers, Busy
  <2> QED
    BY <1>2, <2>1, <2>2 DEF SerialInv
<1>7. CASE r.pc # "classify" /\ CreateThread(p)
  <2> DEFINE m == Desired(p).thread
             new == [slot |-> m.slot, occurrence |-> m.occurrence, legible |-> TRUE,
                     resolver |-> "nobody"]
  <2>1. /\ threads \in Seq(Thread) /\ threads' = Append(threads, new)
        /\ run[p].pc = "classify" /\ Occupants(run[p].existing, m) = {}
    BY <1>7 DEF CreateThread, Inv, TypeOK
  <2>2. Occupants(threads, m) = {}
    BY <2>1 DEF SerialInv, ListingCovers, Desired
  <2>3. /\ new.slot = m.slot /\ new.occurrence = m.occurrence
    OBVIOUS
  <2> HIDE DEF new
  <2>4. /\ DOMAIN threads' = DOMAIN threads \union {Len(threads) + 1}
        /\ \A j \in DOMAIN threads : threads'[j] = threads[j]
        /\ threads'[Len(threads) + 1] = new
    BY <2>1
  <2>5. OneThreadPerKey'
    <3> SUFFICES ASSUME NEW i \in Listed(threads'), NEW j \in Listed(threads'),
                        SameKey(threads'[i], threads'[j])
                 PROVE  i = j
      BY DEF OneThreadPerKey
    <3>1. CASE i \in DOMAIN threads /\ j \in DOMAIN threads
      BY <2>4, <3>1 DEF SerialInv, OneThreadPerKey, Listed
    <3>2. CASE i \in DOMAIN threads /\ j \notin DOMAIN threads
      BY <2>2, <2>3, <2>4, <3>2 DEF Listed, Occupants, SameKey
    <3>3. CASE i \notin DOMAIN threads /\ j \in DOMAIN threads
      BY <2>2, <2>3, <2>4, <3>3 DEF Listed, Occupants, SameKey
    <3>4. CASE i \notin DOMAIN threads /\ j \notin DOMAIN threads
      BY <2>4, <3>4 DEF Listed
    <3> QED
      BY <3>1, <3>2, <3>3, <3>4
  <2>6. ListingCovers'
    BY <1>1, <1>3, <1>7 DEF ListingCovers, Busy
  <2> QED
    BY <1>2, <2>5, <2>6 DEF SerialInv
<1> QED
  BY <1>4, <1>5, <1>6, <1>7 DEF Frame

(* Every step of an invocation is framed.                                  *)
LEMMA StepFrame ==
    ASSUME Inv, NEW p \in Publishers, Step(p)
    PROVE  Busy(p) /\ \E r : Frame(p, r)
<1>1. Quiet(threads, threads) /\ threads \in Seq(Thread)
  BY DEF Quiet, Inv, TypeOK
<1>2. ASSUME NEW e, Goes(p, e), threads' = threads, e.pc # "classify" PROVE Frame(p, e)
  BY <1>1, <1>2 DEF Frame, Goes
<1>3. \A i : Quiet(threads, ResolveAt(threads, i))
  BY <1>1, ResolveQuiet
<1> USE DEF forge
<1>4. CASE ListBotNotes(p) \/ UpsertLookup(p)
  <2>1. PICK e \in Run : /\ Goes(p, e) /\ UNCHANGED <<forge, disturbed>>
                         /\ run[p].pc \in {"listNotes", "upsertLookup"}
                         /\ e.pc \in {"upsertLookup", "upsertWrite"}
    BY <1>4, SummaryEffect
  <2> QED
    BY <1>2, <2>1 DEF Busy
<1>5. CASE UpsertWrite(p)
  <2>1. PICK r \in Run, e \in Run : /\ Goes(p, e) /\ Replied(e, r) /\ threads' = threads
                                    /\ run[p].pc = "upsertWrite"
                                    /\ r.pc = ReconcilePathOf(Desired(p))
    BY <1>5, UpsertWriteEffect
  <2>2. r.pc # "classify"
    BY <2>1, CurrentRequest, PathNeeds
  <2> QED
    BY <1>2, <2>1, <2>2 DEF Busy, Replied, Returned
<1>6. CASE ListBotThreads(p)
  <2>1. PICK e \in Run : /\ Goes(p, e) /\ UNCHANGED <<forge, disturbed>>
                         /\ run[p].pc = "listThreads" /\ e.pc = "classify" /\ e.existing = threads
    BY <1>6, ListBotThreadsEffect
  <2> QED
    BY <2>1 DEF Busy, Frame, Goes
<1>7. CASE Supersede(p) \/ RepairDuplicate(p)
  <2>1. PICK r \in Run, e \in Run, i \in run[p].pending :
              /\ Goes(p, e) /\ Replied(e, r) /\ threads' = ResolveAt(threads, i)
              /\ run[p].pc \in {"classify", "repair"} /\ SameCall(r, run[p])
              /\ r.pc = run[p].pc /\ r.existing = run[p].existing
    BY <1>7, ResolveEffect
  <2>2. Quiet(threads, threads')
    BY <1>3, <2>1
  <2> QED
    BY <2>1, <2>2 DEF Busy, Frame, Goes, Replied, Returned, SameCall
<1>8. CASE StartRepair(p)
  <2>1. PICK e \in Run : /\ Goes(p, e) /\ UNCHANGED <<forge, disturbed>>
                         /\ run[p].pc = "classify" /\ e.pc = "repair"
    BY <1>8, StartRepairEffect
  <2> QED
    BY <1>2, <2>1 DEF Busy
<1>9. CASE EndRepair(p) \/ ReuseThread(p)
  <2>1. PICK e \in Run : /\ Goes(p, e) /\ UNCHANGED <<forge, disturbed>>
                         /\ run[p].pc \in {"classify", "repair"} /\ e.pc = "rescan"
    BY <1>9, SettleEffect
  <2> QED
    BY <1>2, <2>1 DEF Busy
<1>10. CASE CreateThread(p)
  <2>1. PICK r \in Run, e \in Run : /\ Goes(p, e) /\ Replied(e, r)
                                    /\ run[p].pc = "classify" /\ r.pc = "rescan"
    BY <1>10, CreateThreadEffect
  <2> QED
    BY <1>10, <2>1 DEF Busy, Frame, Goes, Replied, Returned
<1>11. CASE RescanThreadDesired(p) \/ RescanClearSlot(p)
  <2>1. PICK e \in Run : /\ Goes(p, e) /\ UNCHANGED <<forge, disturbed>> /\ e.pc = "idle"
                         /\ run[p].pc \in {"rescan", "clearRescan"}
    BY <1>11, RescanEffect DEF Answered, Returned
  <2> QED
    BY <1>2, <2>1 DEF Busy
<1>12. CASE ClearList(p)
  <2>1. PICK e \in Run : /\ Goes(p, e) /\ UNCHANGED <<forge, disturbed>>
                         /\ run[p].pc = "clearList" /\ e.pc \in {"idle", "clearRescan"}
    BY <1>12, ClearListEffect DEF Returned
  <2> QED
    BY <1>2, <2>1 DEF Busy
<1>13. CASE ClearResolve(p)
  <2>1. PICK r \in Run, e \in Run, i \in run[p].pending :
              /\ Goes(p, e) /\ Replied(e, r) /\ threads' = ResolveAt(threads, i)
              /\ run[p].pc = "clearRescan" /\ r.pc = "clearRescan"
    BY <1>13, ClearResolveEffect
  <2>2. Quiet(threads, threads')
    BY <1>3, <2>1
  <2> QED
    BY <2>1, <2>2 DEF Busy, Frame, Goes, Replied, Returned
<1>14. CASE ArmingGate(p)
  <2>1. PICK e \in Run : /\ Goes(p, e) /\ UNCHANGED <<forge, disturbed>>
                         /\ run[p].pc = "gate" /\ e.pc \in {"idle", "headsSource"}
    BY <1>14, ArmingGateEffect DEF Returned
  <2> QED
    BY <1>2, <2>1 DEF Busy
<1>15. CASE ReadSource(p) \/ ShaGuard(p) \/ CasReadSource(p) \/ CasGuard(p)
  <2>1. PICK e \in Run : /\ Goes(p, e) /\ UNCHANGED <<forge, disturbed>> /\ run[p].pc # "idle"
                         /\ e.pc \in {"idle", "headsTarget", "approve", "casTarget", "put"}
    BY <1>15, HeadsEffect DEF Returned
  <2> QED
    BY <1>2, <2>1 DEF Busy
<1>16. CASE Approve(p)
  <2>1. PICK r \in Run, e \in Run : /\ Goes(p, e) /\ Replied(e, r) /\ threads' = threads
                                    /\ run[p].pc = "approve" /\ r.pc = "cas"
    BY <1>16, ApproveEffect
  <2> QED
    BY <1>2, <2>1 DEF Busy, Replied, Returned
<1>17. CASE MergeCASAtomic(p) \/ MergePut(p)
  <2>1. PICK e \in Run : /\ Goes(p, e) /\ threads' = threads /\ e.pc = "idle"
                         /\ run[p].pc \in {"cas", "put"}
    BY <1>17, MergeEffect DEF Returned
  <2> QED
    BY <1>2, <2>1 DEF Busy
<1> QED
  BY <1>4, <1>5, <1>6, <1>7, <1>8, <1>9, <1>10, <1>11, <1>12, <1>13, <1>14, <1>15, <1>16, <1>17
     DEF Step

(* People and pushes rename no thread and add none.                        *)
LEMMA EnvironmentKeeps ==
    ASSUME Inv, SerialInv, Environment
    PROVE  SerialInv'
<1>1. threads \in Seq(Thread)
  BY DEF Inv, TypeOK
<1>2. run' = run
  BY DEF Environment, ReviewerResolves, ReviewerReopens, CorruptMarker, Push
<1>3. Quiet(threads, threads')
  <2>1. ASSUME NEW i, NEW who PROVE Quiet(threads, [threads EXCEPT ![i].resolver = who])
    <3>1. \A j \in DOMAIN threads : threads[j] \in Thread
      BY <1>1
    <3> QED
      BY <3>1 DEF Quiet, Listed, Thread
  <2>2. ASSUME NEW i PROVE Quiet(threads, [threads EXCEPT ![i].legible = FALSE])
    <3>1. \A j \in DOMAIN threads : threads[j] \in Thread
      BY <1>1
    <3> QED
      BY <3>1 DEF Quiet, Listed, Thread
  <2>3. Quiet(threads, threads)
    BY DEF Quiet
  <2> QED
    BY <2>1, <2>2, <2>3 DEF Environment, ReviewerResolves, ReviewerReopens, CorruptMarker, Push
<1>4. /\ OneThreadPerKey'
      /\ \A m : Occupants(threads', m) \subseteq Occupants(threads, m)
  BY <1>3, QuietKeeps DEF SerialInv
<1>5. ListingCovers'
  BY <1>2, <1>4 DEF SerialInv, ListingCovers
<1>6. OneBusy'
  BY <1>2 DEF SerialInv, OneBusy, Busy
<1> QED
  BY <1>4, <1>5, <1>6 DEF SerialInv

(* Every step keeps the serial invariant.                                  *)
LEMMA SerialNext ==
    ASSUME Serialized
    PROVE  Inv /\ SerialInv /\ [Next]_vars => SerialInv'
<1> SUFFICES ASSUME Inv, SerialInv, [Next]_vars PROVE SerialInv'
  OBVIOUS
<1>1. ASSUME NEW p \in Publishers, Step(p) PROVE SerialInv'
  BY <1>1, StepFrame, FrameKeeps
<1>2. ASSUME NEW p \in Publishers, NEW e \in Run, Goes(p, e), UNCHANGED forge, e.pc # "classify",
             Busy(p) \/ \A q \in Publishers : ~Busy(q)
      PROVE  SerialInv'
  <2>1. Frame(p, e)
    BY <1>2 DEF Frame, Goes, Quiet, forge
  <2> QED
    BY <1>2, <2>1, FrameKeeps
<1>3. ASSUME NEW p \in Publishers, Fail(p) PROVE SerialInv'
  BY <1>2, <1>3, FailEffect DEF Returned, Busy
<1>4. ASSUME NEW p \in Publishers, NEW req \in Requests, Begin(p, req) PROVE SerialInv'
  <2>1. PICK e \in Run : /\ Goes(p, e) /\ UNCHANGED forge
                         /\ e.pc \in {"idle", "listNotes", ReconcilePathOf(req.desired)}
    BY <1>4, EnterEffect DEF Begin
  <2>2. e.pc # "classify"
    BY <2>1, RequestsAssumption, PathNeeds
  <2>3. \A q \in Publishers : ~Busy(q)
    BY <1>4 DEF Begin, Busy
  <2> QED
    BY <1>2, <2>1, <2>2, <2>3
<1>5. CASE UNCHANGED vars
  BY <1>5 DEF vars, SerialInv, OneThreadPerKey, OneBusy, Busy, ListingCovers, Listed
<1> QED
  BY <1>1, <1>3, <1>4, <1>5, EnvironmentKeeps DEF Next

(* The serial invariant of every behaviour with one publisher at a time.   *)
LEMMA SerialHolds ==
    ASSUME Serialized
    PROVE  Spec => []SerialInv
<1>1. Init => SerialInv
  BY DEF Init, SerialInv, OneThreadPerKey, OneBusy, Busy, ListingCovers, Listed, IdleRun
<1> QED
  BY <1>1, SerialNext, InvariantHolds, PTL DEF Spec

(* With one publisher per merge request at a time, a (slot, occurrence)     *)
(* never has two readable threads, whatever crashes, lost responses,        *)
(* reviewers and corrupted markers come between the listing and the POST    *)
(* (forge.go 468-543; reconciliation-state-table.md, one publisher per MR). *)
THEOREM SerializedMeansOneThread ==
    ASSUME Serialized
    PROVE  Spec => []OneThreadPerKey
<1>1. SerialInv => OneThreadPerKey
  BY DEF SerialInv
<1> QED
  BY <1>1, SerialHolds, PTL

-----------------------------------------------------------------------------
(* The rescan of an invocation that nobody disturbed.                      *)

(* Resolving thread i changes whether i is resolved and nothing else.      *)
LEMMA ResolveFields ==
    ASSUME NEW ts \in Seq(Thread), NEW i \in DOMAIN ts
    PROVE  LET us == ResolveAt(ts, i)
           IN  /\ DOMAIN us = DOMAIN ts /\ Listed(us) = Listed(ts)
               /\ \A j \in DOMAIN ts :
                     /\ us[j].slot = ts[j].slot /\ us[j].occurrence = ts[j].occurrence
                     /\ Resolved(us[j]) <=> Resolved(ts[j]) \/ j = i
<1> DEFINE us == ResolveAt(ts, i)
<1>1. DOMAIN us = DOMAIN ts
  BY DEF ResolveAt
<1>2. ASSUME NEW j \in DOMAIN ts
      PROVE  /\ us[j].slot = ts[j].slot /\ us[j].occurrence = ts[j].occurrence
             /\ us[j].legible = ts[j].legible
             /\ Resolved(us[j]) <=> Resolved(ts[j]) \/ j = i
  BY DEF ResolveAt, Thread, Resolved
<1>3. Listed(us) = Listed(ts)
  <2> HIDE DEF us
  <2> QED
    BY <1>1, <1>2 DEF Listed
<1> QED
  BY <1>1, <1>2, <1>3

(* The steps of the summary, the gate, the approval and the merge leave    *)
(* the threads alone and never enter the thread path half way.             *)
LEMMA PlainEffect ==
    ASSUME Inv, NEW p \in Publishers,
           \/ ListBotNotes(p) \/ UpsertLookup(p) \/ UpsertWrite(p) \/ ArmingGate(p)
           \/ ReadSource(p) \/ ShaGuard(p) \/ CasReadSource(p) \/ CasGuard(p)
           \/ Approve(p) \/ MergeCASAtomic(p) \/ MergePut(p)
    PROVE  \E e \in Run :
              /\ Goes(p, e) /\ threads' = threads /\ e.req = run[p].req
              /\ disturbed' = disturbed \/ Disturb(p)
              /\ e.pc \notin {"classify", "repair", "rescan", "clearRescan"}
              /\ e.outcome # "ErrRescanFailed"
<1>1. run[p].pc # "idle" => run[p].outcome = "none"
  BY Current DEF RunOK
<1> USE DEF forge, SameCall
<1>2. CASE ListBotNotes(p) \/ UpsertLookup(p)
  <2>1. PICK e \in Run : /\ Goes(p, e) /\ UNCHANGED <<forge, disturbed>>
                         /\ run[p].pc \in {"listNotes", "upsertLookup"} /\ SameCall(e, run[p])
                         /\ e.pc \in {"upsertLookup", "upsertWrite"}
    BY <1>2, SummaryEffect
  <2> QED
    BY <1>1, <2>1
<1>3. CASE UpsertWrite(p)
  <2>1. PICK r \in Run, e \in Run :
              /\ Goes(p, e) /\ Replied(e, r) /\ Disturb(p) /\ threads' = threads
              /\ run[p].pc = "upsertWrite" /\ SameCall(r, run[p])
              /\ r.pc = ReconcilePathOf(Desired(p))
    BY <1>3, UpsertWriteEffect
  <2>2. r.pc \in {"clearList", "listThreads", "gate", "unsupported"}
    BY <1>3, <2>1, CurrentRequest, PathNeeds DEF UpsertWrite
  <2> QED
    BY <1>1, <2>1, <2>2 DEF Replied, Returned
<1>4. CASE ArmingGate(p)
  <2>1. PICK e \in Run :
              /\ Goes(p, e) /\ UNCHANGED <<forge, disturbed>> /\ run[p].pc = "gate"
              /\ \/ \E o \in {"ErrArmingRefused", "ErrIncompletePreconditions"} :
                       Returned(e, run[p], o)
                 \/ e.pc = "headsSource" /\ SameCall(e, run[p])
    BY <1>4, ArmingGateEffect
  <2> QED
    BY <1>1, <2>1 DEF Returned
<1>5. CASE ReadSource(p) \/ ShaGuard(p) \/ CasReadSource(p) \/ CasGuard(p)
  <2>1. PICK e \in Run :
              /\ Goes(p, e) /\ UNCHANGED <<forge, disturbed>> /\ run[p].pc # "idle"
              /\ \/ /\ SameCall(e, run[p])
                    /\ e.pc \in {"headsTarget", "approve", "casTarget", "put"}
                 \/ Returned(e, run[p], "ErrSHAMoved")
    BY <1>5, HeadsEffect
  <2> QED
    BY <1>1, <2>1 DEF Returned
<1>6. CASE Approve(p)
  <2>1. PICK r \in Run, e \in Run :
              /\ Goes(p, e) /\ Replied(e, r) /\ Disturb(p) /\ threads' = threads
              /\ run[p].pc = "approve" /\ SameCall(r, run[p]) /\ r.pc = "cas"
    BY <1>6, ApproveEffect
  <2> QED
    BY <1>1, <2>1 DEF Replied, Returned
<1>7. CASE MergeCASAtomic(p) \/ MergePut(p)
  <2>1. PICK e \in Run :
              /\ Goes(p, e) /\ threads' = threads /\ e.pc = "idle" /\ e.req = run[p].req
              /\ disturbed' = disturbed \/ Disturb(p)
              /\ e.outcome \in {"error", "ErrSHAMoved", "ok"}
    BY <1>7, MergeEffect DEF Returned
  <2> QED
    BY <2>1
<1> QED
  BY <1>2, <1>3, <1>4, <1>5, <1>6, <1>7

(* What an undisturbed invocation knows of the threads: its listing is     *)
(* still right about its key, what it has left to resolve is all there is  *)
(* to resolve, and the rescan to come will find what it promised.          *)
Known(r, quiet) ==
    LET m == r.req.desired.thread
    IN  quiet =>
          /\ r.pc = "classify" =>
                /\ r.pending = StaleOpen(threads, m)
                /\ Occupants(r.existing, m) = Occupants(threads, m)
                /\ \A i \in Occupants(threads, m) : Resolved(r.existing[i]) <=> Resolved(threads[i])
          /\ r.pc # "repair"
          /\ r.pc = "rescan" => VerifyThreadRescan(threads, m, r.mode)
          /\ r.pc = "clearRescan" =>
                /\ r.pending = OpenInSlot(threads, r.req.desired.clearSlot)
                /\ \A i, j \in r.pending : i = j
          /\ r.outcome # "ErrRescanFailed"
AllKnown == \A p \in Publishers : Known(run[p], p \notin disturbed)

(* Superseding a stale thread leaves the rest of them and the occupants.   *)
LEMMA SupersedeKnown ==
    ASSUME NEW ts \in Seq(Thread), NEW m, NEW i \in StaleOpen(ts, m)
    PROVE  LET us == ResolveAt(ts, i)
           IN  /\ StaleOpen(us, m) = StaleOpen(ts, m) \ {i}
               /\ Occupants(us, m) = Occupants(ts, m)
               /\ \A j \in Occupants(ts, m) : Resolved(us[j]) <=> Resolved(ts[j])
<1> DEFINE us == ResolveAt(ts, i)
<1>1. i \in DOMAIN ts
  BY DEF StaleOpen, Listed
<1>2. /\ DOMAIN us = DOMAIN ts /\ Listed(us) = Listed(ts)
      /\ \A j \in DOMAIN ts : /\ us[j].slot = ts[j].slot /\ us[j].occurrence = ts[j].occurrence
                              /\ Resolved(us[j]) <=> Resolved(ts[j]) \/ j = i
  BY <1>1, ResolveFields
<1> HIDE DEF us
<1>3. Listed(ts) \subseteq DOMAIN ts
  BY DEF Listed
<1>4. StaleOpen(us, m) = StaleOpen(ts, m) \ {i}
  BY <1>2, <1>3 DEF StaleOpen
<1>5. Occupants(us, m) = Occupants(ts, m)
  BY <1>2, <1>3 DEF Occupants, SameKey
<1>6. \A j \in Occupants(ts, m) : j # i /\ j \in DOMAIN ts
  BY <1>3 DEF Occupants, SameKey, StaleOpen
<1> QED
  BY <1>2, <1>4, <1>5, <1>6 DEF us

(* A thread posted where the key was free and nothing stale was left is    *)
(* what the rescan wants to see.                                           *)
LEMMA CreateKnown ==
    ASSUME NEW ts \in Seq(Thread), NEW m, NEW new, new.slot = m.slot,
           new.occurrence = m.occurrence, new.legible, ~Resolved(new),
           StaleOpen(ts, m) = {}, Occupants(ts, m) = {}
    PROVE  VerifyThreadRescan(Append(ts, new), m, "open")
<1> DEFINE us == Append(ts, new)
           n == Len(ts) + 1
<1>1. /\ DOMAIN us = DOMAIN ts \union {n} /\ n \notin DOMAIN ts
      /\ \A j \in DOMAIN ts : us[j] = ts[j]
      /\ us[n] = new
  OBVIOUS
<1> HIDE DEF us, n
<1>2. StaleOpen(us, m) = {}
  BY <1>1 DEF StaleOpen, Listed
<1>3. OpenOccupants(us, m) = {n}
  BY <1>1 DEF OpenOccupants, Occupants, Listed, SameKey
<1> QED
  BY <1>2, <1>3 DEF VerifyThreadRescan, IsSingleton, us

(* Each step of an undisturbed invocation keeps what it knows.             *)
LEMMA StepKnown ==
    ASSUME Inv, SerialInv, ReceiptInv, AllKnown, NEW p \in Publishers, Step(p)
    PROVE  \E e \in Run :
              /\ Goes(p, e) /\ Known(e, p \notin disturbed)'
              /\ \/ disturbed' = disturbed /\ threads' = threads
                 \/ disturbed' = disturbed \union (Publishers \ {p})
<1> DEFINE m == Desired(p).thread
<1>1. /\ Known(run[p], p \notin disturbed) /\ run[p].req.desired = Desired(p)
      /\ run[p] \in Run /\ RunOK(run[p]) /\ ReceiptOK(run[p]) /\ threads \in Seq(Thread)
  BY Current DEF AllKnown, Desired, ReceiptInv, Inv, TypeOK
<1>2. run[p].pc # "idle" => run[p].outcome = "none"
  BY <1>1 DEF RunOK
<1> USE DEF Disturb, forge
<1>3. CASE \/ ListBotNotes(p) \/ UpsertLookup(p) \/ UpsertWrite(p) \/ ArmingGate(p)
           \/ ReadSource(p) \/ ShaGuard(p) \/ CasReadSource(p) \/ CasGuard(p)
           \/ Approve(p) \/ MergeCASAtomic(p) \/ MergePut(p)
  <2>1. PICK e \in Run :
              /\ Goes(p, e) /\ threads' = threads
              /\ disturbed' = disturbed \/ Disturb(p)
              /\ e.pc \notin {"classify", "repair", "rescan", "clearRescan"}
              /\ e.outcome # "ErrRescanFailed"
    BY <1>3, PlainEffect
  <2> QED
    BY <2>1 DEF Known
<1>4. CASE ListBotThreads(p)
  <2>1. PICK e \in Run : /\ Goes(p, e) /\ UNCHANGED <<forge, disturbed>>
                         /\ run[p].pc = "listThreads" /\ SameCall(e, run[p]) /\ e.pc = "classify"
                         /\ e.existing = threads /\ e.pending = StaleOpen(threads, m)
    BY <1>4, ListBotThreadsEffect
  <2> QED
    BY <1>1, <1>2, <2>1 DEF Known, SameCall
<1>5. CASE Supersede(p) \/ RepairDuplicate(p)
  <2>1. PICK r \in Run, e \in Run, i \in run[p].pending :
              /\ Goes(p, e) /\ Replied(e, r) /\ Disturb(p) /\ threads' = ResolveAt(threads, i)
              /\ run[p].pc \in {"classify", "repair"} /\ SameCall(r, run[p])
              /\ r.pc = run[p].pc /\ r.existing = run[p].existing
              /\ r.pending = run[p].pending \ {i}
    BY <1>5, ResolveEffect
  <2>2. CASE p \in disturbed
    BY <2>1, <2>2 DEF Known
  <2>3. CASE p \notin disturbed
    <3>1. /\ run[p].pc = "classify" /\ run[p].pending = StaleOpen(threads, m)
          /\ Occupants(run[p].existing, m) = Occupants(threads, m)
          /\ \A j \in Occupants(threads, m) : Resolved(run[p].existing[j]) <=> Resolved(threads[j])
      BY <1>1, <2>1, <2>3 DEF Known
    <3>2. /\ StaleOpen(threads', m) = StaleOpen(threads, m) \ {i}
          /\ Occupants(threads', m) = Occupants(threads, m)
          /\ \A j \in Occupants(threads, m) : Resolved(threads'[j]) <=> Resolved(threads[j])
      BY <1>1, <2>1, <3>1, SupersedeKnown
    <3>3. r.req.desired.thread = m /\ r.outcome = "none"
      BY <1>1, <1>2, <2>1 DEF SameCall
    <3>4. CASE e = r
      BY <2>1, <3>1, <3>2, <3>3, <3>4 DEF Known
    <3>5. CASE e # r
      BY <2>1, <3>5 DEF Known, Replied, Returned
    <3> QED
      BY <3>4, <3>5, <2>1
  <2> QED
    BY <2>2, <2>3
<1>6. CASE StartRepair(p)
  <2>1. PICK e \in Run :
              /\ Goes(p, e) /\ UNCHANGED <<forge, disturbed>> /\ run[p].pc = "classify"
              /\ HasDuplicates(Occupants(run[p].existing, m))
    BY <1>6, StartRepairEffect
  <2>2. p \in disturbed
    BY <1>1, <2>1 DEF Known, HasDuplicates, SerialInv, OneThreadPerKey, Occupants, SameKey
  <2> QED
    BY <2>1, <2>2 DEF Known
<1>7. CASE EndRepair(p) \/ ReuseThread(p)
  <2>1. PICK e \in Run, i \in Nat :
              /\ Goes(p, e) /\ UNCHANGED <<forge, disturbed>>
              /\ run[p].pending = {} /\ SameCall(e, run[p]) /\ e.pc = "rescan"
              /\ \/ run[p].pc = "repair"
                 \/ /\ run[p].pc = "classify" /\ Occupants(run[p].existing, m) = {i}
                    /\ e.mode = IF Resolved(run[p].existing[i]) THEN "preserveResolved" ELSE "open"
    BY <1>7, SettleEffect
  <2>2. CASE p \in disturbed
    BY <2>1, <2>2 DEF Known
  <2>3. CASE p \notin disturbed
    <3>1. /\ run[p].pc = "classify" /\ StaleOpen(threads, m) = {} /\ Occupants(threads, m) = {i}
          /\ e.mode = IF Resolved(threads[i]) THEN "preserveResolved" ELSE "open"
      BY <1>1, <2>1, <2>3 DEF Known
    <3>2. VerifyThreadRescan(threads, m, e.mode)
      <4>1. CASE Resolved(threads[i])
        BY <3>1, <4>1 DEF VerifyThreadRescan, IsSingleton, OpenOccupants
      <4>2. CASE ~Resolved(threads[i])
        <5>1. OpenOccupants(threads, m) = {i}
          BY <3>1, <4>2 DEF OpenOccupants
        <5> QED
          BY <3>1, <4>2, <5>1 DEF VerifyThreadRescan, IsSingleton
      <4> QED
        BY <4>1, <4>2
    <3>3. e.req.desired.thread = m /\ e.outcome = "none" /\ threads' = threads
      BY <1>1, <1>2, <2>1, <3>1 DEF SameCall
    <3> QED
      BY <2>1, <3>2, <3>3 DEF Known
  <2> QED
    BY <2>2, <2>3
<1>8. CASE CreateThread(p)
  <2> DEFINE new == [slot |-> m.slot, occurrence |-> m.occurrence,
                     legible |-> TRUE, resolver |-> "nobody"]
  <2>1. PICK r \in Run, e \in Run :
              /\ Goes(p, e) /\ Replied(e, r) /\ Disturb(p) /\ threads' = Append(threads, new)
              /\ run[p].pc = "classify" /\ run[p].pending = {}
              /\ Occupants(run[p].existing, m) = {}
              /\ SameCall(r, run[p]) /\ r.pc = "rescan" /\ r.mode = "open"
    BY <1>8, CreateThreadEffect
  <2>2. /\ new.slot = m.slot /\ new.occurrence = m.occurrence /\ new.legible /\ ~Resolved(new)
    BY DEF Resolved
  <2> HIDE DEF new
  <2>3. CASE p \in disturbed
    BY <2>1, <2>3 DEF Known
  <2>4. CASE p \notin disturbed
    <3>1. StaleOpen(threads, m) = {} /\ Occupants(threads, m) = {}
      BY <1>1, <2>1, <2>4 DEF Known
    <3>2. VerifyThreadRescan(threads', m, "open")
      BY <1>1, <2>1, <2>2, <3>1, CreateKnown
    <3>3. r.req.desired.thread = m /\ r.outcome = "none"
      BY <1>1, <1>2, <2>1 DEF SameCall
    <3>4. CASE e = r
      BY <2>1, <3>2, <3>3, <3>4 DEF Known
    <3>5. CASE e # r
      BY <2>1, <3>5 DEF Known, Replied, Returned
    <3> QED
      BY <3>4, <3>5, <2>1
  <2> QED
    BY <2>3, <2>4
<1>9. CASE RescanThreadDesired(p) \/ RescanClearSlot(p)
  <2>1. PICK e \in Run :
              /\ Goes(p, e) /\ UNCHANGED <<forge, disturbed>> /\ e.pc = "idle"
              /\ \/ /\ run[p].pc = "rescan"
                    /\ VerifyThreadRescan(threads, m, run[p].mode) <=> e.outcome = "ok"
                 \/ /\ run[p].pc = "clearRescan" /\ run[p].pending = {}
                    /\ OpenInSlot(threads, Desired(p).clearSlot) = {} <=> e.outcome = "ok"
    BY <1>9, RescanEffect DEF Answered, Returned
  <2>2. p \notin disturbed => e.outcome = "ok"
    BY <1>1, <2>1 DEF Known
  <2> QED
    BY <2>1, <2>2 DEF Known
<1>10. CASE ClearList(p)
  <2>1. PICK e \in Run :
              /\ Goes(p, e) /\ UNCHANGED <<forge, disturbed>> /\ run[p].pc = "clearList"
              /\ \/ \E o \in {"ErrUnsupportedDecision", "error"} : Returned(e, run[p], o)
                 \/ /\ SameCall(e, run[p]) /\ e.pc = "clearRescan"
                    /\ \/ /\ e.pending = run[p].pending
                          /\ OpenInSlot(threads, Desired(p).clearSlot) = {}
                       \/ /\ e.pending = OpenInSlot(threads, Desired(p).clearSlot)
                          /\ IsSingleton(e.pending)
    BY <1>10, ClearListEffect
  <2>2. run[p].pending = {}
    BY <1>1, <2>1 DEF ReceiptOK
  <2>3. CASE \E o \in {"ErrUnsupportedDecision", "error"} : Returned(e, run[p], o)
    BY <2>1, <2>3 DEF Known, Returned
  <2>4. CASE /\ SameCall(e, run[p]) /\ e.pc = "clearRescan"
             /\ e.pending = OpenInSlot(threads, Desired(p).clearSlot)
             /\ \A i, j \in e.pending : i = j
    <3>1. e.req.desired.clearSlot = Desired(p).clearSlot /\ e.outcome = "none"
      BY <1>1, <1>2, <2>1, <2>4 DEF SameCall
    <3> QED
      BY <2>1, <2>4, <3>1 DEF Known
  <2> QED
    BY <2>1, <2>2, <2>3, <2>4 DEF IsSingleton
<1>11. CASE ClearResolve(p)
  <2> DEFINE s == Desired(p).clearSlot
  <2>1. PICK r \in Run, e \in Run, i \in run[p].pending :
              /\ Goes(p, e) /\ Replied(e, r) /\ Disturb(p) /\ threads' = ResolveAt(threads, i)
              /\ run[p].pc = "clearRescan" /\ SameCall(r, run[p])
              /\ r.pc = "clearRescan" /\ r.pending = {}
    BY <1>11, ClearResolveEffect
  <2>2. CASE p \in disturbed
    BY <2>1, <2>2 DEF Known
  <2>3. CASE p \notin disturbed
    <3>1. run[p].pending = OpenInSlot(threads, s) /\ \A j \in OpenInSlot(threads, s) : j = i
      BY <1>1, <2>1, <2>3 DEF Known
    <3>2. i \in DOMAIN threads
      BY <2>1, <3>1 DEF OpenInSlot, Listed
    <3>3. /\ Listed(threads') = Listed(threads)
          /\ \A j \in DOMAIN threads : /\ threads'[j].slot = threads[j].slot
                                       /\ Resolved(threads'[j]) <=> Resolved(threads[j]) \/ j = i
      BY <1>1, <2>1, <3>2, ResolveFields
    <3>4. OpenInSlot(threads', s) = {}
      BY <3>1, <3>3 DEF OpenInSlot, Listed
    <3>5. r.req.desired.clearSlot = s /\ r.outcome = "none"
      BY <1>1, <1>2, <2>1 DEF SameCall
    <3>6. CASE e = r
      BY <2>1, <3>4, <3>5, <3>6 DEF Known
    <3>7. CASE e # r
      BY <2>1, <3>7 DEF Known, Replied, Returned
    <3> QED
      BY <3>6, <3>7, <2>1
  <2> QED
    BY <2>2, <2>3
<1> QED
  BY <1>3, <1>4, <1>5, <1>6, <1>7, <1>8, <1>9, <1>10, <1>11 DEF Step

(* What the undisturbed know stays true.                                   *)
LEMMA KnownNext == Inv /\ SerialInv /\ ReceiptInv /\ AllKnown /\ [Next]_vars => AllKnown'
<1> SUFFICES ASSUME Inv, SerialInv, ReceiptInv, AllKnown, [Next]_vars PROVE AllKnown'
  OBVIOUS
<1>1. ASSUME NEW p \in Publishers, NEW e \in Run, Goes(p, e), Known(e, p \notin disturbed)',
             \/ threads' = threads /\ disturbed \ {p} \subseteq disturbed'
             \/ disturbed' = disturbed \union (Publishers \ {p})
      PROVE  AllKnown'
  <2> SUFFICES ASSUME NEW q \in Publishers PROVE Known(run[q], q \notin disturbed)'
    BY DEF AllKnown
  <2>1. run'[q] = IF q = p THEN e ELSE run[q]
    BY <1>1, Stored
  <2>2. CASE q = p
    BY <1>1, <2>1, <2>2 DEF Known
  <2>3. CASE q # p
    BY <1>1, <2>1, <2>3 DEF Known, AllKnown
  <2> QED
    BY <2>2, <2>3
<1>2. ASSUME NEW p \in Publishers, Step(p) PROVE AllKnown'
  BY <1>1, <1>2, StepKnown
<1>3. ASSUME NEW p \in Publishers, Fail(p) PROVE AllKnown'
  <2>1. PICK e \in Run : Goes(p, e) /\ Returned(e, run[p], "error") /\ UNCHANGED <<forge, disturbed>>
    BY <1>3, FailEffect
  <2>2. Known(e, p \notin disturbed)'
    BY <2>1 DEF Known, Returned
  <2> QED
    BY <1>1, <2>1, <2>2 DEF forge
<1>4. ASSUME NEW p \in Publishers, NEW req \in Requests, Begin(p, req) PROVE AllKnown'
  <2>1. PICK e \in Run :
              /\ Goes(p, e) /\ UNCHANGED forge /\ disturbed' = disturbed \ {p}
              /\ e.outcome \in {"none", "ErrUnsupportedDecision"}
              /\ e.pc \in {"idle", "listNotes", ReconcilePathOf(req.desired)}
    BY <1>4, EnterEffect DEF Begin
  <2>2. e.pc \in {"idle", "listNotes", "clearList", "listThreads", "gate", "unsupported"}
    BY <2>1, RequestsAssumption, PathNeeds
  <2>3. Known(e, p \notin disturbed)'
    BY <2>1, <2>2 DEF Known
  <2> QED
    BY <1>1, <2>1, <2>3 DEF forge
<1>5. CASE Environment
  <2>1. run' = run /\ disturbed' = Publishers
    BY <1>5 DEF Environment, ReviewerResolves, ReviewerReopens, CorruptMarker, Push, DisturbAll
  <2> QED
    BY <2>1 DEF AllKnown, Known
<1>6. CASE UNCHANGED vars
  BY <1>6 DEF vars, AllKnown, Known
<1> QED
  BY <1>2, <1>3, <1>4, <1>5, <1>6 DEF Next

(* A rescan mismatch is somebody else's doing: with one publisher per MR   *)
(* at a time, an invocation during which nobody else touched the forge     *)
(* never fails its own step-9 rescan, whatever an earlier crash or lost    *)
(* response left behind (forge.go 554-609, 760-775).                       *)
THEOREM UndisturbedRescanSucceeds ==
    ASSUME Serialized
    PROVE  Spec => []UndisturbedRunSucceeds
<1>1. Init => AllKnown
  BY DEF Init, AllKnown, Known, IdleRun
<1>2. AllKnown => UndisturbedRunSucceeds
  BY DEF AllKnown, Known, UndisturbedRunSucceeds
<1> QED
  BY <1>1, <1>2, KnownNext, InvariantHolds, SerialHolds, ReceiptHolds, PTL DEF Spec

-----------------------------------------------------------------------------
(* Racing publishers and one challenge.                                    *)

(* What the callers of one merge request want: no slot is cleared, and a   *)
(* slot has one occurrence (the content it judges does not change).        *)
OneOccurrencePerSlot ==
    \A a, b \in Requests :
        /\ a.desired.clearSlot = Nil
        /\ (/\ a.desired.thread # Nil /\ b.desired.thread # Nil
            /\ a.desired.thread.slot = b.desired.thread.slot)
              => a.desired.thread.occurrence = b.desired.thread.occurrence

(* The oldest thread of its key.                                           *)
First(i) ==
    /\ i \in DOMAIN threads
    /\ \A j \in DOMAIN threads : SameKey(threads[j], threads[i]) => i <= j

(* Every key that was posted has an oldest thread, and that one is open.   *)
Anchored ==
    /\ \A i \in DOMAIN threads : First(i) => ~Resolved(threads[i])
    /\ \A i \in DOMAIN threads : \E j \in DOMAIN threads : First(j) /\ SameKey(threads[j], threads[i])
    /\ \A i \in DOMAIN threads : \E req \in Requests :
          req.desired.thread # Nil /\ SameKey(threads[i], req.desired.thread)

(* An invocation has nothing stale to resolve, and a repair never the      *)
(* oldest thread, even if the listing it works from is out of date.        *)
Spares(r) ==
    /\ r.pc = "classify" => /\ r.pending = {} /\ DOMAIN r.existing \subseteq DOMAIN threads
                            /\ \A i \in DOMAIN r.existing : SameKey(r.existing[i], threads[i])
    /\ r.pc = "repair" => \A i \in r.pending : i \in DOMAIN threads /\ ~First(i)
ChallengeInv ==
    Anchored /\ budget.reviews = 0 /\ \A p \in Publishers : Spares(run[p])

(* The threads keep their keys and only younger ones join them.            *)
Ages ==
    /\ DOMAIN threads \subseteq DOMAIN threads'
    /\ \A i \in DOMAIN threads : /\ threads'[i].slot = threads[i].slot
                                 /\ threads'[i].occurrence = threads[i].occurrence
    /\ \A i \in DOMAIN threads' : i \notin DOMAIN threads => \A j \in DOMAIN threads : j < i

(* Ageing leaves the oldest the oldest.                                    *)
LEMMA FirstAges ==
    ASSUME threads \in Seq(Thread), threads' \in Seq(Thread), Ages, NEW i \in DOMAIN threads
    PROVE  First(i)' <=> First(i)
<1>1. DOMAIN threads \subseteq Int /\ DOMAIN threads' \subseteq Int
  OBVIOUS
<1>2. \A j \in DOMAIN threads : SameKey(threads'[j], threads'[i]) <=> SameKey(threads[j], threads[i])
  BY DEF Ages, SameKey
<1> QED
  BY <1>1, <1>2 DEF Ages, First

(* Ageing keeps the records of those who do not move.                      *)
LEMMA SparesAges ==
    ASSUME threads \in Seq(Thread), threads' \in Seq(Thread), Ages, NEW r, Spares(r)
    PROVE  Spares(r)'
<1>1. \A i \in DOMAIN threads : First(i)' <=> First(i)
  BY FirstAges
<1> QED
  BY <1>1 DEF Spares, Ages, SameKey

(* Resolving or spoiling a thread that is not the oldest keeps the anchor. *)
LEMMA AnchorKeeps ==
    ASSUME threads \in Seq(Thread), threads' \in Seq(Thread), Anchored, Ages,
           DOMAIN threads' = DOMAIN threads,
           \A i \in DOMAIN threads : First(i) => (Resolved(threads'[i]) <=> Resolved(threads[i]))
    PROVE  Anchored'
<1>1. \A i \in DOMAIN threads : First(i)' <=> First(i)
  BY FirstAges
<1>2. ASSUME NEW i \in DOMAIN threads', First(i)' PROVE ~Resolved(threads'[i])
  BY <1>1, <1>2 DEF Anchored
<1>3. ASSUME NEW i \in DOMAIN threads'
      PROVE  \E j \in DOMAIN threads' : First(j)' /\ SameKey(threads'[j], threads'[i])
  BY <1>1 DEF Anchored, Ages, SameKey
<1>4. ASSUME NEW i \in DOMAIN threads'
      PROVE  \E req \in Requests :
                req.desired.thread # Nil /\ SameKey(threads'[i], req.desired.thread)
  BY DEF Anchored, Ages, SameKey
<1> QED
  BY <1>2, <1>3, <1>4 DEF Anchored

(* So does posting a thread that a request asks for.                       *)
LEMMA AnchorGrows ==
    ASSUME threads \in Seq(Thread), Anchored, NEW req \in Requests, req.desired.thread # Nil,
           NEW new \in Thread, SameKey(new, req.desired.thread), ~Resolved(new),
           threads' = Append(threads, new)
    PROVE  Ages /\ threads' \in Seq(Thread) /\ Anchored'
<1>1. PICK n \in Int :
         /\ DOMAIN threads' = DOMAIN threads \union {n} /\ threads' \in Seq(Thread)
         /\ \A i \in DOMAIN threads : threads'[i] = threads[i] /\ i < n
         /\ threads'[n] = new
  <2> DEFINE n == Len(threads) + 1
  <2>1. /\ DOMAIN threads' = DOMAIN threads \union {n} /\ threads' \in Seq(Thread)
        /\ \A i \in DOMAIN threads : threads'[i] = threads[i] /\ i < n
        /\ threads'[n] = new /\ n \in Int
    OBVIOUS
  <2> QED
    BY <2>1
<1>2. Ages
  BY <1>1 DEF Ages
<1>3. \A i \in DOMAIN threads : First(i)' <=> First(i)
  BY <1>1, <1>2, FirstAges
<1>4. \A i \in DOMAIN threads' : First(i)' => ~Resolved(threads'[i])
  BY <1>1, <1>3 DEF Anchored
<1>5. ASSUME NEW i \in DOMAIN threads
      PROVE  \E j \in DOMAIN threads' : First(j)' /\ SameKey(threads'[j], threads'[i])
  <2>1. PICK j \in DOMAIN threads : First(j) /\ SameKey(threads[j], threads[i])
    BY DEF Anchored
  <2> QED
    BY <1>1, <1>3, <2>1
<1>6. \E j \in DOMAIN threads' : First(j)' /\ SameKey(threads'[j], threads'[n])
  <2>1. CASE \E i \in DOMAIN threads : SameKey(threads[i], new)
    <3>1. PICK i \in DOMAIN threads : SameKey(threads[i], new)
      BY <2>1
    <3> QED
      BY <1>1, <1>5, <3>1 DEF SameKey
  <2>2. CASE \A i \in DOMAIN threads : ~SameKey(threads[i], new)
    <3>1. First(n)'
      BY <1>1, <2>2 DEF First
    <3> QED
      BY <1>1, <3>1 DEF SameKey
  <2> QED
    BY <2>1, <2>2
<1>7. \A i \in DOMAIN threads' : \E r \in Requests :
         r.desired.thread # Nil /\ SameKey(threads'[i], r.desired.thread)
  BY <1>1 DEF Anchored
<1> QED
  BY <1>1, <1>2, <1>4, <1>5, <1>6, <1>7 DEF Anchored

(* A step of an invocation spends at most a fault.                         *)
LEMMA StepBudget ==
    ASSUME NEW p \in Publishers, Step(p)
    PROVE  budget' = budget \/ Spend("faults")
<1>1. ASSUME NEW r, Respond(p, r) \/ Set(p, r) PROVE budget' = budget \/ Spend("faults")
  BY <1>1 DEF Respond, Set
<1>2. CASE PerformMerge(p) \/ RefuseMerge(p, "error") \/ RefuseMerge(p, "ErrSHAMoved")
  BY <1>1, <1>2 DEF PerformMerge, RefuseMerge
<1>3. CASE MergeCASAtomic(p) \/ MergePut(p)
  BY <1>2, <1>3 DEF MergeCASAtomic, MergePut
<1>4. CASE UpsertWrite(p) \/ Supersede(p) \/ RepairDuplicate(p) \/ CreateThread(p)
  BY <1>1, <1>4 DEF UpsertWrite, Supersede, RepairDuplicate, CreateThread
<1>5. CASE ClearResolve(p) \/ Approve(p)
  BY <1>1, <1>5 DEF ClearResolve, Approve
<1> QED
  BY <1>3, <1>4, <1>5
     DEF Step, Set, ListBotNotes, UpsertLookup, ListBotThreads, StartRepair, EndRepair, ReuseThread,
         RescanThreadDesired, ClearList, RescanClearSlot, ArmingGate, ReadSource, ShaGuard,
         CasReadSource, CasGuard

(* Nobody reviews once the reviews are spent.                              *)
LEMMA NoReviews ==
    ASSUME Inv, budget.reviews = 0, [Next]_vars
    PROVE  budget'.reviews = 0 /\ ~ReviewerResolves /\ ~ReviewerReopens
<1>1. budget \in [runs : Nat, faults : Nat, reviews : Nat, pushes : Nat, corruptions : Nat]
  BY DEF Inv, TypeOK
<1>2. ~ReviewerResolves /\ ~ReviewerReopens
  BY DEF ReviewerResolves, ReviewerReopens, Spend
<1>3. \/ budget' = budget
      \/ \E what \in {"runs", "faults", "pushes", "corruptions"} : Spend(what)
  BY <1>2, StepBudget DEF Next, Fail, Begin, Environment, CorruptMarker, Push, vars
<1> QED
  BY <1>1, <1>2, <1>3 DEF Spend

(* Where every occurrence of a slot is the same, nothing is ever stale.    *)
LEMMA NothingStale ==
    ASSUME OneOccurrencePerSlot, Anchored, NEW req \in Requests, req.desired.thread # Nil
    PROVE  StaleOpen(threads, req.desired.thread) = {}
BY DEF OneOccurrencePerSlot, Anchored, StaleOpen, Listed, SameKey

(* Each step of an invocation spares the oldest thread of every key.       *)
LEMMA StepSpares ==
    ASSUME NumericIds, OneOccurrencePerSlot, Inv, ChallengeInv,
           NEW p \in Publishers, Step(p), threads' \in Seq(Thread)
    PROVE  \E e \in Run : Goes(p, e) /\ Spares(e)' /\ Ages /\ Anchored'
<1> DEFINE m == Desired(p).thread
<1>1. /\ Spares(run[p]) /\ run[p].req.desired = Desired(p)
      /\ run[p] \in Run /\ RunOK(run[p]) /\ threads \in Seq(Thread) /\ Anchored
  BY Current DEF ChallengeInv, Desired, Inv, TypeOK
<1>2. threads' = threads => Ages /\ Anchored'
  <2>1. threads' = threads => Ages
    BY DEF Ages
  <2> QED
    BY <1>1, <2>1, AnchorKeeps
<1> USE DEF forge
<1>3. CASE \/ ListBotNotes(p) \/ UpsertLookup(p) \/ UpsertWrite(p) \/ ArmingGate(p)
           \/ ReadSource(p) \/ ShaGuard(p) \/ CasReadSource(p) \/ CasGuard(p)
           \/ Approve(p) \/ MergeCASAtomic(p) \/ MergePut(p)
  <2>1. PICK e \in Run : /\ Goes(p, e) /\ threads' = threads
                         /\ e.pc \notin {"classify", "repair"}
    BY <1>3, PlainEffect
  <2> QED
    BY <1>2, <2>1 DEF Spares
<1>4. ASSUME run[p].pc \in {"listThreads", "classify", "repair", "rescan"}
      PROVE  run[p].req \in Requests /\ m # Nil /\ m \in Marker
  BY <1>1, <1>4, CurrentRequest DEF RunOK, ThreadSteps, DesiredReviewState
<1>5. ASSUME run[p].pc \in {"clearList", "clearRescan"} PROVE FALSE
  BY <1>1, <1>5, CurrentRequest DEF RunOK, ClearSteps, OneOccurrencePerSlot
<1>6. CASE ListBotThreads(p)
  <2>1. PICK e \in Run : /\ Goes(p, e) /\ threads' = threads
                         /\ run[p].pc = "listThreads" /\ e.pc = "classify"
                         /\ e.existing = threads /\ e.pending = StaleOpen(threads, m)
    BY <1>6, ListBotThreadsEffect
  <2>2. StaleOpen(threads, m) = {}
    BY <1>1, <1>4, <2>1, NothingStale
  <2> QED
    BY <1>2, <2>1, <2>2 DEF Spares, SameKey
<1>7. CASE Supersede(p) \/ RepairDuplicate(p)
  <2>1. PICK r \in Run, e \in Run, i \in run[p].pending :
              /\ Goes(p, e) /\ Replied(e, r) /\ threads' = ResolveAt(threads, i)
              /\ run[p].pc \in {"classify", "repair"} /\ SameCall(r, run[p])
              /\ r.pc = run[p].pc /\ r.pending = run[p].pending \ {i}
    BY <1>7, ResolveEffect
  <2>2. run[p].pc = "repair" /\ i \in DOMAIN threads /\ ~First(i)
    BY <1>1, <2>1 DEF Spares
  <2>3. /\ DOMAIN threads' = DOMAIN threads
        /\ \A j \in DOMAIN threads : /\ threads'[j].slot = threads[j].slot
                                     /\ threads'[j].occurrence = threads[j].occurrence
                                     /\ Resolved(threads'[j]) <=> Resolved(threads[j]) \/ j = i
    BY <1>1, <2>1, <2>2, ResolveFields
  <2>4. Ages
    BY <2>3 DEF Ages
  <2>5. Anchored'
    BY <1>1, <2>2, <2>3, <2>4, AnchorKeeps
  <2>6. Spares(r)
    BY <1>1, <2>1, <2>2 DEF Spares
  <2>7. Spares(r)'
    BY <1>1, <2>4, <2>6, SparesAges
  <2>8. CASE e = r
    BY <2>1, <2>4, <2>5, <2>7, <2>8
  <2>9. CASE e # r
    BY <2>1, <2>4, <2>5, <2>9 DEF Spares, Replied, Returned
  <2> QED
    BY <2>8, <2>9
<1>8. CASE StartRepair(p)
  <2> DEFINE occupants == Occupants(run[p].existing, m)
  <2>1. PICK e \in Run, i \in Canonicals(occupants) :
              /\ Goes(p, e) /\ threads' = threads /\ run[p].pc = "classify"
              /\ e.pc = "repair" /\ e.pending = occupants \ {i}
    BY <1>8, StartRepairEffect
  <2>2. \A j \in occupants : j \in DOMAIN threads /\ SameKey(threads[j], m)
    BY <1>1, <2>1 DEF Spares, Occupants, Listed, SameKey
  <2>3. i \in occupants /\ \A j \in occupants : i <= j
    BY <2>1 DEF Canonicals, ForgeIDNum
  <2>4. \A j \in occupants : j # i => ~First(j)
    <3>1. DOMAIN threads \subseteq Int
      BY <1>1
    <3> QED
      BY <2>2, <2>3, <3>1 DEF First, SameKey
  <2>5. Spares(e)
    BY <2>1, <2>2, <2>4 DEF Spares
  <2> QED
    BY <1>1, <1>2, <2>1, <2>5, SparesAges
<1>9. CASE EndRepair(p) \/ ReuseThread(p)
  <2>1. PICK e \in Run : Goes(p, e) /\ threads' = threads /\ e.pc = "rescan"
    BY <1>9, SettleEffect
  <2> QED
    BY <1>2, <2>1 DEF Spares
<1>10. CASE CreateThread(p)
  <2> DEFINE new == [slot |-> m.slot, occurrence |-> m.occurrence,
                     legible |-> TRUE, resolver |-> "nobody"]
  <2>1. PICK r \in Run, e \in Run :
              /\ Goes(p, e) /\ Replied(e, r) /\ threads' = Append(threads, new)
              /\ run[p].pc = "classify" /\ r.pc = "rescan"
    BY <1>10, CreateThreadEffect
  <2>2. new \in Thread /\ SameKey(new, m) /\ ~Resolved(new)
    BY <1>4, <2>1 DEF Thread, Marker, SameKey, Resolved
  <2> HIDE DEF new
  <2>3. Ages /\ Anchored'
    BY <1>1, <1>4, <2>1, <2>2, AnchorGrows
  <2> QED
    BY <2>1, <2>3 DEF Spares, Replied, Returned
<1>11. CASE RescanThreadDesired(p) \/ RescanClearSlot(p)
  <2>1. PICK e \in Run : Goes(p, e) /\ threads' = threads /\ e.pc = "idle"
    BY <1>11, RescanEffect DEF Answered, Returned
  <2> QED
    BY <1>2, <2>1 DEF Spares
<1>12. CASE ClearList(p) \/ ClearResolve(p)
  BY <1>5, <1>12 DEF ClearList, ClearResolve
<1> QED
  BY <1>3, <1>6, <1>7, <1>8, <1>9, <1>10, <1>11, <1>12 DEF Step

(* Every step keeps the challenge invariant.                               *)
LEMMA ChallengeNext ==
    ASSUME NumericIds, OneOccurrencePerSlot
    PROVE  Inv /\ Inv' /\ ChallengeInv /\ [Next]_vars => ChallengeInv'
<1> SUFFICES ASSUME Inv, Inv', ChallengeInv, [Next]_vars PROVE ChallengeInv'
  OBVIOUS
<1>1. threads \in Seq(Thread) /\ threads' \in Seq(Thread) /\ Anchored /\ budget.reviews = 0
  BY DEF Inv, TypeOK, ChallengeInv
<1>2. budget'.reviews = 0 /\ ~ReviewerResolves /\ ~ReviewerReopens
  BY <1>1, NoReviews
<1>3. ASSUME NEW p \in Publishers, NEW e \in Run, Goes(p, e), Spares(e)', Ages, Anchored'
      PROVE  ChallengeInv'
  <2> SUFFICES ASSUME NEW q \in Publishers PROVE Spares(run[q])'
    BY <1>2, <1>3 DEF ChallengeInv
  <2>1. run'[q] = IF q = p THEN e ELSE run[q]
    BY <1>3, Stored
  <2>2. CASE q = p
    BY <1>3, <2>1, <2>2 DEF Spares
  <2>3. CASE q # p
    <3>1. PICK x : x = run[q]
      OBVIOUS
    <3>2. Spares(x)' /\ run'[q] = x
      BY <1>1, <1>3, <2>1, <2>3, <3>1, SparesAges DEF ChallengeInv
    <3> QED
      BY <3>2 DEF Spares
  <2> QED
    BY <2>2, <2>3
<1>4. threads' = threads => Ages /\ Anchored'
  <2>1. threads' = threads => Ages
    BY DEF Ages
  <2> QED
    BY <1>1, <2>1, AnchorKeeps
<1>5. ASSUME NEW p \in Publishers, Step(p) PROVE ChallengeInv'
  BY <1>1, <1>3, <1>5, StepSpares
<1>6. ASSUME NEW p \in Publishers, Fail(p) PROVE ChallengeInv'
  <2>1. PICK e \in Run : Goes(p, e) /\ threads' = threads /\ e.pc = "idle"
    BY <1>6, FailEffect DEF Returned, forge
  <2> QED
    BY <1>3, <1>4, <2>1 DEF Spares
<1>7. ASSUME NEW p \in Publishers, NEW req \in Requests, Begin(p, req) PROVE ChallengeInv'
  <2>1. PICK e \in Run : /\ Goes(p, e) /\ threads' = threads
                         /\ e.pc \in {"idle", "listNotes", ReconcilePathOf(req.desired)}
    BY <1>7, EnterEffect DEF Begin, forge
  <2>2. e.pc \in {"idle", "listNotes", "clearList", "listThreads", "gate", "unsupported"}
    BY <2>1, RequestsAssumption, PathNeeds
  <2> QED
    BY <1>3, <1>4, <2>1, <2>2 DEF Spares
<1>8. ASSUME run' = run, Ages, Anchored' PROVE ChallengeInv'
  <2> SUFFICES ASSUME NEW q \in Publishers PROVE Spares(run[q])'
    BY <1>2, <1>8 DEF ChallengeInv
  <2>1. PICK x : x = run[q]
    OBVIOUS
  <2>2. Spares(x)' /\ run'[q] = x
    BY <1>1, <1>8, <2>1, SparesAges DEF ChallengeInv
  <2> QED
    BY <2>2 DEF Spares
<1>9. CASE CorruptMarker \/ Push
  <2>1. run' = run
    BY <1>9 DEF CorruptMarker, Push
  <2>2. ASSUME NEW i, threads' = [threads EXCEPT ![i].legible = FALSE] PROVE Ages /\ Anchored'
    <3>1. \A j \in DOMAIN threads : threads[j] \in Thread
      BY <1>1
    <3>2. /\ DOMAIN threads' = DOMAIN threads
          /\ \A j \in DOMAIN threads : /\ threads'[j].slot = threads[j].slot
                                       /\ threads'[j].occurrence = threads[j].occurrence
                                       /\ Resolved(threads'[j]) <=> Resolved(threads[j])
      BY <2>2, <3>1 DEF Thread, Resolved
    <3>3. Ages
      BY <3>2 DEF Ages
    <3> QED
      BY <1>1, <3>2, <3>3, AnchorKeeps
  <2>3. Ages /\ Anchored'
    BY <1>4, <1>9, <2>2 DEF CorruptMarker, Push
  <2> QED
    BY <1>8, <2>1, <2>3
<1>10. CASE UNCHANGED vars
  BY <1>4, <1>8, <1>10 DEF vars
<1> QED
  BY <1>2, <1>5, <1>6, <1>7, <1>9, <1>10 DEF Next, Environment

(* Racing publishers never close a challenge between them: where forge ids *)
(* order the threads, no reviewer acts and a slot has one occurrence, a    *)
(* key that was posted keeps an open thread, for any number of publishers, *)
(* duplicates, overlapping repairs, crashes and corrupted markers, because *)
(* repairDuplicates keeps the lowest id (forge.go 677-716).                *)
THEOREM RacingRepairsKeepAChallenge ==
    ASSUME NumericIds, MaxReviews = 0, OneOccurrencePerSlot
    PROVE  Spec => []ChallengeStaysOpen
<1>1. Init => ChallengeInv
  BY DEF Init, ChallengeInv, Anchored, Spares, IdleRun
<1>2. ChallengeInv => ChallengeStaysOpen
  BY DEF ChallengeInv, Anchored, ChallengeStaysOpen
<1>3. Inv /\ Inv' /\ ChallengeInv /\ [Next]_vars => ChallengeInv'
  BY ChallengeNext
<1> QED
  BY <1>1, <1>2, <1>3, InvariantHolds, PTL DEF Spec

-----------------------------------------------------------------------------
(* Racing publishers and the repair of what they leave behind.             *)

(* What an undisturbed invocation has learnt of the threads: its listing is *)
(* still the forge's, and of a duplicated key it has left to resolve every  *)
(* open thread but one.                                                     *)
Learnt(r, quiet) ==
    LET m == r.req.desired.thread
    IN  quiet =>
          /\ r.pc = "classify" => r.existing = threads
          /\ r.pc = "repair" =>
                /\ r.mode = "repair"
                /\ \E c \in OpenOccupants(threads, m) :
                      c \notin r.pending /\ OpenOccupants(threads, m) \subseteq r.pending \union {c}
          /\ r.pc = "rescan" => VerifyThreadRescan(threads, m, r.mode)
          /\ r.outcome # "ErrRescanFailed"
RepairInv ==
    /\ budget.corruptions = 0 /\ \A i \in DOMAIN threads : threads[i].legible
    /\ \A p \in Publishers : Learnt(run[p], p \notin disturbed)

(* Nobody spoils a marker once the corruptions are spent.                   *)
LEMMA NoCorruptions ==
    ASSUME Inv, budget.corruptions = 0, [Next]_vars
    PROVE  budget'.corruptions = 0 /\ ~CorruptMarker
<1>1. budget \in [runs : Nat, faults : Nat, reviews : Nat, pushes : Nat, corruptions : Nat]
  BY DEF Inv, TypeOK
<1>2. ~CorruptMarker
  BY DEF CorruptMarker, Spend
<1>3. \/ budget' = budget
      \/ \E what \in {"runs", "faults", "pushes", "reviews"} : Spend(what)
  BY <1>2, StepBudget DEF Next, Fail, Begin, Environment, ReviewerResolves, ReviewerReopens, Push, vars
<1> QED
  BY <1>1, <1>2, <1>3 DEF Spend

(* The oldest thread of a key whose markers all parse is the one that      *)
(* repairDuplicates keeps, and it is open.                                 *)
LEMMA KeptIsOpen ==
    ASSUME NumericIds, Anchored, \A j \in DOMAIN threads : threads[j].legible, NEW m,
           NEW c \in Canonicals(Occupants(threads, m))
    PROVE  c \in OpenOccupants(threads, m)
<1>1. c \in DOMAIN threads /\ SameKey(threads[c], m) /\ c \in Occupants(threads, m)
  BY DEF Canonicals, Occupants, Listed
<1>2. \A j \in DOMAIN threads : SameKey(threads[j], threads[c]) => j \in Occupants(threads, m)
  BY <1>1 DEF Occupants, Listed, SameKey
<1>3. First(c)
  BY <1>1, <1>2 DEF First, Canonicals, ForgeIDNum
<1> QED
  BY <1>1, <1>3 DEF Anchored, OpenOccupants

(* Resolving a duplicate leaves the others and the kept one as they were.   *)
LEMMA ResolveLeaves ==
    ASSUME NEW ts \in Seq(Thread), NEW i \in DOMAIN ts, NEW m
    PROVE  /\ OpenOccupants(ResolveAt(ts, i), m) = OpenOccupants(ts, m) \ {i}
           /\ \A j \in DOMAIN ts : ts[j].legible => ResolveAt(ts, i)[j].legible
           /\ DOMAIN ResolveAt(ts, i) = DOMAIN ts
<1> DEFINE us == ResolveAt(ts, i)
<1>1. /\ DOMAIN us = DOMAIN ts /\ Listed(us) = Listed(ts)
      /\ \A j \in DOMAIN ts : /\ us[j].slot = ts[j].slot /\ us[j].occurrence = ts[j].occurrence
                              /\ Resolved(us[j]) <=> Resolved(ts[j]) \/ j = i
  BY ResolveFields
<1>2. Listed(ts) \subseteq DOMAIN ts /\ \A j \in DOMAIN ts : ts[j].legible => j \in Listed(ts)
  BY DEF Listed
<1>3. \A j \in Listed(us) : us[j].legible
  BY DEF Listed
<1> HIDE DEF us
<1>4. OpenOccupants(us, m) = OpenOccupants(ts, m) \ {i}
  BY <1>1, <1>2 DEF OpenOccupants, Occupants, SameKey
<1> QED
  BY <1>1, <1>2, <1>3, <1>4 DEF us

(* Each step of an undisturbed invocation keeps what it has learnt.         *)
LEMMA StepLearnt ==
    ASSUME NumericIds, OneOccurrencePerSlot, Inv, ChallengeInv, ReceiptInv, RepairInv,
           NEW p \in Publishers, Step(p)
    PROVE  \E e \in Run :
              /\ Goes(p, e) /\ Learnt(e, p \notin disturbed)'
              /\ \A i \in DOMAIN threads' : threads'[i].legible
              /\ \/ disturbed' = disturbed /\ threads' = threads
                 \/ disturbed' = disturbed \union (Publishers \ {p})
                 \/ Disturb(p) /\ threads' = threads
<1> DEFINE m == Desired(p).thread
<1>1. /\ Learnt(run[p], p \notin disturbed) /\ run[p].req.desired = Desired(p)
      /\ run[p] \in Run /\ RunOK(run[p]) /\ threads \in Seq(Thread) /\ Anchored
      /\ Spares(run[p]) /\ \A i \in DOMAIN threads : threads[i].legible
  BY Current DEF RepairInv, ChallengeInv, Desired, Inv, TypeOK
<1>2. run[p].pc # "idle" => run[p].outcome = "none"
  BY <1>1 DEF RunOK
<1>3. ASSUME run[p].pc \in {"listThreads", "classify", "repair", "rescan"}
      PROVE  StaleOpen(threads, m) = {}
  <2>1. run[p].req \in Requests /\ m # Nil /\ run[p].req.desired.thread = m
    BY <1>1, <1>3, CurrentRequest DEF RunOK, ThreadSteps
  <2> QED
    BY <1>1, <2>1, NothingStale
<1>4. ASSUME run[p].pc \in {"clearList", "clearRescan"} PROVE FALSE
  BY <1>1, <1>4, CurrentRequest DEF RunOK, ClearSteps, OneOccurrencePerSlot
<1> USE DEF forge
<1>5. CASE \/ ListBotNotes(p) \/ UpsertLookup(p) \/ UpsertWrite(p) \/ ArmingGate(p)
           \/ ReadSource(p) \/ ShaGuard(p) \/ CasReadSource(p) \/ CasGuard(p)
           \/ Approve(p) \/ MergeCASAtomic(p) \/ MergePut(p)
  <2>1. PICK e \in Run :
              /\ Goes(p, e) /\ threads' = threads
              /\ disturbed' = disturbed \/ Disturb(p)
              /\ e.pc \notin {"classify", "repair", "rescan", "clearRescan"}
              /\ e.outcome # "ErrRescanFailed"
    BY <1>5, PlainEffect
  <2> QED
    BY <1>1, <2>1 DEF Learnt, Disturb
<1>6. CASE ListBotThreads(p)
  <2>1. PICK e \in Run : /\ Goes(p, e) /\ UNCHANGED <<forge, disturbed>>
                         /\ run[p].pc = "listThreads" /\ SameCall(e, run[p]) /\ e.pc = "classify"
                         /\ e.existing = threads
    BY <1>6, ListBotThreadsEffect
  <2> QED
    BY <1>1, <1>2, <2>1 DEF Learnt, SameCall
<1>7. CASE Supersede(p) \/ RepairDuplicate(p)
  <2>1. PICK r \in Run, e \in Run, i \in run[p].pending :
              /\ Goes(p, e) /\ Replied(e, r) /\ Disturb(p) /\ threads' = ResolveAt(threads, i)
              /\ run[p].pc \in {"classify", "repair"} /\ SameCall(r, run[p])
              /\ r.pc = run[p].pc /\ r.pending = run[p].pending \ {i} /\ r.mode = run[p].mode
    BY <1>7, ResolveEffect
  <2>2. run[p].pc = "repair" /\ i \in DOMAIN threads
    BY <1>1, <2>1 DEF Spares
  <2>3. /\ OpenOccupants(threads', m) = OpenOccupants(threads, m) \ {i}
        /\ \A j \in DOMAIN threads' : threads'[j].legible
    BY <1>1, <2>1, <2>2, ResolveLeaves
  <2>4. r.req.desired.thread = m /\ r.outcome = "none"
    BY <1>1, <1>2, <2>1 DEF SameCall
  <2>5. Learnt(e, p \notin disturbed)'
    <3>1. CASE e # r \/ p \in disturbed
      BY <2>1, <3>1 DEF Learnt, Replied, Returned, Disturb
    <3>2. CASE e = r /\ p \notin disturbed
      <4>1. run[p].mode = "repair"
        BY <1>1, <2>2, <3>2 DEF Learnt
      <4>2. PICK c \in OpenOccupants(threads, m) :
               c \notin run[p].pending /\ OpenOccupants(threads, m) \subseteq run[p].pending \union {c}
        BY <1>1, <2>2, <3>2 DEF Learnt
      <4>3. /\ c \in OpenOccupants(threads', m) /\ c \notin r.pending
            /\ OpenOccupants(threads', m) \subseteq r.pending \union {c}
        BY <2>1, <2>3, <4>2
      <4> QED
        BY <2>1, <2>2, <2>4, <3>2, <4>1, <4>3 DEF Learnt
    <3> QED
      BY <3>1, <3>2
  <2> QED
    BY <2>1, <2>3, <2>5 DEF Disturb
<1>8. CASE StartRepair(p)
  <2> DEFINE occupants == Occupants(run[p].existing, m)
  <2>1. PICK e \in Run, c \in Canonicals(occupants) :
              /\ Goes(p, e) /\ UNCHANGED <<forge, disturbed>> /\ run[p].pc = "classify"
              /\ SameCall(e, run[p]) /\ e.pc = "repair" /\ e.mode = "repair"
              /\ e.pending = occupants \ {c}
    BY <1>8, StartRepairEffect
  <2>2. CASE p \in disturbed
    BY <1>1, <2>1, <2>2 DEF Learnt
  <2>3. CASE p \notin disturbed
    <3>1. occupants = Occupants(threads, m)
      BY <1>1, <2>1, <2>3 DEF Learnt
    <3>2. c \in OpenOccupants(threads, m)
      BY <1>1, <2>1, <3>1, KeptIsOpen
    <3>3. OpenOccupants(threads, m) \subseteq e.pending \union {c} /\ c \notin e.pending
      BY <2>1, <3>1 DEF OpenOccupants
    <3>4. e.req.desired.thread = m /\ e.outcome = "none" /\ threads' = threads
      BY <1>1, <1>2, <2>1 DEF SameCall
    <3> QED
      BY <1>1, <2>1, <3>2, <3>3, <3>4 DEF Learnt
  <2> QED
    BY <2>2, <2>3
<1>9. CASE EndRepair(p) \/ ReuseThread(p)
  <2>1. PICK e \in Run, i \in Nat :
              /\ Goes(p, e) /\ UNCHANGED <<forge, disturbed>>
              /\ run[p].pending = {} /\ SameCall(e, run[p]) /\ e.pc = "rescan"
              /\ \/ run[p].pc = "repair" /\ e.mode = run[p].mode
                 \/ /\ run[p].pc = "classify" /\ Occupants(run[p].existing, m) = {i}
                    /\ e.mode = IF Resolved(run[p].existing[i]) THEN "preserveResolved" ELSE "open"
    BY <1>9, SettleEffect
  <2>2. CASE p \in disturbed
    BY <1>1, <2>1, <2>2 DEF Learnt
  <2>3. CASE p \notin disturbed
    <3>1. StaleOpen(threads, m) = {}
      BY <1>3, <2>1
    <3>2. VerifyThreadRescan(threads, m, e.mode)
      <4>1. CASE run[p].pc = "repair"
        <5>1. IsSingleton(OpenOccupants(threads, m)) /\ e.mode = "repair"
          BY <1>1, <2>1, <2>3, <4>1 DEF Learnt, IsSingleton
        <5> QED
          BY <3>1, <5>1 DEF VerifyThreadRescan
      <4>2. CASE run[p].pc = "classify"
        <5>1. /\ Occupants(threads, m) = {i}
              /\ e.mode = IF Resolved(threads[i]) THEN "preserveResolved" ELSE "open"
          BY <1>1, <2>1, <2>3, <4>2 DEF Learnt
        <5>2. CASE Resolved(threads[i])
          BY <3>1, <5>1, <5>2 DEF VerifyThreadRescan, IsSingleton, OpenOccupants
        <5>3. CASE ~Resolved(threads[i])
          <6>1. OpenOccupants(threads, m) = {i}
            BY <5>1, <5>3 DEF OpenOccupants
          <6> QED
            BY <3>1, <5>1, <5>3, <6>1 DEF VerifyThreadRescan, IsSingleton
        <5> QED
          BY <5>2, <5>3
      <4> QED
        BY <2>1, <4>1, <4>2
    <3>3. e.req.desired.thread = m /\ e.outcome = "none" /\ threads' = threads
      BY <1>1, <1>2, <2>1 DEF SameCall
    <3> QED
      BY <1>1, <2>1, <3>2, <3>3 DEF Learnt
  <2> QED
    BY <2>2, <2>3
<1>10. CASE CreateThread(p)
  <2> DEFINE new == [slot |-> m.slot, occurrence |-> m.occurrence,
                     legible |-> TRUE, resolver |-> "nobody"]
  <2>1. PICK r \in Run, e \in Run :
              /\ Goes(p, e) /\ Replied(e, r) /\ Disturb(p) /\ threads' = Append(threads, new)
              /\ run[p].pc = "classify" /\ Occupants(run[p].existing, m) = {}
              /\ SameCall(r, run[p]) /\ r.pc = "rescan" /\ r.mode = "open"
    BY <1>10, CreateThreadEffect
  <2>2. /\ new.slot = m.slot /\ new.occurrence = m.occurrence /\ new.legible /\ ~Resolved(new)
    BY DEF Resolved
  <2> HIDE DEF new
  <2>3. \A i \in DOMAIN threads' : threads'[i].legible
    BY <1>1, <2>1, <2>2
  <2>4. Learnt(e, p \notin disturbed)'
    <3>1. CASE e # r \/ p \in disturbed
      BY <2>1, <3>1 DEF Learnt, Replied, Returned, Disturb
    <3>2. CASE e = r /\ p \notin disturbed
      <4>1. StaleOpen(threads, m) = {} /\ Occupants(threads, m) = {}
        BY <1>1, <1>3, <2>1, <3>2 DEF Learnt
      <4>2. VerifyThreadRescan(threads', m, "open")
        BY <1>1, <2>1, <2>2, <4>1, CreateKnown
      <4>3. r.req.desired.thread = m /\ r.outcome = "none"
        BY <1>1, <1>2, <2>1 DEF SameCall
      <4> QED
        BY <2>1, <3>2, <4>2, <4>3 DEF Learnt
    <3> QED
      BY <3>1, <3>2
  <2> QED
    BY <2>1, <2>3, <2>4 DEF Disturb
<1>11. CASE RescanThreadDesired(p)
  <2>1. PICK e \in Run :
              /\ Goes(p, e) /\ UNCHANGED <<forge, disturbed>> /\ e.pc = "idle"
              /\ run[p].pc = "rescan" => (VerifyThreadRescan(threads, m, run[p].mode) <=> e.outcome = "ok")
    BY <1>11, RescanEffect DEF Answered, Returned
  <2>2. p \notin disturbed => e.outcome = "ok"
    BY <1>1, <1>11, <2>1 DEF Learnt, RescanThreadDesired
  <2> QED
    BY <1>1, <2>1, <2>2 DEF Learnt
<1>12. CASE ClearList(p) \/ ClearResolve(p) \/ RescanClearSlot(p)
  BY <1>4, <1>12 DEF ClearList, ClearResolve, RescanClearSlot
<1> QED
  BY <1>5, <1>6, <1>7, <1>8, <1>9, <1>10, <1>11, <1>12 DEF Step

(* What the undisturbed have learnt stays true.                             *)
LEMMA LearntNext ==
    ASSUME NumericIds, OneOccurrencePerSlot
    PROVE  Inv /\ ChallengeInv /\ ReceiptInv /\ RepairInv /\ [Next]_vars => RepairInv'
<1> SUFFICES ASSUME Inv, ChallengeInv, ReceiptInv, RepairInv, [Next]_vars PROVE RepairInv'
  OBVIOUS
<1>1. /\ budget'.corruptions = 0 /\ ~CorruptMarker /\ ~ReviewerResolves /\ ~ReviewerReopens
      /\ \A i \in DOMAIN threads : threads[i].legible
  BY NoCorruptions, NoReviews DEF RepairInv, ChallengeInv
<1>2. ASSUME NEW p \in Publishers, NEW e \in Run, Goes(p, e), Learnt(e, p \notin disturbed)',
             \A i \in DOMAIN threads' : threads'[i].legible,
             \/ threads' = threads /\ disturbed \ {p} \subseteq disturbed'
             \/ disturbed' = disturbed \union (Publishers \ {p})
      PROVE  RepairInv'
  <2> SUFFICES ASSUME NEW q \in Publishers PROVE Learnt(run[q], q \notin disturbed)'
    BY <1>1, <1>2 DEF RepairInv
  <2>1. run'[q] = IF q = p THEN e ELSE run[q]
    BY <1>2, Stored
  <2>2. CASE q = p
    BY <1>2, <2>1, <2>2 DEF Learnt
  <2>3. CASE q # p
    BY <1>2, <2>1, <2>3 DEF Learnt, RepairInv
  <2> QED
    BY <2>2, <2>3
<1>3. ASSUME NEW p \in Publishers, Step(p) PROVE RepairInv'
  <2>1. PICK e \in Run :
              /\ Goes(p, e) /\ Learnt(e, p \notin disturbed)'
              /\ \A i \in DOMAIN threads' : threads'[i].legible
              /\ \/ disturbed' = disturbed /\ threads' = threads
                 \/ disturbed' = disturbed \union (Publishers \ {p})
                 \/ Disturb(p) /\ threads' = threads
    BY <1>3, StepLearnt
  <2> QED
    BY <1>2, <2>1 DEF Disturb
<1>4. ASSUME NEW p \in Publishers, Fail(p) PROVE RepairInv'
  <2>1. PICK e \in Run : Goes(p, e) /\ Returned(e, run[p], "error") /\ UNCHANGED <<forge, disturbed>>
    BY <1>4, FailEffect
  <2>2. Learnt(e, p \notin disturbed)'
    BY <2>1 DEF Learnt, Returned
  <2> QED
    BY <1>1, <1>2, <2>1, <2>2 DEF forge
<1>5. ASSUME NEW p \in Publishers, NEW req \in Requests, Begin(p, req) PROVE RepairInv'
  <2>1. PICK e \in Run :
              /\ Goes(p, e) /\ UNCHANGED forge /\ disturbed' = disturbed \ {p}
              /\ e.outcome \in {"none", "ErrUnsupportedDecision"}
              /\ e.pc \in {"idle", "listNotes", ReconcilePathOf(req.desired)}
    BY <1>5, EnterEffect DEF Begin
  <2>2. e.pc \in {"idle", "listNotes", "clearList", "listThreads", "gate", "unsupported"}
    BY <2>1, RequestsAssumption, PathNeeds
  <2>3. Learnt(e, p \notin disturbed)'
    BY <2>1, <2>2 DEF Learnt
  <2> QED
    BY <1>1, <1>2, <2>1, <2>3 DEF forge
<1>6. CASE Environment
  <2>1. run' = run /\ disturbed' = Publishers /\ threads' = threads
    BY <1>1, <1>6 DEF Environment, Push, DisturbAll
  <2> QED
    BY <1>1, <2>1 DEF RepairInv, Learnt
<1>7. CASE UNCHANGED vars
  BY <1>1, <1>7 DEF vars, RepairInv, Learnt
<1> QED
  BY <1>3, <1>4, <1>5, <1>6, <1>7 DEF Next

(* Duplicates are repaired on the next run (forge.go 554-609, 677-716): as *)
(* long as publishers only race with each other, the next invocation that  *)
(* nobody disturbs passes its rescan, however many duplicates the others   *)
(* posted, half repaired or left behind in a crash.  Once a reviewer has    *)
(* resolved the lowest id, or its marker is spoiled, this is no longer so.  *)
THEOREM RacersDuplicatesAreRepaired ==
    ASSUME NumericIds, MaxReviews = 0, MaxCorruptions = 0, OneOccurrencePerSlot
    PROVE  Spec => []UndisturbedRunSucceeds
<1>1. Init => ChallengeInv /\ RepairInv
  BY DEF Init, ChallengeInv, Anchored, Spares, IdleRun, RepairInv, Learnt
<1>2. RepairInv => UndisturbedRunSucceeds
  BY DEF RepairInv, Learnt, UndisturbedRunSucceeds
<1>3. Inv /\ Inv' /\ ChallengeInv /\ [Next]_vars => ChallengeInv'
  BY ChallengeNext
<1>4. Inv /\ ChallengeInv /\ ReceiptInv /\ RepairInv /\ [Next]_vars => RepairInv'
  BY LearntNext
<1> QED
  BY <1>1, <1>2, <1>3, <1>4, InvariantHolds, ReceiptHolds, PTL DEF Spec

-----------------------------------------------------------------------------
(* What one step writes, for the callers of Reconcile.                     *)

Quietly(p, e) == UNCHANGED forge /\ e.writes = run[p].writes
Notes(p, e) ==
    /\ e.writes = run[p].writes \union {"note"} /\ UNCHANGED <<threads, head, approvals, merges>>
    /\ \A i \in DOMAIN notes' : \/ i \in DOMAIN notes /\ notes'[i] = notes[i]
                                \/ notes'[i].decision = Desired(p).summary
Resolves(p, e) ==
    /\ run[p].pc \in ThreadSteps \union ClearSteps
    /\ e.writes = run[p].writes \union {"resolve"} /\ UNCHANGED <<notes, head, approvals, merges>>
    /\ \E i \in Nat : threads' = ResolveAt(threads, i)
Posts(p, e) ==
    /\ run[p].pc = "classify"
    /\ e.writes = run[p].writes \union {"thread"} /\ UNCHANGED <<notes, head, approvals, merges>>
    /\ threads' = Append(threads, [slot |-> Desired(p).thread.slot,
                                   occurrence |-> Desired(p).thread.occurrence,
                                   legible |-> TRUE, resolver |-> "nobody"])
Approves(p, e) ==
    /\ run[p].pc = "approve"
    /\ e.writes = run[p].writes \union {"approval"} /\ UNCHANGED <<threads, notes, head, merges>>
    /\ approvals' = approvals \union {head}
Merges(p, e) ==
    LET m == Desired(p).merge
    IN  /\ run[p].pc \in {"cas", "put"} /\ (run[p].pc = "cas" => AtomicMerge)
        /\ e.writes = run[p].writes \union {"merge"} /\ UNCHANGED <<threads, notes, approvals>>
        /\ ~Merged /\ m.source = head.source /\ (run[p].pc = "cas" => m.target = head.target)
        /\ merges' = Append(merges, [pins |-> m, arm |-> Pre(p).arm, at |-> head])
        /\ head' = [head EXCEPT !.target = MergedTip]

(* An invocation is refused on the merge path alone, and it succeeds on    *)
(* the thread path only where the thread it promised is listed.            *)
Verdicted(p, e) ==
    /\ e.outcome \in Refusals => run[p].pc \in PinnedSteps \union {"gate"}
    /\ e.outcome = "ok" => /\ run[p].pc \notin SummarySteps
                           /\ run[p].pc \in ThreadSteps =>
                                 threads' = threads /\ Occupants(threads, Desired(p).thread) # {}

(* A step writes one kind of artifact, or nothing.                         *)
LEMMA StepWrites ==
    ASSUME Inv, NEW p \in Publishers, Step(p)
    PROVE  \E e \in Run :
              /\ Goes(p, e) /\ e.req = run[p].req /\ run[p].pc # "idle" /\ Verdicted(p, e)
              /\ \/ Quietly(p, e) \/ Notes(p, e) \/ Resolves(p, e) \/ Posts(p, e)
                 \/ Approves(p, e) \/ Merges(p, e)
<1>1. run[p].pc # "idle" => run[p].outcome = "none"
  BY Current DEF RunOK
<1>2. ASSUME NEW e \in Run, Goes(p, e), UNCHANGED forge, SameCall(e, run[p]), run[p].pc # "idle",
             e.writes = run[p].writes
      PROVE  e.req = run[p].req /\ Verdicted(p, e) /\ Quietly(p, e)
  BY <1>1, <1>2 DEF SameCall, Verdicted, Quietly, Refusals
<1>3. ASSUME NEW e, NEW r, Replied(e, r), SameCall(r, run[p]), run[p].pc # "idle"
      PROVE  e.req = run[p].req /\ Verdicted(p, e) /\ e.writes = r.writes
  BY <1>1, <1>3 DEF Replied, Returned, SameCall, Verdicted, Refusals
<1> USE DEF ThreadSteps, ClearSteps, SummarySteps
<1>4. CASE ListBotNotes(p) \/ UpsertLookup(p)
  <2>1. PICK e \in Run : /\ Goes(p, e) /\ UNCHANGED <<forge, disturbed>>
                         /\ run[p].pc \in {"listNotes", "upsertLookup"} /\ SameCall(e, run[p])
                         /\ SameReceipt(e, run[p])
    BY <1>4, SummaryEffect
  <2> QED
    BY <1>2, <2>1 DEF SameReceipt
<1>5. CASE UpsertWrite(p)
  <2>1. PICK r \in Run, e \in Run :
              /\ Goes(p, e) /\ Replied(e, r) /\ UNCHANGED <<threads, head, approvals, merges>>
              /\ run[p].pc = "upsertWrite" /\ SameCall(r, run[p])
              /\ r.writes = run[p].writes \union {"note"}
              /\ \A i \in DOMAIN notes' : \/ i \in DOMAIN notes /\ notes'[i] = notes[i]
                                          \/ notes'[i].decision = Desired(p).summary
    BY <1>5, UpsertWriteEffect
  <2> QED
    BY <1>3, <2>1 DEF Notes
<1>6. CASE ListBotThreads(p)
  <2>1. PICK e \in Run : /\ Goes(p, e) /\ UNCHANGED <<forge, disturbed>>
                         /\ run[p].pc = "listThreads" /\ SameCall(e, run[p])
                         /\ SameReceipt(e, run[p])
    BY <1>6, ListBotThreadsEffect
  <2> QED
    BY <1>2, <2>1 DEF SameReceipt
<1>7. CASE Supersede(p) \/ RepairDuplicate(p) \/ ClearResolve(p)
  <2>1. PICK r \in Run, e \in Run, i \in run[p].pending :
              /\ Goes(p, e) /\ Replied(e, r) /\ UNCHANGED <<notes, head, approvals, merges>>
              /\ threads' = ResolveAt(threads, i) /\ SameCall(r, run[p])
              /\ run[p].pc \in {"classify", "repair", "clearRescan"}
              /\ r.writes = run[p].writes \union {"resolve"}
    BY <1>7, ResolveEffect, ClearResolveEffect
  <2>2. i \in Nat
    BY <2>1, Current DEF Run
  <2> QED
    BY <1>3, <2>1, <2>2 DEF Resolves
<1>8. CASE StartRepair(p)
  <2>1. PICK e \in Run : /\ Goes(p, e) /\ UNCHANGED <<forge, disturbed>>
                         /\ run[p].pc = "classify" /\ SameCall(e, run[p]) /\ SameReceipt(e, run[p])
    BY <1>8, StartRepairEffect
  <2> QED
    BY <1>2, <2>1 DEF SameReceipt
<1>9. CASE EndRepair(p) \/ ReuseThread(p)
  <2>1. PICK e \in Run : /\ Goes(p, e) /\ UNCHANGED <<forge, disturbed>> /\ SameCall(e, run[p])
                         /\ run[p].pc \in {"classify", "repair"} /\ e.writes = run[p].writes
    BY <1>9, SettleEffect
  <2> QED
    BY <1>2, <2>1
<1>10. CASE CreateThread(p)
  <2>1. PICK r \in Run, e \in Run :
              /\ Goes(p, e) /\ Replied(e, r) /\ UNCHANGED <<notes, head, approvals, merges>>
              /\ threads' = Append(threads, [slot |-> Desired(p).thread.slot,
                                             occurrence |-> Desired(p).thread.occurrence,
                                             legible |-> TRUE, resolver |-> "nobody"])
              /\ run[p].pc = "classify" /\ SameCall(r, run[p])
              /\ r.writes = run[p].writes \union {"thread"}
    BY <1>10, CreateThreadEffect
  <2> QED
    BY <1>3, <2>1 DEF Posts
<1>11. CASE RescanThreadDesired(p) \/ RescanClearSlot(p)
  <2> DEFINE m == Desired(p).thread
  <2>1. PICK e \in Run :
              /\ Goes(p, e) /\ UNCHANGED <<forge, disturbed>>
              /\ \/ Answered(e, run[p]) \/ Returned(e, run[p], "ErrRescanFailed")
              /\ \/ /\ run[p].pc = "rescan"
                    /\ VerifyThreadRescan(threads, m, run[p].mode) <=> e.outcome = "ok"
                 \/ run[p].pc = "clearRescan"
    BY <1>11, RescanEffect
  <2>2. ASSUME VerifyThreadRescan(threads, m, run[p].mode) PROVE Occupants(threads, m) # {}
    BY <2>2 DEF VerifyThreadRescan, IsSingleton, OpenOccupants
  <2>3. Verdicted(p, e)
    BY <2>1, <2>2 DEF Verdicted, Refusals, Answered, Returned, forge
  <2> QED
    BY <2>1, <2>3 DEF Answered, Returned, Quietly
<1>12. CASE ClearList(p)
  <2>1. PICK e \in Run :
              /\ Goes(p, e) /\ UNCHANGED <<forge, disturbed>> /\ run[p].pc = "clearList"
              /\ \/ \E o \in {"ErrUnsupportedDecision", "error"} : Returned(e, run[p], o)
                 \/ SameCall(e, run[p]) /\ e.writes = run[p].writes
    BY <1>12, ClearListEffect
  <2>2. CASE \E o \in {"ErrUnsupportedDecision", "error"} : Returned(e, run[p], o)
    BY <2>1, <2>2 DEF Returned, Quietly, Verdicted, Refusals
  <2> QED
    BY <1>2, <2>1, <2>2
<1>13. CASE ArmingGate(p)
  <2>1. PICK e \in Run :
              /\ Goes(p, e) /\ UNCHANGED <<forge, disturbed>> /\ run[p].pc = "gate"
              /\ \/ \E o \in {"ErrArmingRefused", "ErrIncompletePreconditions"} :
                       Returned(e, run[p], o)
                 \/ SameCall(e, run[p]) /\ SameReceipt(e, run[p])
    BY <1>13, ArmingGateEffect
  <2>2. CASE \E o \in {"ErrArmingRefused", "ErrIncompletePreconditions"} : Returned(e, run[p], o)
    BY <2>1, <2>2 DEF Returned, Quietly, Verdicted
  <2> QED
    BY <1>2, <2>1, <2>2 DEF SameReceipt
<1>14. CASE ReadSource(p) \/ ShaGuard(p) \/ CasReadSource(p) \/ CasGuard(p)
  <2>1. PICK e \in Run :
              /\ Goes(p, e) /\ UNCHANGED <<forge, disturbed>>
              /\ run[p].pc \in {"headsSource", "headsTarget", "cas", "casTarget"}
              /\ \/ SameCall(e, run[p]) /\ SameReceipt(e, run[p])
                 \/ Returned(e, run[p], "ErrSHAMoved")
    BY <1>14, HeadsEffect
  <2>2. CASE Returned(e, run[p], "ErrSHAMoved")
    BY <2>1, <2>2 DEF Returned, Quietly, Verdicted, PinnedSteps, CasSteps
  <2> QED
    BY <1>2, <2>1, <2>2 DEF SameReceipt
<1>15. CASE Approve(p)
  <2>1. PICK r \in Run, e \in Run :
              /\ Goes(p, e) /\ Replied(e, r) /\ approvals' = approvals \union {head}
              /\ UNCHANGED <<threads, notes, head, merges>>
              /\ run[p].pc = "approve" /\ SameCall(r, run[p])
              /\ r.writes = run[p].writes \union {"approval"}
    BY <1>15, ApproveEffect
  <2> QED
    BY <1>3, <2>1 DEF Approves
<1>16. CASE MergeCASAtomic(p) \/ MergePut(p)
  <2> DEFINE c == run[p]
             m == Desired(p).merge
             new == [pins |-> m, arm |-> Pre(p).arm, at |-> head]
  <2>1. PICK e \in Run :
              /\ Goes(p, e) /\ c.pc \in {"cas", "put"} /\ (c.pc = "cas" => AtomicMerge)
              /\ \/ /\ UNCHANGED <<forge, disturbed>>
                    /\ Returned(e, c, "error") \/ Returned(e, c, "ErrSHAMoved")
                 \/ /\ UNCHANGED <<threads, notes, approvals>>
                    /\ ~Merged /\ m.source = head.source
                    /\ c.pc = "cas" => m.target = head.target
                    /\ merges' = Append(merges, new)
                    /\ head' = [head EXCEPT !.target = MergedTip]
                    /\ e.pc = "idle" /\ e.req = c.req /\ e.writes = c.writes \union {"merge"}
                    /\ e.outcome \in {"ok", "error"}
    BY <1>16, MergeEffect
  <2>2. CASE Returned(e, c, "error") \/ Returned(e, c, "ErrSHAMoved")
    <3>1. Verdicted(p, e)
      BY <2>1, <2>2 DEF Verdicted, Returned, PinnedSteps, CasSteps
    <3>2. CASE UNCHANGED forge
      BY <2>1, <2>2, <3>1, <3>2 DEF Quietly, Returned
    <3>3. CASE ~UNCHANGED forge
      BY <2>1, <3>1, <3>3 DEF Merges
    <3> QED
      BY <3>2, <3>3
  <2>3. CASE ~(Returned(e, c, "error") \/ Returned(e, c, "ErrSHAMoved"))
    <3>1. Verdicted(p, e)
      BY <2>1, <2>3 DEF Verdicted, Refusals
    <3>2. Merges(p, e)
      BY <2>1, <2>3 DEF Merges
    <3> QED
      BY <2>1, <2>3, <3>1, <3>2
  <2> QED
    BY <2>2, <2>3
<1> QED
  BY <1>4, <1>5, <1>6, <1>7, <1>8, <1>9, <1>10, <1>11, <1>12, <1>13, <1>14, <1>15, <1>16 DEF Step

-----------------------------------------------------------------------------
(* Part 3.  The runs.                                                      *)

(* The inductive invariant.                                                *)

(* Every variable of the orchestration holds a value of its type.          *)
JobType ==
    /\ job \in [Publishers -> Job] /\ records \subseteq Record /\ forkMR \in BOOLEAN
    /\ past \in [{"source", "target"} -> SUBSET Shas]

(* The challenge of a run is among the readable threads.                   *)
Posted(j) ==
    \E i \in Listed(threads) :
        threads[i].slot = j.decision /\ threads[i].occurrence = j.source

(* The stages before the changed files are read, after the snapshot was    *)
(* compared, after the decision and after the record.                      *)
Reading == {"getMR", "branchTip", "snapMR", "snapTip", "changedFiles"}
Judging == {"facts", "decide", "emit", "guards", "reconcile"}
Judged == {"emit", "guards", "reconcile"}
Recorded == {"guards", "reconcile"}

(* What a run has read and decided so far.                                 *)
StageOK(j) ==
    /\ j.pc \notin {"idle", "getMR", "exited"} => j.source \in Shas
    /\ j.pc \notin {"idle", "getMR", "branchTip", "exited"} => j.target \in Shas
    /\ j.pc \in Reading => j.files = Nil /\ j.factsAt = Nil
    /\ j.pc \in Judging => /\ j.snapSource = j.source /\ j.snapTarget = j.target
                           /\ j.files \in Shas
    /\ j.pc \in Judged =>
          /\ j.decision \in Verdicts
          /\ j.decision = "APPROVE" =>
               /\ j.files \notin SelfEdit /\ <<j.source, j.target>> \in Acceptable
               /\ j.factsAt \in Granting
          /\ j.files \in SelfEdit => ReservedSelfEditBlock(j)
    /\ j.pc \in Recorded => RecordOf(j) \in records
    /\ j.pc # "exited" => j.exit = Nil

(* WritesFollowDecision, for one run.                                      *)
WritesOK(j, r) ==
    /\ forkMR \/ j.files \in SelfEdit => r.writes = {}
    /\ j.decision # "APPROVE" => r.writes \subseteq {"note", "thread", "resolve"}
    /\ j.decision = "APPROVE" => r.writes \subseteq {"note", "approval", "merge"}

(* A run that is reconciling may write, asked for what buildDesired built  *)
(* from its decision, and has its challenge on the MR when Reconcile is    *)
(* content.                                                                *)
CallOK(j, r) ==
    /\ ~ZeroWrites(j)
    /\ \E arm \in BOOLEAN : r.req = BuildDesired(j, arm)
    /\ (r.outcome = "ok" \/ r.outcome \in Refusals) /\ j.decision # "APPROVE" => Posted(j)

JobOK(j, r) ==
    /\ StageOK(j)
    /\ j.pc \notin {"idle", "reconcile", "exited"} => r.writes = {}
    /\ r.pc # "idle" => j.pc = "reconcile"
    /\ j.pc \in {"reconcile", "exited"} => WritesOK(j, r)
    /\ j.pc = "reconcile" => CallOK(j, r)
    /\ j.exit = 0 /\ j.decision \in {"REVIEW", "BLOCK"} /\ ~ZeroWrites(j) => Posted(j)

(* Nobody spoils a marker while `assent run` is the only tool about.       *)
AllLegible == \A i \in DOMAIN threads : threads[i].legible

RunInv ==
    /\ Inv /\ PathInv /\ JobType /\ AllLegible /\ NoWriteWithoutRecord
    /\ \A p \in Publishers : JobOK(job[p], run[p])

-----------------------------------------------------------------------------
(* What the environment of a run leaves alone.                             *)

(* Records are never withdrawn and threads never leave the MR.             *)
Lasting ==
    /\ forkMR' = forkMR /\ records \subseteq records'
    /\ Listed(threads) \subseteq Listed(threads')
    /\ \A i \in Listed(threads) : /\ threads'[i].slot = threads[i].slot
                                  /\ threads'[i].occurrence = threads[i].occurrence

(* ... so what holds of a run that does not move goes on holding.          *)
LEMMA JobLasts ==
    ASSUME Lasting, NEW j, NEW r, JobOK(j, r)
    PROVE  JobOK(j, r)'
<1>1. Posted(j) => Posted(j)'
  BY DEF Lasting, Posted
<1>2. ZeroWrites(j)' <=> ZeroWrites(j)
  BY DEF Lasting, ZeroWrites
<1>3. StageOK(j) => StageOK(j)'
  BY DEF Lasting, StageOK
<1>4. WritesOK(j, r) => WritesOK(j, r)'
  BY DEF Lasting, WritesOK
<1>5. CallOK(j, r) => CallOK(j, r)'
  BY <1>1, <1>2 DEF CallOK
<1> QED
  BY <1>1, <1>2, <1>3, <1>4, <1>5 DEF JobOK

(* A forge where nothing was written keeps its records.                    *)
LEMMA NothingWritten ==
    ASSUME NoWriteWithoutRecord, UNCHANGED <<threads, notes, approvals, merges>>,
           records \subseteq records'
    PROVE  NoWriteWithoutRecord'
BY DEF NoWriteWithoutRecord

(* A step of one run that writes nothing to the forge keeps the invariant  *)
(* if its new records are good.                                            *)
LEMMA JobMoves ==
    ASSUME RunInv, Inv', NEW p \in Publishers, NEW j \in Job, NEW r \in Run,
           JobOK(j, r)', PathOK(r), SetJob(p, j), Goes(p, r), UNCHANGED <<forge, forkMR, past>>,
           records \subseteq records', records' \subseteq Record
    PROVE  RunInv'
<1>1. Lasting
  BY DEF Lasting, forge
<1>2. \A q \in Publishers : /\ job'[q] = IF q = p THEN j ELSE job[q]
                            /\ run'[q] = IF q = p THEN r ELSE run[q]
  BY Stored DEF RunInv, JobType, SetJob
<1>3. ASSUME NEW q \in Publishers PROVE JobOK(job[q], run[q])'
  <2>1. CASE q = p
    BY <1>2, <2>1 DEF JobOK, StageOK, WritesOK, CallOK, Posted, ZeroWrites
  <2>2. CASE q # p
    <3>1. PICK x, y : x = job[q] /\ y = run[q]
      OBVIOUS
    <3>2. JobOK(x, y)' /\ job'[q] = x /\ run'[q] = y
      BY <1>1, <1>2, <2>2, <3>1, JobLasts DEF RunInv
    <3> QED
      BY <3>2 DEF JobOK, StageOK, WritesOK, CallOK, Posted, ZeroWrites
  <2> QED
    BY <2>1, <2>2
<1>4. PathInv'
  BY <1>2 DEF RunInv, PathInv
<1>5. JobType'
  BY DEF RunInv, JobType, SetJob
<1>6. AllLegible'
  BY DEF RunInv, AllLegible, forge
<1>7. NoWriteWithoutRecord'
  BY NothingWritten DEF RunInv, forge
<1> QED
  BY <1>3, <1>4, <1>5, <1>6, <1>7 DEF RunInv

-----------------------------------------------------------------------------
(* The stages before Reconcile.                                            *)

(* The record of a run, opened.                                            *)
LEMMA CurrentJob ==
    ASSUME RunInv, NEW p \in Publishers
    PROVE  /\ job[p] \in Job /\ JobOK(job[p], run[p]) /\ StageOK(job[p])
           /\ run[p] \in Run /\ PathOK(run[p]) /\ Inv
           /\ head.source \in Shas /\ head.target \in Shas
BY Current DEF RunInv, JobType, JobOK, PathInv, Inv, TypeOK, Heads

(* A stage that only reads, and the emission of the record, keep the       *)
(* invariant if the stage they reach is in order.                          *)
LEMMA StageMoves ==
    ASSUME RunInv, NEW p \in Publishers, NEW j \in Job, SetJob(p, j), UNCHANGED <<vars, forkMR, past>>,
           records \subseteq records', records' \subseteq Record,
           job[p].pc \notin {"idle", "reconcile", "exited"}, j.pc \notin {"idle", "reconcile"},
           StageOK(j)', j.exit = 0 => ZeroWrites(j)
    PROVE  RunInv'
<1>1. run[p].writes = {} /\ run[p].pc = "idle" /\ PathOK(run[p]) /\ run[p] \in Run
  BY CurrentJob DEF JobOK
<1>2. Goes(p, run[p])
  BY DEF Goes, vars, RunInv, Inv, TypeOK
<1>3. Inv'
  BY NextInv DEF RunInv
<1>4. PICK r : r = run[p]
  OBVIOUS
<1>5. JobOK(j, r)'
  BY <1>1, <1>4 DEF JobOK, WritesOK, ZeroWrites
<1> QED
  BY <1>1, <1>2, <1>3, <1>4, <1>5, JobMoves DEF vars, forge

(* Reading the MR and its branch tip, twice (run.go 196-223).              *)
LEMMA PinsInv ==
    ASSUME RunInv, NEW p \in Publishers, GetMR(p) \/ BranchTip(p) \/ SnapshotMR(p) \/ SnapshotTip(p)
    PROVE  RunInv'
<1> DEFINE c == job[p]
           j1 == [c EXCEPT !.pc = "branchTip", !.source = head.source]
           j2 == [c EXCEPT !.pc = "snapMR", !.target = head.target]
           j3 == [c EXCEPT !.pc = "snapTip", !.snapSource = head.source]
           j4 == [c EXCEPT !.pc = "changedFiles", !.snapTarget = head.target]
<1>1. c \in Job /\ StageOK(c) /\ head.source \in Shas /\ head.target \in Shas
  BY CurrentJob
<1>2. UNCHANGED <<vars, forkMR, past>> /\ records' = records /\ records \subseteq Record
  BY DEF GetMR, BranchTip, SnapshotMR, SnapshotTip, ReadOnly, RunInv, JobType
<1>3. PICK j \in Job : /\ SetJob(p, j) /\ StageOK(j)
                       /\ j.pc \in {"branchTip", "snapMR", "snapTip", "changedFiles"}
                       /\ c.pc \in {"getMR", "branchTip", "snapMR", "snapTip"}
  <2>1. CASE GetMR(p)
    <3>1. SetJob(p, j1) /\ c.pc = "getMR"
      BY <2>1 DEF GetMR, At
    <3> HIDE DEF c
    <3>2. j1 \in Job /\ StageOK(j1) /\ j1.pc = "branchTip"
      BY <1>1, <3>1 DEF Job, Stages, StageOK, Reading, Judging, Judged, Recorded
    <3> QED
      BY <3>1, <3>2
  <2>2. CASE BranchTip(p)
    <3>1. SetJob(p, j2) /\ c.pc = "branchTip"
      BY <2>2 DEF BranchTip, At
    <3> HIDE DEF c
    <3>2. j2 \in Job /\ StageOK(j2) /\ j2.pc = "snapMR"
      BY <1>1, <3>1 DEF Job, Stages, StageOK, Reading, Judging, Judged, Recorded
    <3> QED
      BY <3>1, <3>2
  <2>3. CASE SnapshotMR(p)
    <3>1. SetJob(p, j3) /\ c.pc = "snapMR"
      BY <2>3 DEF SnapshotMR, At
    <3> HIDE DEF c
    <3>2. j3 \in Job /\ StageOK(j3) /\ j3.pc = "snapTip"
      BY <1>1, <3>1 DEF Job, Stages, StageOK, Reading, Judging, Judged, Recorded
    <3> QED
      BY <3>1, <3>2
  <2>4. CASE SnapshotTip(p)
    <3>1. SetJob(p, j4) /\ c.pc = "snapTip"
      BY <2>4 DEF SnapshotTip, At
    <3> HIDE DEF c
    <3>2. j4 \in Job /\ StageOK(j4) /\ j4.pc = "changedFiles"
      BY <1>1, <3>1 DEF Job, Stages, StageOK, Reading, Judging, Judged, Recorded
    <3> QED
      BY <3>1, <3>2
  <2> QED
    BY <2>1, <2>2, <2>3, <2>4
<1>4. StageOK(j)' /\ j.exit = Nil
  BY <1>2, <1>3 DEF StageOK
<1> QED
  BY <1>2, <1>3, <1>4, ExitAssumption, StageMoves

(* An exit that reports failure is always in order.                        *)
LEMMA ExitFields ==
    ASSUME NEW c \in Job, NEW code \in {0, 1}
    PROVE  LET j == Exited(c, code)
           IN  /\ j \in Job /\ j.pc = "exited" /\ j.exit = code /\ StageOK(j)
               /\ j.decision = c.decision /\ j.code = c.code /\ j.files = c.files
               /\ j.source = c.source
<1> DEFINE j == Exited(c, code)
<1>1. /\ j \in Job /\ j.pc = "exited" /\ j.exit = code
      /\ j.decision = c.decision /\ j.code = c.code /\ j.files = c.files /\ j.source = c.source
  BY DEF Exited, Job, Stages
<1> QED
  BY <1>1 DEF StageOK, Reading, Judging, Judged, Recorded

(* The changed files, the comparison of the heads and the facts (run.go    *)
(* 210-221, 312-313).                                                      *)
LEMMA ReadInv ==
    ASSUME RunInv, NEW p \in Publishers, SnapshotFiles(p) \/ ResolveRunFacts(p)
    PROVE  RunInv'
<1> DEFINE c == job[p]
           j1(x, y) == [c EXCEPT !.pc = "facts", !.files = head.source,
                                 !.complete = x, !.eligible = y]
           j2 == [c EXCEPT !.pc = "decide", !.factsAt = head.target]
<1>1. c \in Job /\ StageOK(c) /\ head.source \in Shas /\ head.target \in Shas
  BY CurrentJob
<1>2. UNCHANGED <<vars, forkMR, past>> /\ records' = records /\ records \subseteq Record
  BY DEF SnapshotFiles, ResolveRunFacts, ReadOnly, RunInv, JobType
<1>3. PICK j \in Job : /\ SetJob(p, j) /\ StageOK(j) /\ j.exit # 0
                       /\ j.pc \in {"facts", "decide", "exited"}
                       /\ c.pc \in {"changedFiles", "facts"}
  <2>1. CASE SnapshotFiles(p)
    <3>1. PICK x \in BOOLEAN, y \in BOOLEAN :
             /\ c.pc = "changedFiles"
             /\ SetJob(p, IF c.snapSource = c.source /\ c.snapTarget = c.target
                            THEN j1(x, y) ELSE Exited(c, 1))
      BY <2>1 DEF SnapshotFiles, At
    <3>2. Exited(c, 1) \in Job /\ StageOK(Exited(c, 1)) /\ Exited(c, 1).exit = 1
          /\ Exited(c, 1).pc = "exited"
      BY <1>1, ExitFields
    <3> HIDE DEF c
    <3>3. ASSUME c.snapSource = c.source, c.snapTarget = c.target
          PROVE  j1(x, y) \in Job /\ StageOK(j1(x, y)) /\ j1(x, y).pc = "facts" /\ j1(x, y).exit = Nil
      BY <1>1, <3>1, <3>3 DEF Job, Stages, StageOK, Reading, Judging, Judged, Recorded
    <3> HIDE DEF j1
    <3> QED
      BY <3>1, <3>2, <3>3, ExitAssumption
  <2>2. CASE ResolveRunFacts(p)
    <3>1. SetJob(p, j2) /\ c.pc = "facts"
      BY <2>2 DEF ResolveRunFacts, At
    <3> HIDE DEF c
    <3>2. j2 \in Job /\ StageOK(j2) /\ j2.pc = "decide" /\ j2.exit = Nil
      BY <1>1, <3>1 DEF Job, Stages, StageOK, Reading, Judging, Judged, Recorded
    <3> QED
      BY <3>1, <3>2, ExitAssumption
  <2> QED
    BY <2>1, <2>2
<1>4. StageOK(j)'
  BY <1>2, <1>3 DEF StageOK
<1> QED
  BY <1>2, <1>3, <1>4, StageMoves

(* The decision follows the files and the facts that were read (run.go     *)
(* 420-440, aggregate.Decide).                                             *)
LEMMA DecideInv ==
    ASSUME RunInv, NEW p \in Publishers, Decide(p)
    PROVE  RunInv'
<1> DEFINE c == job[p]
           j0(v) == [c EXCEPT !.pc = "emit", !.decision = v[1], !.code = v[2]]
<1>1. c \in Job /\ StageOK(c)
  BY CurrentJob
<1>2. UNCHANGED <<vars, forkMR, past>> /\ records' = records /\ records \subseteq Record
  BY DEF Decide, ReadOnly, RunInv, JobType
<1>3. PICK v \in Verdict(c) : SetJob(p, j0(v)) /\ c.pc = "decide"
  BY DEF Decide, At
<1>4. PICK d, k :
         /\ v = <<d, k>> /\ d \in Verdicts /\ k \in {"covered", "finding", "undecidable", "self-edit"}
         /\ d = "APPROVE" => /\ c.files \notin SelfEdit /\ <<c.source, c.target>> \in Acceptable
                             /\ c.factsAt \in Granting
         /\ c.files \in SelfEdit => d = "BLOCK" /\ k = "self-edit"
  BY <1>3 DEF Verdict, Verdicts
<1>5. PICK j : j = [c EXCEPT !.pc = "emit", !.decision = d, !.code = k]
  OBVIOUS
<1>6. SetJob(p, j)
  BY <1>3, <1>4, <1>5
<1> HIDE DEF c
<1>7. /\ j \in Job /\ j.pc = "emit" /\ j.exit = c.exit /\ j.decision = d /\ j.code = k
      /\ j.files = c.files /\ j.source = c.source /\ j.target = c.target /\ j.factsAt = c.factsAt
      /\ j.snapSource = c.snapSource /\ j.snapTarget = c.snapTarget
  BY <1>1, <1>4, <1>5 DEF Job, Stages
<1>8. StageOK(j)' /\ j.exit = Nil
  BY <1>1, <1>2, <1>3, <1>4, <1>7 DEF StageOK, Reading, Judging, Judged, Recorded, ReservedSelfEditBlock
<1> QED
  BY <1>2, <1>3, <1>6, <1>7, <1>8, ExitAssumption, StageMoves DEF c

(* The record is written before anything else is (run.go 473-486).         *)
LEMMA EmitInv ==
    ASSUME RunInv, NEW p \in Publishers, EmitRecord(p)
    PROVE  RunInv'
<1> DEFINE c == job[p]
<1>0. PICK j : j = [c EXCEPT !.pc = "guards"]
  OBVIOUS
<1>1. c \in Job /\ StageOK(c)
  BY CurrentJob
<1>2. /\ UNCHANGED <<vars, forkMR, past>> /\ records' = records \union {RecordOf(c)}
      /\ SetJob(p, j) /\ c.pc = "emit"
  BY <1>0 DEF EmitRecord, At
<1>3. RecordOf(c) \in Record
  BY <1>1, <1>2 DEF StageOK, Judged, RecordOf, Record
<1>4. records' \subseteq Record
  BY <1>2, <1>3 DEF RunInv, JobType
<1> HIDE DEF c
<1>5. /\ j \in Job /\ j.pc = "guards" /\ j.exit = c.exit /\ j.decision = c.decision
      /\ j.code = c.code /\ j.files = c.files /\ j.source = c.source /\ j.target = c.target
      /\ j.factsAt = c.factsAt /\ j.snapSource = c.snapSource /\ j.snapTarget = c.snapTarget
  BY <1>1, <1>0 DEF Job, Stages
<1>6. RecordOf(j) = RecordOf(c)
  BY <1>5 DEF RecordOf
<1>7. StageOK(j)' /\ j.exit = Nil
  BY <1>1, <1>2, <1>5, <1>6 DEF StageOK, Reading, Judging, Judged, Recorded, ReservedSelfEditBlock
<1> QED
  BY <1>2, <1>4, <1>5, <1>7, ExitAssumption, StageMoves DEF c

(* A guarded exit and a failure (run.go 488-498).                          *)
LEMMA GuardInv ==
    ASSUME RunInv, NEW p \in Publishers, GuardedExit(p)
    PROVE  RunInv'
<1> DEFINE c == job[p]
<1>0. PICK j : j = Exited(c, 0)
  OBVIOUS
<1>1. c \in Job /\ c.pc = "guards" /\ ZeroWrites(c) /\ SetJob(p, j)
  BY <1>0, CurrentJob DEF GuardedExit, At
<1>2. UNCHANGED <<vars, forkMR, past>> /\ records' = records /\ records \subseteq Record
  BY DEF GuardedExit, ReadOnly, RunInv, JobType
<1> HIDE DEF c
<1>3. /\ j \in Job /\ j.pc = "exited" /\ StageOK(j) /\ j.decision = c.decision /\ j.code = c.code
  BY <1>1, <1>0, ExitFields
<1>4. StageOK(j)' /\ ZeroWrites(j)
  BY <1>1, <1>2, <1>3 DEF StageOK, ZeroWrites, ReservedSelfEditBlock
<1> QED
  BY <1>1, <1>2, <1>3, <1>4, StageMoves DEF c

-----------------------------------------------------------------------------
(* Start, failure, and the call of Reconcile.                              *)

(* A process starts with a fresh record.                                   *)
LEMMA StartJobInv ==
    ASSUME RunInv, NEW p \in Publishers, StartJob(p)
    PROVE  RunInv'
<1>1. /\ SetJob(p, NewJob) /\ Goes(p, IdleRun) /\ Spend("runs")
      /\ UNCHANGED <<forge, disturbed, records, forkMR, past>>
  BY DEF StartJob, Goes
<1>2. IdleRun \in Run /\ RunOK(IdleRun) /\ IdleRun.writes = {} /\ IdleRun.pc = "idle"
  <2>1. <<>> \in Seq(Thread)
    OBVIOUS
  <2> QED
    BY <2>1 DEF IdleRun, Run, Steps, Modes, Outcomes, RunOK, SummarySteps, ThreadSteps, ClearSteps,
                PinnedSteps, CasSteps
<1>3. /\ NewJob \in Job /\ NewJob.pc = "getMR" /\ NewJob.exit = Nil
      /\ NewJob.files = Nil /\ NewJob.factsAt = Nil
  BY DEF NewJob, Job, Stages
<1>4. Inv'
  <2>1. run' \in [Publishers -> Run] /\ \A q \in Publishers : RunOK(run'[q])
    BY <1>1, <1>2, SetOK DEF Goes, RunInv, Inv, TypeOK
  <2>2. budget' \in BudgetType
    BY <1>1, SpendType DEF RunInv, Inv, TypeOK, BudgetType
  <2> QED
    BY <1>1, <2>1, <2>2 DEF RunInv, Inv, TypeOK, BudgetType, forge
<1>5. StageOK(NewJob)'
  BY <1>3 DEF StageOK, Reading, Judging, Judged, Recorded
<1>6. JobOK(NewJob, IdleRun)'
  BY <1>2, <1>3, <1>5, ExitAssumption DEF JobOK
<1>7. PathOK(IdleRun)
  BY <1>2 DEF PathOK, ThreadSteps, ClearSteps, PinnedSteps, CasSteps
<1> QED
  BY <1>1, <1>2, <1>3, <1>4, <1>6, <1>7, JobMoves DEF RunInv, JobType

(* A read, a load or the record write fails: exit 1.                       *)
LEMMA AbortInv ==
    ASSUME RunInv, NEW p \in Publishers, Abort(p)
    PROVE  RunInv'
<1>1. PICK j, r : j = Exited(job[p], 1) /\ r = run[p]
  OBVIOUS
<1>2. /\ SetJob(p, j) /\ Spend("faults") /\ UNCHANGED <<forge, run, disturbed, records, forkMR, past>>
      /\ job[p].pc \notin {"idle", "exited", "guards", "reconcile"}
  BY <1>1 DEF Abort, Active, At
<1>3. r \in Run /\ r.writes = {} /\ r.pc = "idle" /\ PathOK(r) /\ Goes(p, r) /\ job[p] \in Job
  BY <1>1, <1>2, CurrentJob DEF JobOK, Goes, RunInv, Inv, TypeOK
<1>4. j \in Job /\ j.pc = "exited" /\ j.exit = 1 /\ StageOK(j)
  BY <1>1, <1>3, ExitFields
<1>5. Inv'
  <2>1. budget' \in BudgetType
    BY <1>2, SpendType DEF RunInv, Inv, TypeOK, BudgetType
  <2> QED
    BY <1>2, <2>1 DEF RunInv, Inv, TypeOK, BudgetType, forge
<1>6. JobOK(j, r)'
  <2>1. StageOK(j)'
    BY <1>2, <1>4 DEF StageOK
  <2> QED
    BY <1>3, <1>4, <2>1 DEF JobOK, WritesOK
<1> QED
  BY <1>2, <1>3, <1>4, <1>5, <1>6, JobMoves DEF RunInv, JobType

(* Fields of what buildDesired builds (run.go 707-740).                    *)
LEMMA DesiredFields ==
    ASSUME NEW j, NEW arm
    PROVE  LET d == BuildDesired(j, arm).desired
           IN  /\ d.clearSlot = Nil /\ d.summary = RecordOf(j)
               /\ j.decision = "APPROVE" =>
                     /\ d.thread = Nil /\ d.merge.source = j.source /\ d.merge.target = j.target
               /\ j.decision # "APPROVE" =>
                     /\ d.thread.slot = j.decision /\ d.thread.occurrence = j.source
                     /\ ~d.approve
BY DEF BuildDesired

(* ... and hence the path Reconcile takes.                                 *)
LEMMA DesiredPath ==
    ASSUME NEW j, NEW arm
    PROVE  LET path == ReconcilePathOf(BuildDesired(j, arm).desired)
           IN  /\ path # "clearList"
               /\ j.decision = "APPROVE" => path # "listThreads"
               /\ j.decision # "APPROVE" => path # "gate"
<1> DEFINE d == BuildDesired(j, arm).desired
<1>1. /\ d.clearSlot = Nil /\ (j.decision = "APPROVE" => d.thread = Nil)
      /\ (j.decision # "APPROVE" => ~d.approve)
  BY DesiredFields
<1> HIDE DEF d
<1>2. /\ ReconcilePathOf(d) # "clearList"
      /\ j.decision = "APPROVE" => ReconcilePathOf(d) # "listThreads"
      /\ j.decision # "APPROVE" => ReconcilePathOf(d) # "gate"
  BY <1>1 DEF ReconcilePathOf
<1> QED
  BY <1>2 DEF d

(* It depends on the pins and the decision of the run alone.               *)
LEMMA DesiredSame ==
    ASSUME NEW j, NEW k, NEW arm, j.source = k.source, j.target = k.target,
           j.snapSource = k.snapSource, j.snapTarget = k.snapTarget, j.decision = k.decision
    PROVE  BuildDesired(j, arm) = BuildDesired(k, arm)
BY DEF BuildDesired, RecordOf

(* Reconcile is called with a request it is prepared for.                  *)
LEMMA DesiredIsRequest ==
    ASSUME NEW j, NEW arm \in BOOLEAN, j.source \in Shas, j.target \in Shas,
           j.snapSource = j.source, j.snapTarget = j.target, j.decision \in Verdicts
    PROVE  BuildDesired(j, arm) \in Requests
<1> DEFINE k == [NewJob EXCEPT !.source = j.source, !.target = j.target, !.snapSource = j.source,
                               !.snapTarget = j.target, !.decision = j.decision]
<1>1. /\ k.source = j.source /\ k.target = j.target /\ k.snapSource = j.source
      /\ k.snapTarget = j.target /\ k.decision = j.decision
  BY DEF NewJob
<1>2. BuildDesired(k, arm) \in Requests
  BY DesiredAssumption
<1> HIDE DEF k
<1>3. BuildDesired(j, arm) = BuildDesired(k, arm)
  BY <1>1, DesiredSame
<1> QED
  BY <1>2, <1>3

(* The call keeps the invariant (run.go 500-520).                          *)
LEMMA CallInv ==
    ASSUME RunInv, NEW p \in Publishers, CallReconcile(p)
    PROVE  RunInv'
<1> DEFINE c == job[p]
<1>1. PICK arm \in BOOLEAN : Enter(p, BuildDesired(c, arm))
  <2>1. PICK fresh \in BOOLEAN : Enter(p, BuildDesired(c, c.eligible /\ fresh))
    BY DEF CallReconcile
  <2>2. (c.eligible /\ fresh) \in BOOLEAN
    BY CurrentJob DEF Job
  <2> QED
    BY <2>1, <2>2
<1>2. PICK j : j = [c EXCEPT !.pc = "reconcile"]
  OBVIOUS
<1>3. PICK req : req = BuildDesired(c, arm)
  OBVIOUS
<1>4. /\ c.pc = "guards" /\ ~ZeroWrites(c) /\ SetJob(p, j) /\ UNCHANGED <<budget, records, forkMR, past>>
  BY <1>2 DEF CallReconcile, At
<1>5. c \in Job /\ StageOK(c)
  BY CurrentJob
<1>6. req \in Requests
  BY <1>3, <1>4, <1>5, DesiredIsRequest DEF StageOK, Reading, Judging, Judged
<1>7. PICK e \in Run :
         /\ Goes(p, e) /\ UNCHANGED forge /\ e.req = req /\ e.writes = {}
         /\ e.outcome \in {"none", "ErrUnsupportedDecision"}
         /\ \/ e.pc \in {"idle", "listNotes"}
            \/ e.pc = ReconcilePathOf(req.desired) /\ e.pc # "unsupported"
  BY <1>1, <1>3, <1>6, EnterEffect
<1>8. Inv'
  BY <1>1, <1>3, <1>4, <1>6, EnterInv DEF RunInv, Inv, TypeOK, BudgetType
<1>9. PathOK(e)
  <2>1. ReconcilePathOf(req.desired) \in {"clearList", "listThreads", "gate", "unsupported"}
    BY <1>6, RequestsAssumption, PathNeeds
  <2> QED
    BY <1>7, <2>1 DEF PathOK, ThreadSteps, ClearSteps, PinnedSteps, CasSteps
<1> HIDE DEF c
<1>10. /\ j \in Job /\ j.pc = "reconcile" /\ j.exit = c.exit /\ j.decision = c.decision
       /\ j.code = c.code /\ j.files = c.files /\ j.source = c.source /\ j.target = c.target
       /\ j.factsAt = c.factsAt /\ j.snapSource = c.snapSource /\ j.snapTarget = c.snapTarget
  BY <1>2, <1>5 DEF Job, Stages
<1>11. RecordOf(j) = RecordOf(c) /\ BuildDesired(j, arm) = req
  BY <1>3, <1>10, DesiredSame DEF RecordOf
<1>12. StageOK(j)' /\ j.exit = Nil
  BY <1>4, <1>5, <1>10, <1>11 DEF StageOK, Reading, Judging, Judged, Recorded, ReservedSelfEditBlock
<1>13. CallOK(j, e)'
  BY <1>4, <1>7, <1>10, <1>11 DEF CallOK, ZeroWrites, ReservedSelfEditBlock, Refusals
<1>14. JobOK(j, e)'
  BY <1>7, <1>10, <1>12, <1>13, ExitAssumption DEF JobOK, WritesOK
<1> QED
  BY <1>4, <1>7, <1>8, <1>9, <1>10, <1>14, JobMoves DEF RunInv, JobType, c

(* Reconcile returned: the exit code (run.go 520-560).                     *)
LEMMA ReturnedInv ==
    ASSUME RunInv, NEW p \in Publishers, ReconcileReturned(p)
    PROVE  RunInv'
<1> DEFINE c == job[p]
<1>1. PICK j, r : /\ j = Exited(c, IF run[p].outcome = "ok" \/ IsFailClosed(run[p].outcome)
                                     THEN 0 ELSE 1)
                  /\ r = run[p]
  OBVIOUS
<1>2. /\ c.pc = "reconcile" /\ SetJob(p, j) /\ UNCHANGED <<vars, records, forkMR, past>>
      /\ r.pc = "idle"
  BY <1>1 DEF ReconcileReturned, At, ReadOnly
<1>3. r \in Run /\ PathOK(r) /\ Goes(p, r) /\ c \in Job /\ JobOK(c, r)
  BY <1>1, <1>2, CurrentJob DEF Goes, vars, RunInv, Inv, TypeOK
<1>4. Inv'
  BY <1>2, NextInv DEF RunInv
<1> HIDE DEF c
<1>5. /\ j \in Job /\ j.pc = "exited" /\ StageOK(j)
      /\ j.decision = c.decision /\ j.code = c.code /\ j.files = c.files /\ j.source = c.source
      /\ j.exit = 0 => r.outcome = "ok" \/ r.outcome \in Refusals
  <2>1. CASE r.outcome = "ok" \/ r.outcome \in Refusals
    BY <1>1, <1>3, <2>1, ExitFields DEF IsFailClosed
  <2>2. CASE ~(r.outcome = "ok" \/ r.outcome \in Refusals)
    BY <1>1, <1>3, <2>2, ExitFields DEF IsFailClosed
  <2> QED
    BY <2>1, <2>2
<1>6. WritesOK(j, r) /\ (j.exit = 0 /\ j.decision # "APPROVE" => Posted(j))
  BY <1>2, <1>3, <1>5 DEF JobOK, CallOK, WritesOK, Posted
<1>7. JobOK(j, r)
  BY <1>2, <1>5, <1>6 DEF JobOK
<1>8. JobOK(j, r)'
  <2>1. Lasting
    BY <1>2 DEF Lasting, vars
  <2> QED
    BY <1>7, <2>1, JobLasts
<1> QED
  BY <1>2, <1>3, <1>4, <1>5, <1>8, JobMoves DEF RunInv, JobType, vars, forge

-----------------------------------------------------------------------------
(* The steps of Reconcile and of the people and pushes around it.          *)

(* The invariant is kept where the processes stand still and nothing on    *)
(* the forge leaves it.                                                    *)
LEMMA ForgeMoves ==
    ASSUME RunInv, Inv', PathInv', JobType', AllLegible', NoWriteWithoutRecord', Lasting, job' = job,
           \A q \in Publishers : run'[q] = run[q] \/ JobOK(job[q], run[q])'
    PROVE  RunInv'
<1>1. ASSUME NEW q \in Publishers, run'[q] = run[q] PROVE JobOK(job[q], run[q])'
  <2>1. PICK x, y : x = job[q] /\ y = run[q]
    OBVIOUS
  <2>2. JobOK(x, y)' /\ job'[q] = x /\ run'[q] = y
    BY <1>1, <2>1, JobLasts DEF RunInv
  <2> QED
    BY <2>2 DEF JobOK, StageOK, WritesOK, CallOK, Posted, ZeroWrites
<1> QED
  BY <1>1 DEF RunInv

(* Appending a thread keeps the ones there are.                            *)
LEMMA PostLasts ==
    ASSUME threads \in Seq(Thread), NEW new, new.legible, threads' = Append(threads, new)
    PROVE  /\ Listed(threads) \subseteq Listed(threads')
           /\ \A i \in Listed(threads) : threads'[i] = threads[i]
           /\ \A i \in DOMAIN threads' : \/ i \in DOMAIN threads /\ threads'[i] = threads[i]
                                         \/ threads'[i] = new
<1>1. /\ DOMAIN threads' = DOMAIN threads \union {Len(threads) + 1}
      /\ \A i \in DOMAIN threads : threads'[i] = threads[i]
      /\ threads'[Len(threads) + 1] = new
  OBVIOUS
<1> QED
  BY <1>1 DEF Listed

(* Resolving or reopening a thread keeps them too.                         *)
LEMMA ResolverLasts ==
    ASSUME threads \in Seq(Thread), NEW i, NEW who,
           \/ threads' = ResolveAt(threads, i) \/ threads' = [threads EXCEPT ![i].resolver = who]
    PROVE  /\ DOMAIN threads' = DOMAIN threads
           /\ \A k \in DOMAIN threads : /\ threads'[k].slot = threads[k].slot
                                        /\ threads'[k].occurrence = threads[k].occurrence
                                        /\ threads'[k].legible = threads[k].legible
<1>1. DOMAIN threads' = DOMAIN threads
  BY DEF ResolveAt
<1>2. ASSUME NEW k \in DOMAIN threads
      PROVE  /\ threads'[k].slot = threads[k].slot
             /\ threads'[k].occurrence = threads[k].occurrence
             /\ threads'[k].legible = threads[k].legible
  <2>1. threads[k] \in Thread
    OBVIOUS
  <2> QED
    BY <2>1 DEF ResolveAt, Thread
<1> QED
  BY <1>1, <1>2

(* What Reconcile was asked for by the run it works for.                   *)
LEMMA CallFacts ==
    ASSUME RunInv, NEW p \in Publishers, run[p].pc # "idle"
    PROVE  LET c == job[p]
               r == run[p]
           IN  /\ c.pc = "reconcile" /\ CallOK(c, r) /\ StageOK(c) /\ WritesOK(c, r) /\ c.exit = Nil
               /\ RecordOf(c) \in records /\ c.decision \in Verdicts /\ c.files \notin SelfEdit
               /\ ~forkMR /\ Desired(p).summary = RecordOf(c)
               /\ r.pc \notin ClearSteps
               /\ c.decision = "APPROVE" =>
                     /\ r.pc \notin ThreadSteps
                     /\ Desired(p).merge.source = c.source /\ Desired(p).merge.target = c.target
               /\ c.decision # "APPROVE" =>
                     /\ r.pc \notin PinnedSteps \union {"gate"}
                     /\ Desired(p).thread.slot = c.decision
                     /\ Desired(p).thread.occurrence = c.source
<1> DEFINE c == job[p]
           r == run[p]
<1>1. JobOK(c, r) /\ PathOK(r)
  BY CurrentJob
<1>2. /\ c.pc = "reconcile" /\ CallOK(c, r) /\ StageOK(c) /\ WritesOK(c, r) /\ c.exit = Nil
      /\ RecordOf(c) \in records /\ c.decision \in Verdicts /\ c.files \notin SelfEdit /\ ~forkMR
  BY <1>1 DEF JobOK, StageOK, CallOK, ZeroWrites, Judged, Recorded
<1>3. PICK arm \in BOOLEAN : r.req = BuildDesired(c, arm)
  BY <1>2 DEF CallOK
<1>4. Desired(p) = BuildDesired(c, arm).desired
  BY <1>3 DEF Desired
<1>5. /\ r.pc \notin ClearSteps
      /\ c.decision = "APPROVE" => r.pc \notin ThreadSteps
      /\ c.decision # "APPROVE" => r.pc \notin PinnedSteps \union {"gate"}
  BY <1>1, <1>3, DesiredPath DEF PathOK
<1>6. /\ Desired(p).summary = RecordOf(c)
      /\ c.decision = "APPROVE" =>
            Desired(p).merge.source = c.source /\ Desired(p).merge.target = c.target
      /\ c.decision # "APPROVE" =>
            Desired(p).thread.slot = c.decision /\ Desired(p).thread.occurrence = c.source
  BY <1>4, DesiredFields
<1> QED
  BY <1>2, <1>5, <1>6

(* Each step of Reconcile writes for the record of its run.                *)
LEMMA ReconcileStepInv ==
    ASSUME RunInv, NEW p \in Publishers, ReconcileStep(p)
    PROVE  RunInv'
<1> DEFINE c == job[p]
           r == run[p]
<1>1. Step(p) /\ UNCHANGED jobVars /\ [Next]_vars
  BY DEF ReconcileStep, Next
<1>2. Inv' /\ PathInv' /\ JobType'
  BY <1>1, NextInv, PathNext DEF RunInv, JobType, jobVars
<1>3. PICK e \in Run :
         /\ Goes(p, e) /\ e.req = r.req /\ r.pc # "idle" /\ Verdicted(p, e)
         /\ \/ Quietly(p, e) \/ Notes(p, e) \/ Resolves(p, e) \/ Posts(p, e)
            \/ Approves(p, e) \/ Merges(p, e)
  BY <1>1, StepWrites DEF RunInv
<1>4. threads \in Seq(Thread) /\ merges \in Seq(Merge) /\ r \in Run
  BY CurrentJob DEF RunInv, Inv, TypeOK
<1>5. /\ c.pc = "reconcile" /\ CallOK(c, r) /\ StageOK(c) /\ WritesOK(c, r) /\ c.exit = Nil
      /\ RecordOf(c) \in records /\ c.decision \in Verdicts /\ c.files \notin SelfEdit /\ ~forkMR
  BY <1>3, CallFacts
<1>6. r.pc \notin ClearSteps /\ (c.decision = "APPROVE" => r.pc \notin ThreadSteps)
  BY <1>3, CallFacts
<1>7. c.decision # "APPROVE" => r.pc \notin PinnedSteps \union {"gate"}
  BY <1>3, CallFacts
<1>8. /\ Desired(p).summary = RecordOf(c)
      /\ c.decision = "APPROVE" =>
            Desired(p).merge.source = c.source /\ Desired(p).merge.target = c.target
      /\ c.decision # "APPROVE" =>
            Desired(p).thread.slot = c.decision /\ Desired(p).thread.occurrence = c.source
  BY <1>3, CallFacts
<1>9. RecordOf(c).decision = c.decision /\ RecordOf(c).source = c.source
  BY DEF RecordOf
<1>10. /\ Lasting /\ AllLegible'
       /\ \A i \in DOMAIN threads' :
             \/ i \in DOMAIN threads /\ threads'[i].slot = threads[i].slot
                                     /\ threads'[i].occurrence = threads[i].occurrence
             \/ threads'[i].slot = c.decision /\ threads'[i].occurrence = c.source
  <2>1. CASE threads' = threads
    BY <1>1, <2>1 DEF Lasting, jobVars, RunInv, AllLegible
  <2>2. CASE Resolves(p, e)
    <3>1. PICK i \in Nat : threads' = ResolveAt(threads, i)
      BY <2>2 DEF Resolves
    <3>2. /\ DOMAIN threads' = DOMAIN threads
          /\ \A k \in DOMAIN threads : /\ threads'[k].slot = threads[k].slot
                                       /\ threads'[k].occurrence = threads[k].occurrence
                                       /\ threads'[k].legible = threads[k].legible
      BY <1>4, <3>1, ResolverLasts
    <3> QED
      BY <1>1, <3>2 DEF Lasting, Listed, jobVars, RunInv, AllLegible
  <2>3. CASE Posts(p, e)
    <3> DEFINE new == [slot |-> Desired(p).thread.slot, occurrence |-> Desired(p).thread.occurrence,
                       legible |-> TRUE, resolver |-> "nobody"]
    <3>1. threads' = Append(threads, new) /\ c.decision # "APPROVE"
      BY <1>6, <2>3 DEF Posts, ThreadSteps
    <3>2. new.legible /\ new.slot = c.decision /\ new.occurrence = c.source
      BY <1>8, <3>1
    <3> HIDE DEF new
    <3>3. /\ Listed(threads) \subseteq Listed(threads')
          /\ \A i \in Listed(threads) : threads'[i] = threads[i]
          /\ \A i \in DOMAIN threads' : \/ i \in DOMAIN threads /\ threads'[i] = threads[i]
                                        \/ threads'[i] = new
      BY <1>4, <3>1, <3>2, PostLasts
    <3> QED
      BY <1>1, <3>2, <3>3 DEF Lasting, jobVars, RunInv, AllLegible
  <2> QED
    BY <1>3, <2>1, <2>2, <2>3 DEF Quietly, Notes, Approves, Merges, forge
<1>11. NoWriteWithoutRecord'
  <2>1. records' = records
    BY <1>1 DEF jobVars
  <2>2. \A i \in DOMAIN threads' :
           \E x \in records : x.decision = threads'[i].slot /\ x.source = threads'[i].occurrence
    BY <1>5, <1>9, <1>10 DEF RunInv, NoWriteWithoutRecord
  <2>3. \A i \in DOMAIN notes' : notes'[i].decision \in records
    <3>1. CASE Notes(p, e)
      BY <1>5, <1>8, <3>1 DEF Notes, RunInv, NoWriteWithoutRecord
    <3>2. CASE notes' = notes
      BY <3>2 DEF RunInv, NoWriteWithoutRecord
    <3> QED
      BY <1>3, <3>1, <3>2 DEF Quietly, Resolves, Posts, Approves, Merges, forge
  <2>4. approvals' # {} => \E x \in records : x.decision = "APPROVE"
    <3>1. CASE Approves(p, e)
      BY <1>5, <1>7, <1>9, <3>1 DEF Approves, PinnedSteps
    <3>2. CASE approvals' = approvals
      BY <3>2 DEF RunInv, NoWriteWithoutRecord
    <3> QED
      BY <1>3, <3>1, <3>2 DEF Quietly, Notes, Resolves, Posts, Merges, forge
  <2>5. \A k \in DOMAIN merges' :
           [source |-> merges'[k].pins.source, target |-> merges'[k].pins.target,
            decision |-> "APPROVE"] \in records
    <3>1. CASE Merges(p, e)
      <4> DEFINE new == [pins |-> Desired(p).merge, arm |-> Pre(p).arm, at |-> head]
      <4>1. merges' = Append(merges, new) /\ c.decision = "APPROVE"
        BY <1>7, <3>1 DEF Merges, PinnedSteps, CasSteps
      <4>2. new.pins.source = c.source /\ new.pins.target = c.target
        BY <1>8, <4>1
      <4> HIDE DEF new
      <4>3. \A k \in DOMAIN merges' : (k \in DOMAIN merges /\ merges'[k] = merges[k]) \/ merges'[k] = new
        BY <1>4, <4>1
      <4>4. [source |-> new.pins.source, target |-> new.pins.target, decision |-> "APPROVE"]
               \in records
        BY <1>5, <4>1, <4>2 DEF RecordOf
      <4> QED
        BY <4>3, <4>4 DEF RunInv, NoWriteWithoutRecord
    <3>2. CASE merges' = merges
      BY <3>2 DEF RunInv, NoWriteWithoutRecord
    <3> QED
      BY <1>3, <3>1, <3>2 DEF Quietly, Notes, Resolves, Posts, Approves, forge
  <2> QED
    BY <2>1, <2>2, <2>3, <2>4, <2>5 DEF NoWriteWithoutRecord
<1>12. WritesOK(c, e)
  <2>1. \/ e.writes \subseteq r.writes \union {"note"}
        \/ /\ e.writes \subseteq r.writes \union {"approval", "merge"}
           /\ r.pc \in PinnedSteps
        \/ /\ e.writes \subseteq r.writes \union {"thread", "resolve"}
           /\ r.pc \in ThreadSteps \union ClearSteps
    BY <1>3 DEF Quietly, Notes, Resolves, Posts, Approves, Merges, ThreadSteps, PinnedSteps, CasSteps
  <2> QED
    BY <1>5, <1>6, <1>7, <2>1 DEF WritesOK
<1>13. (e.outcome = "ok" \/ e.outcome \in Refusals) /\ c.decision # "APPROVE" => Posted(c)'
  <2> SUFFICES ASSUME e.outcome = "ok" \/ e.outcome \in Refusals, c.decision # "APPROVE"
               PROVE  Posted(c)'
    OBVIOUS
  <2>1. e.outcome = "ok" /\ r.pc \in ThreadSteps
    <3>1. r.pc \in SummarySteps \union ThreadSteps \union ClearSteps \union PinnedSteps \union {"gate"}
      BY <1>3, <1>4 DEF Run, Steps, SummarySteps, ThreadSteps, ClearSteps, PinnedSteps, CasSteps
    <3> QED
      BY <1>3, <1>6, <1>7, <3>1 DEF Verdicted
  <2>2. threads' = threads /\ Occupants(threads, Desired(p).thread) # {}
    BY <1>3, <2>1 DEF Verdicted
  <2>3. job' = job
    BY <1>1 DEF jobVars
  <2> QED
    BY <1>8, <2>2, <2>3 DEF Posted, Occupants, SameKey
<1>14. JobOK(job[p], run[p])'
  <2>1. job'[p] = c /\ run'[p] = e /\ records' = records /\ forkMR' = forkMR
    BY <1>1, <1>3, Stored DEF jobVars, RunInv
  <2>2. StageOK(c)'
    BY <1>1, <1>5, <2>1 DEF StageOK
  <2>3. CallOK(c, e)'
    BY <1>1, <1>3, <1>5, <1>13, <2>1 DEF CallOK, ZeroWrites
  <2>4. WritesOK(c, e)'
    BY <1>12, <2>1 DEF WritesOK
  <2>5. JobOK(c, e)'
    BY <1>5, <2>1, <2>2, <2>3, <2>4, ExitAssumption DEF JobOK
  <2> QED
    BY <2>1, <2>5 DEF JobOK, StageOK, WritesOK, CallOK, Posted, ZeroWrites
<1>15. \A q \in Publishers : run'[q] = run[q] \/ JobOK(job[q], run[q])'
  BY <1>3, <1>14, Stored DEF RunInv
<1> QED
  BY <1>1, <1>2, <1>10, <1>11, <1>15, ForgeMoves DEF jobVars

(* A failed call of Reconcile ends it with an error.                       *)
LEMMA ReconcileFailsInv ==
    ASSUME RunInv, NEW p \in Publishers, ReconcileFails(p)
    PROVE  RunInv'
<1> DEFINE c == job[p]
<1>1. Fail(p) /\ UNCHANGED jobVars /\ [Next]_vars
  BY DEF ReconcileFails, Next
<1>2. Inv' /\ PathInv' /\ JobType'
  BY <1>1, NextInv, PathNext DEF RunInv, JobType, jobVars
<1>3. PICK e \in Run : /\ Goes(p, e) /\ Returned(e, run[p], "error") /\ run[p].pc # "idle"
                       /\ UNCHANGED <<forge, disturbed>>
  BY <1>1, FailEffect DEF RunInv
<1>4. Lasting /\ AllLegible' /\ NoWriteWithoutRecord'
  BY <1>1, <1>3, NothingWritten DEF Lasting, forge, jobVars, RunInv, AllLegible
<1>5. JobOK(c, run[p]) /\ c.pc = "reconcile"
  BY <1>3, CurrentJob DEF JobOK
<1>6. JobOK(c, e)
  BY <1>3, <1>5 DEF JobOK, CallOK, WritesOK, Returned, Refusals
<1>7. JobOK(job[p], run[p])'
  <2>1. PICK x : x = c
    OBVIOUS
  <2>2. JobOK(x, e)' /\ job'[p] = x /\ run'[p] = e
    BY <1>1, <1>3, <1>4, <1>6, <2>1, JobLasts, Stored DEF jobVars, RunInv
  <2> QED
    BY <2>2 DEF JobOK, StageOK, WritesOK, CallOK, Posted, ZeroWrites
<1>8. \A q \in Publishers : run'[q] = run[q] \/ JobOK(job[q], run[q])'
  BY <1>3, <1>7, Stored DEF RunInv
<1> QED
  BY <1>1, <1>2, <1>4, <1>8, ForgeMoves DEF jobVars

(* Reviewers and pushes.                                                   *)
LEMMA WorldInv ==
    ASSUME RunInv, People \/ PushHeads
    PROVE  RunInv'
<1>1. /\ Environment /\ [Next]_vars /\ run' = run /\ UNCHANGED <<notes, approvals, merges>>
      /\ UNCHANGED <<job, records, forkMR>>
  BY DEF People, PushHeads, Environment, Next, ReviewerResolves, ReviewerReopens, Push, jobVars
<1>2. Inv' /\ PathInv'
  BY <1>1, NextInv, PathNext DEF RunInv
<1>3. past' \in [{"source", "target"} -> SUBSET Shas]
  <2>1. CASE People
    BY <2>1 DEF People, jobVars, RunInv, JobType
  <2>2. CASE PushHeads
    <3>1. past' = [side \in {"source", "target"} |-> past[side] \union {head'[side]}]
      BY <2>2 DEF PushHeads
    <3>2. head'["source"] \in Shas /\ head'["target"] \in Shas
      BY <1>2 DEF Inv, TypeOK, Heads
    <3>3. past["source"] \subseteq Shas /\ past["target"] \subseteq Shas
      BY DEF RunInv, JobType
    <3> QED
      BY <3>1, <3>2, <3>3
  <2> QED
    BY <2>1, <2>2
<1>4. JobType'
  BY <1>1, <1>3 DEF RunInv, JobType
<1>5. /\ DOMAIN threads' = DOMAIN threads
      /\ \A k \in DOMAIN threads : /\ threads'[k].slot = threads[k].slot
                                   /\ threads'[k].occurrence = threads[k].occurrence
                                   /\ threads'[k].legible = threads[k].legible
  <2>1. threads \in Seq(Thread)
    BY DEF RunInv, Inv, TypeOK
  <2>2. \/ threads' = threads
        \/ \E i \in DOMAIN threads, who \in {"reviewer", "nobody"} :
              threads' = [threads EXCEPT ![i].resolver = who]
    BY DEF People, PushHeads, ReviewerResolves, ReviewerReopens, Push
  <2> QED
    BY <2>1, <2>2, ResolverLasts
<1>6. Lasting
  BY <1>1, <1>5 DEF Lasting, Listed
<1>7. AllLegible' /\ NoWriteWithoutRecord'
  BY <1>1, <1>5 DEF RunInv, AllLegible, NoWriteWithoutRecord
<1> QED
  BY <1>1, <1>2, <1>4, <1>6, <1>7, ForgeMoves

(* Initially nobody runs and nothing is written.                           *)
LEMMA RunInitInv == RunInit => RunInv
<1> SUFFICES ASSUME RunInit PROVE RunInv
  OBVIOUS
<1> DEFINE j0 == [NewJob EXCEPT !.pc = "idle"]
<1>1. Inv /\ PathInv
  <2>1. Init
    BY DEF RunInit
  <2>2. PathInv
    BY <2>1 DEF Init, PathInv, PathOK, IdleRun, ThreadSteps, ClearSteps, PinnedSteps, CasSteps
  <2> QED
    BY <2>1, <2>2, InitInv
<1>2. /\ job = [p \in Publishers |-> j0] /\ records = {} /\ forkMR \in BOOLEAN
      /\ past = [source |-> {head.source}, target |-> {head.target}]
  BY DEF RunInit
<1>3. j0 \in Job /\ j0.pc = "idle" /\ j0.exit = Nil
  BY DEF NewJob, Job, Stages
<1>4. past \in [{"source", "target"} -> SUBSET Shas]
  <2>1. head.source \in Shas /\ head.target \in Shas
    BY <1>1 DEF Inv, TypeOK, Heads
  <2>2. DOMAIN past = {"source", "target"} /\ past["source"] = {head.source}
        /\ past["target"] = {head.target}
    BY <1>2
  <2>3. past = [side \in {"source", "target"} |-> past[side]]
    BY <1>2, <2>2
  <2> QED
    BY <2>1, <2>2, <2>3
<1>5. threads = <<>> /\ notes = <<>> /\ approvals = {} /\ merges = <<>>
  BY DEF RunInit, Init
<1>6. \A p \in Publishers : run[p].pc = "idle" /\ job[p] = j0
  BY <1>2 DEF RunInit, Init, IdleRun
<1> HIDE DEF j0
<1>7. StageOK(j0)
  BY <1>3 DEF StageOK, Reading, Judging, Judged, Recorded
<1>8. \A p \in Publishers : JobOK(job[p], run[p])
  BY <1>3, <1>6, <1>7, ExitAssumption DEF JobOK
<1>9. JobType
  BY <1>2, <1>3, <1>4 DEF JobType
<1>10. AllLegible /\ NoWriteWithoutRecord
  BY <1>5 DEF AllLegible, NoWriteWithoutRecord
<1> QED
  BY <1>1, <1>8, <1>9, <1>10 DEF RunInv

(* Every step of the orchestration keeps the invariant.                    *)
LEMMA RunNextInv == RunInv /\ [RunNext]_runVars => RunInv'
<1> SUFFICES ASSUME RunInv, [RunNext]_runVars PROVE RunInv'
  OBVIOUS
<1>1. ASSUME NEW p \in Publishers, JobStep(p) PROVE RunInv'
  BY <1>1, PinsInv, ReadInv, DecideInv, EmitInv, GuardInv, CallInv, ReturnedInv, ReconcileStepInv
     DEF JobStep
<1>2. ASSUME NEW p \in Publishers, StartJob(p) \/ Abort(p) \/ ReconcileFails(p) PROVE RunInv'
  BY <1>2, StartJobInv, AbortInv, ReconcileFailsInv
<1>3. CASE UNCHANGED runVars
  <2>1. [Next]_vars /\ UNCHANGED <<vars, job, records, forkMR, past>>
    BY <1>3 DEF runVars
  <2>2. Inv' /\ PathInv'
    BY <2>1, NextInv, PathNext DEF RunInv
  <2>3. Lasting /\ AllLegible' /\ NoWriteWithoutRecord' /\ JobType'
    BY <2>1, NothingWritten DEF vars, Lasting, RunInv, AllLegible, JobType
  <2> QED
    BY <2>1, <2>2, <2>3, ForgeMoves DEF vars
<1> QED
  BY <1>1, <1>2, <1>3, WorldInv DEF RunNext

(* It holds in every behaviour.                                            *)
LEMMA RunInvHolds == RunSpec => []RunInv
BY RunInitInv, RunNextInv, PTL DEF RunSpec

(* "The forge is never mutated for a decision whose record could not be     *)
(* written": every thread, summary, approval and merge belongs to a record  *)
(* that was emitted before it, whatever crashes, moves and interleaves      *)
(* (run.go 188-189, 473-486).                                               *)
THEOREM WritesHaveRecords == RunSpec => []NoWriteWithoutRecord
<1>1. RunInv => NoWriteWithoutRecord
  BY DEF RunInv
<1> QED
  BY <1>1, RunInvHolds, PTL

(* A self-edit or fork run writes nothing, and a run that did not decide    *)
(* APPROVE neither approves nor merges (GUARD 1 and GUARD 2, run.go         *)
(* 488-498).                                                                *)
THEOREM WritesObeyDecision == RunSpec => []WritesFollowDecision
<1>1. RunInv => WritesFollowDecision
  BY DEF RunInv, JobOK, WritesOK, WritesFollowDecision, Active, At
<1> QED
  BY <1>1, RunInvHolds, PTL

(* Exit code 0 on REVIEW or BLOCK is never silent: unless the run may not   *)
(* write, a readable thread challenges the judged content (run.go 500-560,  *)
(* forge.go 554-609).                                                       *)
THEOREM ReviewsArePosted == RunSpec => []ReviewIsPosted
<1>1. RunInv => ReviewIsPosted
  BY DEF RunInv, JobOK, ReviewIsPosted, Posted
<1> QED
  BY <1>1, RunInvHolds, PTL

-----------------------------------------------------------------------------
(* What was merged was permitted.                                          *)

(* While nothing is merged, what a run has read at the heads it pinned is  *)
(* what the heads still show if they are the pinned ones: a branch never   *)
(* comes back to a commit it has left.                                     *)
HistoryOK(j) ==
    /\ j.source \in past["source"] \union {Nil} /\ j.target \in past["target"] \union {Nil}
    /\ j.source = head.source => j.files \in {Nil, head.source}
    /\ j.target = head.target => j.factsAt \in {Nil, head.target}
History ==
    ~Merged => /\ head.source \in past["source"] /\ head.target \in past["target"]
               /\ \A p \in Publishers : HistoryOK(job[p])

(* A run that reads the heads as they are keeps the history.               *)
LEMMA HistoryReads ==
    ASSUME RunInv, History, NEW p \in Publishers, NEW j, SetJob(p, j),
           UNCHANGED <<head, merges, past>>, ~Merged => HistoryOK(j)
    PROVE  History'
<1>1. \A q \in Publishers : job'[q] = IF q = p THEN j ELSE job[q]
  BY DEF SetJob, RunInv, JobType
<1>2. \A q \in Publishers : ~Merged => HistoryOK(job[q])'
  BY <1>1 DEF History, HistoryOK
<1> QED
  BY <1>2 DEF History, Merged

(* So does one step that changes neither heads nor processes.              *)
LEMMA HistoryStays ==
    ASSUME History, UNCHANGED <<head, job, past>>, Merged => Merged'
    PROVE  History'
BY DEF History, HistoryOK

(* The steps of a process.                                                 *)
LEMMA JobHistory ==
    ASSUME RunInv, History, NEW p \in Publishers,
           \/ StartJob(p) \/ Abort(p) \/ GetMR(p) \/ BranchTip(p) \/ SnapshotMR(p) \/ SnapshotTip(p)
           \/ SnapshotFiles(p) \/ ResolveRunFacts(p) \/ Decide(p) \/ EmitRecord(p)
           \/ GuardedExit(p) \/ CallReconcile(p) \/ ReconcileReturned(p)
    PROVE  History'
<1> DEFINE c == job[p]
<1>1. UNCHANGED <<head, merges, past>>
  BY DEF StartJob, Abort, GetMR, BranchTip, SnapshotMR, SnapshotTip, SnapshotFiles, ResolveRunFacts,
         Decide, EmitRecord, GuardedExit, CallReconcile, ReconcileReturned, ReadOnly, Enter, vars, forge
<1>2. c \in Job /\ StageOK(c) /\ (~Merged => HistoryOK(c))
  BY CurrentJob DEF History
<1>3. ~Merged => head.source \in past["source"] /\ head.target \in past["target"]
  BY DEF History
<1>4. CASE StartJob(p)
  <2>1. SetJob(p, NewJob)
    BY <1>4 DEF StartJob
  <2>2. HistoryOK(NewJob)
    BY DEF HistoryOK, NewJob
  <2> QED
    BY <1>1, <2>1, <2>2, HistoryReads
<1>5. CASE GetMR(p)
  <2> DEFINE j == [c EXCEPT !.pc = "branchTip", !.source = head.source]
  <2>1. SetJob(p, j) /\ c.pc = "getMR"
    BY <1>5 DEF GetMR, At
  <2>2. c.files = Nil
    BY <1>2, <2>1 DEF StageOK, Reading
  <2> HIDE DEF c
  <2>3. /\ j.source = head.source /\ j.target = c.target /\ j.files = c.files
        /\ j.factsAt = c.factsAt
    BY <1>2 DEF Job
  <2> HIDE DEF j
  <2>4. ~Merged => HistoryOK(j)
    BY <1>2, <1>3, <2>2, <2>3 DEF HistoryOK
  <2> QED
    BY <1>1, <2>1, <2>4, HistoryReads
<1>6. CASE BranchTip(p)
  <2> DEFINE j == [c EXCEPT !.pc = "snapMR", !.target = head.target]
  <2>1. SetJob(p, j) /\ c.pc = "branchTip"
    BY <1>6 DEF BranchTip, At
  <2>2. c.factsAt = Nil
    BY <1>2, <2>1 DEF StageOK, Reading
  <2> HIDE DEF c
  <2>3. /\ j.source = c.source /\ j.target = head.target /\ j.files = c.files
        /\ j.factsAt = c.factsAt
    BY <1>2 DEF Job
  <2> HIDE DEF j
  <2>4. ~Merged => HistoryOK(j)
    BY <1>2, <1>3, <2>2, <2>3 DEF HistoryOK
  <2> QED
    BY <1>1, <2>1, <2>4, HistoryReads
<1>7. ASSUME NEW j, SetJob(p, j), j.source = c.source, j.target = c.target,
             j.files \in {c.files, head.source}, j.factsAt \in {c.factsAt, head.target}
      PROVE  History'
  <2>1. ~Merged => HistoryOK(j)
    BY <1>2, <1>7 DEF HistoryOK
  <2> QED
    BY <1>1, <1>7, <2>1, HistoryReads
<1>8. CASE Abort(p) \/ GuardedExit(p) \/ ReconcileReturned(p)
  <2>1. PICK code \in {0, 1} : SetJob(p, Exited(c, code))
    BY <1>8 DEF Abort, GuardedExit, ReconcileReturned
  <2> HIDE DEF c
  <2>2. /\ Exited(c, code).source = c.source /\ Exited(c, code).target = c.target
        /\ Exited(c, code).files = c.files /\ Exited(c, code).factsAt = c.factsAt
    BY <1>2 DEF Exited, Job
  <2> QED
    BY <1>7, <2>1, <2>2
<1>9. CASE SnapshotFiles(p)
  <2>1. PICK x, y : SetJob(p, IF c.snapSource = c.source /\ c.snapTarget = c.target
                                THEN [c EXCEPT !.pc = "facts", !.files = head.source,
                                               !.complete = x, !.eligible = y]
                                ELSE Exited(c, 1))
    BY <1>9 DEF SnapshotFiles
  <2> DEFINE j == [c EXCEPT !.pc = "facts", !.files = head.source, !.complete = x, !.eligible = y]
  <2> HIDE DEF c
  <2>2. /\ Exited(c, 1).source = c.source /\ Exited(c, 1).target = c.target
        /\ Exited(c, 1).files = c.files /\ Exited(c, 1).factsAt = c.factsAt
    BY <1>2 DEF Exited, Job
  <2>3. /\ j.source = c.source /\ j.target = c.target /\ j.files = head.source
        /\ j.factsAt = c.factsAt
    BY <1>2 DEF Job
  <2>4. SetJob(p, j) \/ SetJob(p, Exited(c, 1))
    BY <2>1
  <2> HIDE DEF j
  <2> QED
    BY <1>7, <2>2, <2>3, <2>4
<1>10. CASE SnapshotMR(p) \/ SnapshotTip(p) \/ EmitRecord(p) \/ CallReconcile(p)
  <2> DEFINE j1 == [c EXCEPT !.pc = "snapTip", !.snapSource = head.source]
             j2 == [c EXCEPT !.pc = "changedFiles", !.snapTarget = head.target]
             j3 == [c EXCEPT !.pc = "guards"]
             j4 == [c EXCEPT !.pc = "reconcile"]
  <2>1. SetJob(p, j1) \/ SetJob(p, j2) \/ SetJob(p, j3) \/ SetJob(p, j4)
    BY <1>10 DEF SnapshotMR, SnapshotTip, EmitRecord, CallReconcile
  <2> HIDE DEF c
  <2>2. ASSUME NEW j \in {j1, j2, j3, j4}
        PROVE  /\ j.source = c.source /\ j.target = c.target /\ j.files = c.files
               /\ j.factsAt = c.factsAt
    BY <1>2 DEF Job
  <2> HIDE DEF j1, j2, j3, j4
  <2> QED
    BY <1>7, <2>1, <2>2
<1>11. CASE ResolveRunFacts(p)
  <2> DEFINE j == [c EXCEPT !.pc = "decide", !.factsAt = head.target]
  <2>1. SetJob(p, j)
    BY <1>11 DEF ResolveRunFacts
  <2> HIDE DEF c
  <2>2. j.source = c.source /\ j.target = c.target /\ j.files = c.files /\ j.factsAt = head.target
    BY <1>2 DEF Job
  <2> HIDE DEF j
  <2> QED
    BY <1>7, <2>1, <2>2
<1>12. CASE Decide(p)
  <2>1. PICK v : SetJob(p, [c EXCEPT !.pc = "emit", !.decision = v[1], !.code = v[2]])
    BY <1>12 DEF Decide
  <2> DEFINE j == [c EXCEPT !.pc = "emit", !.decision = v[1], !.code = v[2]]
  <2> HIDE DEF c
  <2>2. j.source = c.source /\ j.target = c.target /\ j.files = c.files /\ j.factsAt = c.factsAt
    BY <1>2 DEF Job
  <2> QED
    BY <1>7, <2>1, <2>2
<1> QED
  BY <1>4, <1>5, <1>6, <1>8, <1>9, <1>10, <1>11, <1>12

(* A push to a commit the branch never had leaves what was read behind.    *)
LEMMA PushHistory ==
    ASSUME RunInv, History, ~HeadsReturn, PushHeads
    PROVE  History'
<1>1. ~Merged /\ head \in Heads /\ head' \in Heads /\ UNCHANGED <<job, merges>>
  <2>1. PICK s \in Shas : \/ head' = [head EXCEPT !.source = s]
                          \/ head' = [head EXCEPT !.target = s]
    BY DEF PushHeads, Push
  <2> QED
    BY <2>1 DEF PushHeads, Push, Merged, RunInv, Inv, TypeOK, Heads
<1>2. /\ head'.source # head.source => head'.source \notin past["source"]
      /\ head'.target # head.target => head'.target \notin past["target"]
  <2>1. \A side \in {"source", "target"} : head'[side] # head[side] => head'[side] \notin past[side]
    BY DEF PushHeads
  <2> QED
    BY <2>1, <1>1 DEF Heads
<1>3. /\ past'["source"] = past["source"] \union {head'.source}
      /\ past'["target"] = past["target"] \union {head'.target}
  BY <1>1 DEF PushHeads, Heads
<1>4. Nil \notin {head'.source, head'.target}
  BY <1>1, NilAssumption DEF Heads
<1>5. ASSUME NEW p \in Publishers PROVE HistoryOK(job[p])'
  <2>1. HistoryOK(job[p])
    BY <1>1 DEF History
  <2> QED
    BY <1>1, <1>2, <1>3, <1>4, <2>1 DEF HistoryOK
<1> QED
  BY <1>3, <1>5 DEF History

(* The first heads are in the past of their branches.                      *)
LEMMA InitHistory == RunInit => History
BY DEF RunInit, Init, History, HistoryOK, NewJob

(* No step forgets a merge.                                                *)
LEMMA MergedStays ==
    ASSUME RunInv, NEW p \in Publishers, NEW e, Merges(p, e)
    PROVE  Merged'
<1>1. merges \in Seq(Merge) /\ merges' = Append(merges, [pins |-> Desired(p).merge,
                                                         arm |-> Pre(p).arm, at |-> head])
  BY DEF Merges, RunInv, Inv, TypeOK
<1> QED
  BY <1>1 DEF Merged

(* History is an invariant wherever no branch comes back to a commit.      *)
LEMMA HistoryNext ==
    ASSUME ~HeadsReturn, RunInv, History, [RunNext]_runVars
    PROVE  History'
<1>1. ASSUME NEW p \in Publishers, ReconcileStep(p) PROVE History'
  <2>1. PICK e \in Run : \/ Quietly(p, e) \/ Notes(p, e) \/ Resolves(p, e) \/ Posts(p, e)
                         \/ Approves(p, e) \/ Merges(p, e)
    BY <1>1, StepWrites DEF ReconcileStep, RunInv
  <2>2. UNCHANGED jobVars
    BY <1>1 DEF ReconcileStep
  <2>3. CASE Merges(p, e)
    BY <2>3, MergedStays DEF History
  <2>4. CASE UNCHANGED <<head, merges>>
    BY <2>2, <2>4, HistoryStays DEF jobVars, Merged
  <2> QED
    BY <2>1, <2>3, <2>4 DEF Quietly, Notes, Resolves, Posts, Approves, forge
<1>2. ASSUME NEW p \in Publishers, JobStep(p) PROVE History'
  BY <1>1, <1>2, JobHistory DEF JobStep
<1>3. ASSUME NEW p \in Publishers, ReconcileFails(p) PROVE History'
  BY <1>3, HistoryStays DEF ReconcileFails, Fail, jobVars, forge, Merged
<1>4. CASE People
  BY <1>4, HistoryStays DEF People, ReviewerResolves, ReviewerReopens, jobVars, Merged
<1>5. CASE UNCHANGED runVars
  BY <1>5, HistoryStays DEF runVars, vars, forge, Merged
<1> QED
  BY <1>2, <1>3, <1>4, <1>5, JobHistory, PushHistory DEF RunNext

(* The history is kept where branches are not set back.                    *)
LEMMA HistoryHolds == ASSUME ~HeadsReturn PROVE RunSpec => []History
<1>1. RunInv /\ History /\ [RunNext]_runVars => History'
  BY HistoryNext
<1> QED
  BY <1>1, InitHistory, RunInvHolds, PTL DEF RunSpec

(* An atomic merge happens at heads the rules accept, for an APPROVE       *)
(* record of exactly these heads.                                          *)
LEMMA MergeIsPermitted ==
    ASSUME AtomicMerge, RunInv, History, NEW p \in Publishers, NEW e, Merges(p, e)
    PROVE  /\ head \in Permitted
           /\ [source |-> head.source, target |-> head.target, decision |-> "APPROVE"] \in records
<1> DEFINE c == job[p]
           r == run[p]
<1>1. r.pc = "cas"
  BY Current DEF RunInv, Merges, RunOK
<1>2. c.decision = "APPROVE"
  BY <1>1, CallFacts DEF PinnedSteps, CasSteps
<1>3. /\ Desired(p).merge.source = c.source /\ Desired(p).merge.target = c.target
      /\ c.pc = "reconcile" /\ StageOK(c) /\ RecordOf(c) \in records
  BY <1>1, <1>2, CallFacts
<1>4. c.source = head.source /\ c.target = head.target
  BY <1>1, <1>3 DEF Merges
<1>5. /\ c.files \in Shas \ SelfEdit /\ c.factsAt \in Shas \intersect Granting
      /\ <<c.source, c.target>> \in Acceptable
  BY <1>2, <1>3, ContentAssumption DEF StageOK, Judging, Judged
<1>6. HistoryOK(c)
  BY DEF History, Merges
<1>7. c.files = head.source /\ c.factsAt = head.target
  BY <1>4, <1>5, <1>6, NilAssumption DEF HistoryOK
<1>8. head \in Permitted
  BY <1>4, <1>5, <1>7 DEF Permitted, RunInv, Inv, TypeOK
<1> QED
  BY <1>2, <1>3, <1>4, <1>8 DEF RecordOf

-----------------------------------------------------------------------------
(* The merge gate.                                                         *)

(* Of all the steps only three touch what the gate is about.               *)
LEMMA GateMoves ==
    ASSUME RunInv, [RunNext]_runVars
    PROVE  \/ UNCHANGED <<head, merges, records>>
           \/ PushHeads
           \/ \E p \in Publishers : EmitRecord(p)
           \/ \E p \in Publishers, e \in Run : Merges(p, e) /\ records' = records
<1>1. ASSUME NEW p \in Publishers, ReconcileStep(p)
      PROVE  \/ UNCHANGED <<head, merges, records>>
             \/ \E e \in Run : Merges(p, e) /\ records' = records
  <2>1. PICK e \in Run : \/ Quietly(p, e) \/ Notes(p, e) \/ Resolves(p, e) \/ Posts(p, e)
                         \/ Approves(p, e) \/ Merges(p, e)
    BY <1>1, StepWrites DEF ReconcileStep, RunInv
  <2> QED
    BY <1>1, <2>1 DEF ReconcileStep, jobVars, Quietly, Notes, Resolves, Posts, Approves, forge
<1>2. ASSUME NEW p \in Publishers,
             \/ GetMR(p) \/ BranchTip(p) \/ SnapshotMR(p) \/ SnapshotTip(p) \/ SnapshotFiles(p)
             \/ ResolveRunFacts(p) \/ Decide(p) \/ GuardedExit(p) \/ ReconcileReturned(p)
      PROVE  UNCHANGED <<head, merges, records>>
  BY <1>2 DEF GetMR, BranchTip, SnapshotMR, SnapshotTip, SnapshotFiles, ResolveRunFacts, Decide,
              GuardedExit, ReconcileReturned, ReadOnly, vars, forge
<1>3. ASSUME NEW p \in Publishers, StartJob(p) \/ CallReconcile(p) \/ Abort(p) \/ ReconcileFails(p)
      PROVE  UNCHANGED <<head, merges, records>>
  BY <1>3 DEF StartJob, CallReconcile, Abort, ReconcileFails, Enter, Fail, jobVars, forge
<1>4. CASE People
  BY <1>4 DEF People, ReviewerResolves, ReviewerReopens, jobVars
<1>5. CASE UNCHANGED runVars
  BY <1>5 DEF runVars, vars, forge
<1> QED
  BY <1>1, <1>2, <1>3, <1>4, <1>5 DEF RunNext, JobStep

(* What is merged is what the rules accept, evaluated on the very commits  *)
(* that are merged, although the run reads the heads, the changed files    *)
(* and the facts at different moments (run.go 210-221, 312-313).  The code *)
(* relies on two things: the forge compares the pins and merges in one     *)
(* step, and no branch is set back to a commit it had while a run is on.   *)
THEOREM MergesArePermitted ==
    ASSUME AtomicMerge, ~HeadsReturn
    PROVE  RunSpec => []MergedWasPermitted
<1>1. RunInit => MergedWasPermitted
  BY DEF RunInit, Init, MergedWasPermitted
<1>2. RunInv /\ History /\ MergedWasPermitted /\ [RunNext]_runVars => MergedWasPermitted'
  <2> SUFFICES ASSUME RunInv, History, MergedWasPermitted, [RunNext]_runVars
               PROVE  MergedWasPermitted'
    OBVIOUS
  <2>1. ASSUME NEW p \in Publishers, NEW e \in Run, Merges(p, e) PROVE MergedWasPermitted'
    <3> DEFINE new == [pins |-> Desired(p).merge, arm |-> Pre(p).arm, at |-> head]
    <3>1. merges \in Seq(Merge) /\ merges' = Append(merges, new) /\ new.at = head
      BY <2>1 DEF Merges, RunInv, Inv, TypeOK
    <3>2. new.at \in Permitted
      BY <2>1, <3>1, MergeIsPermitted
    <3> HIDE DEF new
    <3>3. \A k \in DOMAIN merges' : (k \in DOMAIN merges /\ merges'[k] = merges[k]) \/ merges'[k] = new
      BY <3>1
    <3> QED
      BY <3>2, <3>3 DEF MergedWasPermitted, Permitted
  <2>2. CASE merges' = merges
    BY <2>2 DEF MergedWasPermitted, Permitted
  <2> QED
    BY <2>1, <2>2, GateMoves DEF PushHeads, Push, EmitRecord, vars, forge
<1> QED
  BY <1>1, <1>2, RunInvHolds, HistoryHolds, PTL DEF RunSpec

(* The orchestration implements the merge gate: whatever the publishers,   *)
(* the reviewers and the pushes do, an observer of the heads, the records  *)
(* and the merges sees pushes, records and at most one merge, of permitted *)
(* heads for which an APPROVE record was already written.                  *)
THEOREM RunImplementsGate ==
    ASSUME AtomicMerge, ~HeadsReturn
    PROVE  RunSpec => ImplementsGate
<1>1. RunInit => G!GateInit
  BY DEF RunInit, Init, G!GateInit, Heads
<1>2. RunInv /\ History /\ [RunNext]_runVars
      => [G!Move \/ G!Write \/ G!MergeHeads]_G!gateVars
  <2> SUFFICES ASSUME RunInv, History, [RunNext]_runVars
               PROVE  [G!Move \/ G!Write \/ G!MergeHeads]_G!gateVars
    OBVIOUS
  <2>1. merges \in Seq(Merge) /\ (~Merged <=> merges = <<>>) /\ head \in Heads
    BY DEF RunInv, Inv, TypeOK, Merged
  <2>2. CASE UNCHANGED <<head, merges, records>>
    BY <2>2 DEF G!gateVars
  <2>3. CASE PushHeads
    <3>1. ~Merged /\ UNCHANGED <<merges, records>>
      BY <2>3 DEF PushHeads, Push
    <3>2. head' \in Heads
      BY <2>1, <2>3 DEF PushHeads, Push, Heads
    <3>3. [k \in DOMAIN merges |-> merges[k].at] = <<>>
      BY <2>1, <3>1
    <3>4. G!Move
      BY <3>1, <3>2, <3>3 DEF G!Move, Heads
    <3> QED
      BY <3>4
  <2>4. ASSUME NEW p \in Publishers, EmitRecord(p) PROVE G!Write
    <3>1. UNCHANGED <<head, merges>> /\ records' = records \union {RecordOf(job[p])}
      BY <2>4 DEF EmitRecord, vars, forge
    <3>2. StageOK(job[p]) /\ job[p].pc = "emit"
      BY <2>4, CurrentJob DEF EmitRecord, At
    <3>3. job[p].source \in Shas /\ job[p].target \in Shas /\ job[p].decision \in Verdicts
      BY <3>2 DEF StageOK, Judged
    <3> QED
      BY <3>1, <3>3 DEF G!Write, RecordOf, Verdicts
  <2>5. ASSUME NEW p \in Publishers, NEW e \in Run, Merges(p, e), records' = records
        PROVE  G!MergeHeads
    <3> DEFINE new == [pins |-> Desired(p).merge, arm |-> Pre(p).arm, at |-> head]
    <3>1. /\ merges = <<>> /\ merges' = Append(merges, new) /\ new.at = head
          /\ head' = [head EXCEPT !.target = MergedTip]
      BY <2>1, <2>5 DEF Merges
    <3>2. /\ head \in Permitted
          /\ [source |-> head.source, target |-> head.target, decision |-> "APPROVE"] \in records
      BY <2>5, MergeIsPermitted
    <3> HIDE DEF new
    <3>3. merges' = <<new>>
      BY <3>1
    <3>4. [k \in DOMAIN merges |-> merges[k].at] = <<>>
      BY <3>1
    <3>5. [k \in DOMAIN merges' |-> merges'[k].at] = <<head>>
      BY <3>1, <3>3
    <3> QED
      BY <2>5, <3>1, <3>2, <3>4, <3>5 DEF G!MergeHeads
  <2> QED
    BY <2>2, <2>3, <2>4, <2>5, GateMoves
<1> QED
  BY <1>1, <1>2, RunInvHolds, HistoryHolds, PTL DEF RunSpec, ImplementsGate, G!GateSpec
=============================================================================
