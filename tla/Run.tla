--------------------------------- MODULE Run ---------------------------------
(***************************************************************************)
(* `assent run` (cmd/assent/run.go, orchestrate): read the MR, take the    *)
(* forge snapshot, load the policy, resolve facts, decide, emit the        *)
(* decision record, reconcile, exit.  Each read of forge state that can    *)
(* change under the run is a step of its own; the writes are the steps of  *)
(* module Reconcile.                                                       *)
(*                                                                         *)
(* A commit's content is abstracted to what the decision reads from it:    *)
(* whether the change touches .assent/** (SelfEdit), whether the governed  *)
(* file at a source commit meets the policy at a target commit             *)
(* (Acceptable), and whether the provider declarations and the owner       *)
(* registry at a target commit yield the facts the policy needs (Granting).*)
(***************************************************************************)
EXTENDS Reconcile

CONSTANTS
    SelfEdit,     \* source commits whose changed files include .assent/**
    Acceptable,   \* pairs <<source, target>> whose governed change the policy accepts
    Granting,     \* target commits whose declarations and registry grant it
    HeadsReturn   \* a branch may be set back to a commit it had before

ASSUME ContentAssumption ==
    /\ SelfEdit \subseteq Shas /\ Granting \subseteq Shas
    /\ Acceptable \subseteq Shas \X Shas
    /\ HeadsReturn \in BOOLEAN
ASSUME ExitAssumption == Nil \notin {0, 1}

VARIABLES
    job,       \* per publisher: the `assent run` process
    records,   \* decision records written to --emit
    forkMR,    \* the MR comes from a fork (fixed for its life)
    past       \* history: the commits each branch has pointed at

runVars == <<vars, job, records, forkMR, past>>
jobVars == <<job, records, forkMR, past>>

Verdicts == {"APPROVE", "REVIEW", "BLOCK"}
Record == [source : Shas, target : Shas, decision : Verdicts]
Stages == {"idle", "getMR", "branchTip", "snapMR", "snapTip", "changedFiles", "facts",
           "decide", "emit", "guards", "reconcile", "exited"}
Job == [pc : Stages,
        source : Shas \union {Nil}, target : Shas \union {Nil},         \* info: the pins
        snapSource : Shas \union {Nil}, snapTarget : Shas \union {Nil}, \* snapshot.Heads
        files : Shas \union {Nil},     \* the source head the changed-file list describes
        complete : BOOLEAN,            \* ChangedFilesComplete
        eligible : BOOLEAN,            \* probe.ArmEligible
        factsAt : Shas \union {Nil},   \* the target tip the facts were read from
        decision : Verdicts \union {Nil},
        code : {"covered", "finding", "undecidable", "self-edit", Nil},  \* the driving finding
        exit : {0, 1, Nil}]

NewJob == [pc |-> "getMR", source |-> Nil, target |-> Nil, snapSource |-> Nil, snapTarget |-> Nil,
           files |-> Nil, complete |-> FALSE, eligible |-> FALSE, factsAt |-> Nil,
           decision |-> Nil, code |-> Nil, exit |-> Nil]

RunInit ==
    /\ Init
    /\ job = [p \in Publishers |-> [NewJob EXCEPT !.pc = "idle"]]
    /\ records = {}
    /\ forkMR \in BOOLEAN
    /\ past = [source |-> {head.source}, target |-> {head.target}]

-----------------------------------------------------------------------------
Active(p) == job[p].pc \notin {"idle", "exited"}
Exited(j, code) == [j EXCEPT !.pc = "exited", !.exit = code]
SetJob(p, j) == job' = [job EXCEPT ![p] = j]
At(p, stage) == job[p].pc = stage
ReadOnly == UNCHANGED <<vars, records, forkMR, past>>

RecordOf(j) == [source |-> j.source, target |-> j.target, decision |-> j.decision]

StartJob(p) ==
    /\ ~Active(p)
    /\ Serialized => \A q \in Publishers : ~Active(q)
    /\ Spend("runs")
    /\ SetJob(p, NewJob)
    /\ run' = [run EXCEPT ![p] = IdleRun]
    /\ UNCHANGED <<forge, disturbed, records, forkMR, past>>

(* GetMR: the MR, then the tip of its target branch.                       *)
GetMR(p) ==
    /\ At(p, "getMR")
    /\ SetJob(p, [job[p] EXCEPT !.pc = "branchTip", !.source = head.source])
    /\ ReadOnly

BranchTip(p) ==
    /\ At(p, "branchTip")
    /\ SetJob(p, [job[p] EXCEPT !.pc = "snapMR", !.target = head.target])
    /\ ReadOnly

(* Snapshot: the MR and the tip again, then the changed files and settings. *)
SnapshotMR(p) ==
    /\ At(p, "snapMR")
    /\ SetJob(p, [job[p] EXCEPT !.pc = "snapTip", !.snapSource = head.source])
    /\ ReadOnly

SnapshotTip(p) ==
    /\ At(p, "snapTip")
    /\ SetJob(p, [job[p] EXCEPT !.pc = "changedFiles", !.snapTarget = head.target])
    /\ ReadOnly

(* The snapshot ends with the changed-file list, whose completeness may not *)
(* be provable, and the capability probe.  Heads that moved between the MR  *)
(* read and the snapshot end the run.                                       *)
SnapshotFiles(p) ==
    /\ At(p, "changedFiles")
    /\ \E complete, eligible \in BOOLEAN :
          SetJob(p, IF job[p].snapSource = job[p].source /\ job[p].snapTarget = job[p].target
                      THEN [job[p] EXCEPT !.pc = "facts", !.files = head.source,
                                          !.complete = complete, !.eligible = eligible]
                      ELSE Exited(job[p], 1))
    /\ ReadOnly

(* The policy and the governed file are read at the pinned commits, so they *)
(* need no step; declarations and registry are read at the branch's name.   *)
ResolveRunFacts(p) ==
    /\ At(p, "facts")
    /\ SetJob(p, [job[p] EXCEPT !.pc = "decide", !.factsAt = head.target])
    /\ ReadOnly

(* Defect: an unresolved fact does not stand in the way of an approval.    *)
FactsIgnored(j) ==
    CASE j.files \in SelfEdit -> {<<"BLOCK", "self-edit">>}
      [] j.files \notin SelfEdit /\ j.complete
         /\ <<j.source, j.target>> \in Acceptable ->
            {<<"APPROVE", "covered">>, <<"REVIEW", "finding">>}
      [] OTHER -> {<<"REVIEW", "finding">>, <<"BLOCK", "finding">>}

(* aggregate.Decide: a self-edit blocks, an undecidable change set needs a  *)
(* review, otherwise coverage decides; missing approval evidence may still  *)
(* turn what coverage accepts into a review.                                *)
Verdict(j) ==
    CASE j.files \in SelfEdit -> {<<"BLOCK", "self-edit">>}
      [] j.files \notin SelfEdit /\ ~j.complete -> {<<"REVIEW", "undecidable">>}
      [] j.files \notin SelfEdit /\ j.complete
         /\ <<j.source, j.target>> \in Acceptable /\ j.factsAt \in Granting ->
            {<<"APPROVE", "covered">>, <<"REVIEW", "finding">>}
      [] OTHER -> {<<"REVIEW", "finding">>, <<"BLOCK", "finding">>}

Decide(p) ==
    /\ At(p, "decide")
    /\ \E v \in Verdict(job[p]) :
          SetJob(p, [job[p] EXCEPT !.pc = "emit", !.decision = v[1], !.code = v[2]])
    /\ ReadOnly

(* Defect: a record that cannot be written is a warning.                   *)
EmitFailureIgnored(p) ==
    /\ At(p, "emit")
    /\ records' \in {records, records \union {RecordOf(job[p])}}
    /\ SetJob(p, [job[p] EXCEPT !.pc = "guards"])
    /\ UNCHANGED <<vars, forkMR, past>>

(* Defect: a record replaces the ones before it.                           *)
EmitOverwrites(p) ==
    /\ At(p, "emit")
    /\ records' = {RecordOf(job[p])}
    /\ SetJob(p, [job[p] EXCEPT !.pc = "guards"])
    /\ UNCHANGED <<vars, forkMR, past>>

(* The record is validated and written before any forge write.             *)
EmitRecord(p) ==
    /\ At(p, "emit")
    /\ records' = records \union {RecordOf(job[p])}
    /\ SetJob(p, [job[p] EXCEPT !.pc = "guards"])
    /\ UNCHANGED <<vars, forkMR, past>>

(* buildDesired: APPROVE wants approval and merge pinned to the evaluated   *)
(* heads; REVIEW and BLOCK want one thread on the judged head content.      *)
BuildDesired(j, arm) ==
    LET approve == j.decision = "APPROVE"
        pins == [source |-> j.source, target |-> j.target,
                 digest |-> SyntheticDigest(j.snapSource, j.snapTarget)]
    IN [desired |-> [clearSlot |-> Nil,
                     thread |-> IF approve THEN Nil
                                ELSE [slot |-> j.decision, occurrence |-> j.source],
                     approve |-> approve,
                     merge |-> IF approve THEN pins ELSE Nil,
                     summary |-> RecordOf(j)],
        pre |-> IF approve
                  THEN [arm |-> arm, source |-> pins.source, target |-> pins.target,
                        digest |-> pins.digest]
                  ELSE [arm |-> FALSE, source |-> Nil, target |-> Nil, digest |-> NoDigest]]

(* Reconcile is called with what buildDesired builds, so that is among the  *)
(* requests it is asked to handle.                                          *)
ASSUME DesiredAssumption ==
    \A s, t \in Shas, v \in Verdicts, arm \in BOOLEAN :
        BuildDesired([NewJob EXCEPT !.source = s, !.target = t, !.snapSource = s,
                                    !.snapTarget = t, !.decision = v], arm) \in Requests

(* Defect: only the fork guard is left.                                    *)
ForkGuardOnly(j) == forkMR

ReservedSelfEditBlock(j) == j.decision = "BLOCK" /\ j.code = "self-edit"
ZeroWrites(j) == ReservedSelfEditBlock(j) \/ forkMR

(* A self-edit and a fork MR end here; otherwise the controlling facts are  *)
(* checked once more, now, and Reconcile is called.                         *)
GuardedExit(p) ==
    /\ At(p, "guards") /\ ZeroWrites(job[p])
    /\ SetJob(p, Exited(job[p], 0))
    /\ ReadOnly

CallReconcile(p) ==
    /\ At(p, "guards") /\ ~ZeroWrites(job[p])
    /\ \E factsFresh \in BOOLEAN : Enter(p, BuildDesired(job[p], job[p].eligible /\ factsFresh))
    /\ SetJob(p, [job[p] EXCEPT !.pc = "reconcile"])
    /\ UNCHANGED <<budget, records, forkMR, past>>

(* Defect: every error of Reconcile is reported as a refusal.              *)
EveryErrorIsFailClosed(outcome) == outcome # "none"

IsFailClosed(outcome) == outcome \in Refusals

(* Defect: the run goes on only when Reconcile succeeded.                  *)
WaitForSuccess(p) ==
    /\ At(p, "reconcile") /\ run[p].pc = "idle" /\ run[p].outcome = "ok"
    /\ SetJob(p, Exited(job[p], 0))
    /\ ReadOnly

ReconcileReturned(p) ==
    /\ At(p, "reconcile") /\ run[p].pc = "idle"
    /\ SetJob(p, Exited(job[p], IF run[p].outcome = "ok" \/ IsFailClosed(run[p].outcome)
                                  THEN 0 ELSE 1))
    /\ ReadOnly

(* A read, a load, the validation or the record write fails: exit 1.       *)
Abort(p) ==
    /\ Active(p) /\ ~At(p, "guards") /\ ~At(p, "reconcile")
    /\ Spend("faults")
    /\ SetJob(p, Exited(job[p], 1))
    /\ UNCHANGED <<forge, run, disturbed, records, forkMR, past>>

ReconcileStep(p) == Step(p) /\ UNCHANGED jobVars
ReconcileFails(p) == Fail(p) /\ UNCHANGED jobVars

-----------------------------------------------------------------------------
PushHeads ==
    /\ Push
    /\ HeadsReturn \/ \A side \in {"source", "target"} :
                          head'[side] # head[side] => head'[side] \notin past[side]
    /\ past' = [side \in {"source", "target"} |-> past[side] \union {head'[side]}]
    /\ UNCHANGED <<job, records, forkMR>>

People == (ReviewerResolves \/ ReviewerReopens) /\ UNCHANGED jobVars

JobStep(p) ==
    \/ GetMR(p) \/ BranchTip(p) \/ SnapshotMR(p) \/ SnapshotTip(p) \/ SnapshotFiles(p)
    \/ ResolveRunFacts(p) \/ Decide(p) \/ EmitRecord(p) \/ GuardedExit(p) \/ CallReconcile(p)
    \/ ReconcileReturned(p)
    \/ ReconcileStep(p)

RunNext ==
    \/ \E p \in Publishers : StartJob(p) \/ JobStep(p) \/ Abort(p) \/ ReconcileFails(p)
    \/ People \/ PushHeads

RunSpec == RunInit /\ [][RunNext]_runVars
FairRunSpec == RunSpec /\ \A p \in Publishers : WF_runVars(JobStep(p))
==============================================================================
