------------------------------ MODULE RunProps -------------------------------
(***************************************************************************)
(* What `assent run` promises, over the behaviours of module Run.          *)
(***************************************************************************)
EXTENDS Run

(* The heads the rules accept, evaluated on exactly these commits.         *)
Permitted ==
    {h \in Heads : /\ h.source \notin SelfEdit
                   /\ <<h.source, h.target>> \in Acceptable /\ h.target \in Granting}

(* "The forge is never mutated for a decision whose record could not be    *)
(* written" (run.go 188-189, 473-486): every thread, summary, approval and *)
(* merge on the forge belongs to a record that was emitted before it.      *)
NoWriteWithoutRecord ==
    /\ \A i \in DOMAIN threads :
          \E r \in records : r.decision = threads[i].slot /\ r.source = threads[i].occurrence
    /\ \A i \in DOMAIN notes : notes[i].decision \in records
    /\ approvals # {} => \E r \in records : r.decision = "APPROVE"
    /\ \A k \in DOMAIN merges :
          [source |-> merges[k].pins.source, target |-> merges[k].pins.target,
           decision |-> "APPROVE"] \in records

(* What is merged is what the rules accept, evaluated on the very commits  *)
(* that are merged, although the run reads the heads, the changed files    *)
(* and the facts at different moments (run.go 210-221, 312-313).           *)
MergedWasPermitted == \A k \in DOMAIN merges : merges[k].at \in Permitted

(* Exit code 0 on REVIEW or BLOCK is never silent: unless the run is one   *)
(* that may not write, the challenge for the judged content is on the MR.  *)
ReviewIsPosted ==
    \A p \in Publishers :
        (job[p].exit = 0 /\ job[p].decision \in {"REVIEW", "BLOCK"} /\ ~ZeroWrites(job[p])) =>
            \E i \in Listed(threads) :
                threads[i].slot = job[p].decision /\ threads[i].occurrence = job[p].source

(* A self-edit or fork run writes nothing, and a run that did not decide   *)
(* APPROVE neither approves nor merges, whatever else fails or moves       *)
(* (GUARD 1 and GUARD 2, run.go 488-498).                                  *)
WritesFollowDecision ==
    \A p \in Publishers : Active(p) \/ At(p, "exited") =>
        /\ forkMR \/ job[p].files \in SelfEdit => run[p].writes = {}
        /\ job[p].decision # "APPROVE" => run[p].writes \subseteq {"note", "thread", "resolve"}
        /\ job[p].decision = "APPROVE" => run[p].writes \subseteq {"note", "approval", "merge"}

(* Every started run exits.                                                *)
EveryJobExits == \A p \in Publishers : Active(p) ~> At(p, "exited")

G == INSTANCE Gate WITH merged <- [k \in DOMAIN merges |-> merges[k].at]

(* The orchestration implements the abstract merge gate.                   *)
ImplementsGate == G!GateSpec
==============================================================================
