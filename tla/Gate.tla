--------------------------------- MODULE Gate --------------------------------
(***************************************************************************)
(* What the merge gate promises, with no publisher, thread or API call:    *)
(* a merge request is merged at most once, at heads for which an APPROVE   *)
(* record was written and which the rules accept.                          *)
(***************************************************************************)
EXTENDS Sequences

CONSTANTS
    Shas,       \* commit SHAs
    MergedTip,  \* the target tip the merge itself produces
    Permitted   \* heads the rules accept, evaluated on exactly these commits

VARIABLES
    head,       \* source head and target tip
    records,    \* decision records written
    merged      \* the heads that were merged

gateVars == <<head, records, merged>>

GateInit == head \in [source : Shas, target : Shas] /\ records = {} /\ merged = <<>>

(* Anyone pushes, or the job writes a record.                              *)
Move == merged = <<>> /\ head' \in [source : Shas, target : Shas] /\ UNCHANGED <<records, merged>>
Write ==
    /\ \E s, t \in Shas, d \in {"APPROVE", "REVIEW", "BLOCK"} :
          records' = records \union {[source |-> s, target |-> t, decision |-> d]}
    /\ UNCHANGED <<head, merged>>

MergeHeads ==
    /\ merged = <<>>
    /\ [source |-> head.source, target |-> head.target, decision |-> "APPROVE"] \in records
    /\ head \in Permitted
    /\ merged' = <<head>>
    /\ head' = [head EXCEPT !.target = MergedTip]
    /\ UNCHANGED records

GateSpec == GateInit /\ [][Move \/ Write \/ MergeHeads]_gateVars
==============================================================================
