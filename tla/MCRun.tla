-------------------------------- MODULE MCRun --------------------------------
(***************************************************************************)
(* Instances of Run for TLC.  Commit a is acceptable content, b is not: as *)
(* a source it edits .assent/**, as a target it grants nothing.            *)
(***************************************************************************)
EXTENDS RunProps, TLC

CONSTANTS a, b

RunSlots == {"REVIEW", "BLOCK"}
BadSelfEdit == {b}
OnlyA == {a}
AcceptA == {<<a, a>>, <<a, b>>, <<b, a>>}

(* Every pair buildDesired can produce for these commits.                  *)
RunRequests ==
    {BuildDesired([NewJob EXCEPT !.source = s, !.target = t, !.snapSource = s,
                                 !.snapTarget = t, !.decision = v], arm) :
        s, t \in Shas, v \in Verdicts, arm \in BOOLEAN}

Symmetry == Permutations(Publishers)
==============================================================================
