------------------------------ MODULE MCGitLab ------------------------------
(***************************************************************************)
(* The instance of GitLab for TLC.  Head h1 renames a file, h2 changes one *)
(* entry more than the instance serves.                                    *)
(***************************************************************************)
EXTENDS GitLabProps, TLC

CONSTANTS h1, h2, r1, r2

Entry(o, n) == [old |-> o, new |-> n, overflow |-> FALSE]
MCDiff == [h \in Heads |-> IF h = h1 THEN <<Entry("old", "a"), Entry("b", "b")>>
                           ELSE <<Entry("a", "a"), Entry("b", "b"), Entry("c", "c")>>]

Rule(n, who) == [required |-> n, eligible |-> who]
MCRules == {<<>>, <<Rule(1, {r1, Author, Bot})>>,
            <<Rule(0, {}), Rule(0, {})>>, <<Rule(0, {}), Rule(0, {}), Rule(2, {r1, r2})>>,
            [i \in 1..4 |-> Rule(0, {})]}
Symmetry == Permutations(Targets)
==============================================================================
