------------------------------ MODULE MCGitHub ------------------------------
(***************************************************************************)
(* The instance of GitHub for TLC.  Head h1 renames one file and changes   *)
(* another, which fills a page; h2 changes more files than the pages reach *)
(* and lacks the governed file.                                            *)
(***************************************************************************)
EXTENDS GitHubProps, TLC

CONSTANTS h1, h2

Entry(name, old) == [filename |-> name, previous |-> old]
MCDiff == [h \in Heads |->
    CASE h = h1 -> <<Entry("a", "old"), Entry("b", NoPath)>>
      [] h = h2 -> <<Entry("a", NoPath), Entry("b", NoPath), Entry("c", "old"), Entry("d", NoPath)>>]
MCHolds == (Heads \union Bases) \ {h2}
Symmetry == Permutations(Bases)
==============================================================================
