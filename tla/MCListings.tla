----------------------------- MODULE MCListings -----------------------------
(***************************************************************************)
(* The instance of Listings for TLC: three rows to begin with, two to a    *)
(* page, and room for a board the page cap cannot cover.                   *)
(***************************************************************************)
EXTENDS ListingsProps

Board(own, resolved) ==
    [i \in 1..3 |-> [id |-> i, own |-> i \in own, legible |-> TRUE, resolved |-> i \in resolved]]

MCBoards == [threads |-> {Board(own, res) : own \in {{1, 3}, {3}}, res \in {{}, {3}, {1, 2}}},
             notes   |-> {Board({}, {}), Board({3}, {})}]
==============================================================================
