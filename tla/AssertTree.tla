----------------------------- MODULE AssertTree -----------------------------
(***************************************************************************)
(* The condition of a rule (internal/core/aggregate/asserttree.go): a tree *)
(* of all, any and not over CEL leaves, walked in three values.  A tree is *)
(* a function from 1..n to nodes with the root at 1 and every child above  *)
(* its parent; evaluating a leaf gives true, false or an error.            *)
(***************************************************************************)
EXTENDS Integers, Sequences

CONSTANT MaxAssertDepth
ASSUME DepthAssumption == MaxAssertDepth \in Nat

Outcomes == {"true", "false", "error"}

IsAssertTree(tree) ==
    /\ Len(tree) \in Nat \ {0} /\ DOMAIN tree = 1..Len(tree)
    /\ \A n \in DOMAIN tree : tree[n].kids \subseteq n + 1..Len(tree)

(* Defect: an error in an alternative is ignored.                          *)
ErrorsAreFalse(op, kids) ==
    CASE op = "all" /\ kids # {} -> IF kids = {"true"} THEN "true" ELSE "false"
      [] op = "any" /\ kids # {} -> IF "true" \in kids THEN "true" ELSE "false"
      [] op = "not" /\ kids # {} -> IF "true" \in kids THEN "false" ELSE "true"
      [] OTHER -> "error"

(* walkAssertTreeDepth for a combinator: what its children's values give.  *)
Combine(op, kids) ==
    CASE op = "all" /\ kids # {} ->
            IF "false" \in kids THEN "false" ELSE IF "error" \in kids THEN "error" ELSE "true"
      [] op = "any" /\ kids # {} ->
            IF "true" \in kids THEN "true" ELSE IF "error" \in kids THEN "error" ELSE "false"
      [] op = "not" /\ kids # {} ->
            IF "error" \in kids THEN "error" ELSE IF "true" \in kids THEN "false" ELSE "true"
      [] OTHER -> "error"

WalkAssertTree(tree, leaf) ==
    LET walk[depth \in 0 .. MaxAssertDepth + 1] ==
          [n \in DOMAIN tree |->
             IF depth > MaxAssertDepth THEN "error"
             ELSE IF tree[n].op = "leaf" THEN leaf[n]
             ELSE Combine(tree[n].op, {walk[depth + 1][k] : k \in tree[n].kids})]
    IN walk[0][1]
=============================================================================
