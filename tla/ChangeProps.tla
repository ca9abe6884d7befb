----------------------------- MODULE ChangeProps -----------------------------
(***************************************************************************)
(* What the engine relies on when it judges a change set: that it tells    *)
(* the whole difference, and that nothing else changed unnoticed.          *)
(***************************************************************************)
EXTENDS Change

(* Replaying changes on a tree, as their values print.                     *)
Printed(t) == [p \in DOMAIN t |-> IF IsScalar(t[p]) THEN Render(t[p]) ELSE <<t[p].kind>>]
Replay(t, changes) ==
    LET gone == {c.path : c \in {c \in changes : c.kind = "delete"}}
                  \union {c.was : c \in {c \in changes : c.kind = "rename"}}
        set == {c \in changes : c.kind # "delete"}
        to(p) == {c.new : c \in {c \in set : c.path = p}}
    IN [p \in (DOMAIN t \ gone) \union {c.path : c \in set} |->
           IF to(p) # {} THEN CHOOSE v \in to(p) : TRUE ELSE Printed(t)[p]]

(* A decided diff is the whole difference: replayed on the base document   *)
(* its changes give the head document, with its moves folded or not, and   *)
(* every value whose type or text differs is among them (Diff, walkNode,   *)
(* FoldRenames).                                                           *)
DiffTellsAll ==
    LET b == base[Governed]
        h == head[Governed]
        cs == Diff(b, h)
    IN (run.at = "list" /\ ~cs.opaque) =>
          /\ Replay(b.tree, cs.changes) = Printed(h.tree)
          /\ Replay(b.tree, FoldRenames(cs).changes) = Printed(h.tree)
          /\ \A p \in DOMAIN b.tree \cap DOMAIN h.tree :
                b.tree[p] # h.tree[p] => \E c \in cs.changes : c.path = p /\ c.kind = "modify"

(* A decided diff of entries agrees with the entries of the two documents: *)
(* the entries it names are those that came, went or differ, whatever the  *)
(* order of a list, and none stands for two (DiffEntries, Entries).        *)
EntryChangesAreTheEntries ==
    LET eb == EntriesOf(cfg.entries, base[Governed])
        eh == EntriesOf(cfg.entries, head[Governed])
        refs == {c.ref[1] : c \in run.cs.changes}
        size(c, e) == cfg.entries.mode = "list" => Cardinality(DOMAIN e) = Len(c.elems)
    IN (/\ run.at = "assembled" /\ cfg.entries.mode # "document" /\ ~run.cs.opaque
        /\ ~OneSided(base[Governed], head[Governed])) =>
          /\ refs =
                {k \in DOMAIN eb \union DOMAIN eh : k \notin DOMAIN eb \cap DOMAIN eh \/ eb[k] # eh[k]}
          /\ size(base[Governed], eb) /\ size(head[Governed], eh)

(* A policy edit never hides, not even behind its own opacity: the class   *)
(* is assent-policy, or the forge's list was incomplete and the set is     *)
(* opaque.  And a set that is neither leaves nothing unseen: on a checkout *)
(* every other changed file is a decided value diff (foldCheckout,         *)
(* foldSnapshotPaths).  Files that are empty on the only side they exist   *)
(* are the exception on a checkout.                                        *)
NothingElseChanged ==
    LET seen == {f \in Differ : cfg.tool = "checkout" => Bytes(base[f]) # Bytes(head[f])}
        edits == {f \in seen : IsPolicyPath(f)}
    IN run.at = "judged" =>
          /\ edits # {} => run.class = "assent-policy" \/ (~forge.complete /\ run.cs.opaque)
          /\ (cfg.tool = "checkout" /\ ~run.cs.opaque) =>
                \A f \in seen \ {Governed} : ~Diff(base[f], head[f]).opaque

(* "bytes.Equal(nil, x) is false for a present-on-one-side file, so an     *)
(* add/delete counts as changed" (checkout.go:89): every file that comes   *)
(* or goes is in the changed-file set.                                     *)
OneSidedIsChanged ==
    run.at = "judged" /\ cfg.tool = "checkout" =>
        \A f \in Files : OneSided(base[f], head[f]) => f \in ChangedFiles
==============================================================================
