------------------------------- MODULE Change -------------------------------
(***************************************************************************)
(* From two trees to what the engine judges: the value diff of one file    *)
(* (internal/change: Diff, DiffEntries, Entries, FoldRenames and the       *)
(* ceilings), the path classes of internal/core/classify, and the fold of  *)
(* the whole changed-file set, from a local checkout or from the forge's   *)
(* list (cmd/assent/checkout.go), as orchestrate runs them, and the change *)
(* set assent test assembles for the same file (internal/adoptertest).     *)
(*                                                                         *)
(* A value tree (vnode) is a function from pointers, sequences of keys, to *)
(* nodes, prefix closed.  A file's content is absent, empty, a symlink,    *)
(* undecidable (it does not parse as one mapping, has an alias, anchor,    *)
(* merge key, duplicate key or non-literal value, or is over a size        *)
(* ceiling), or a document: its tree, and the elements of the sequence at  *)
(* the entries root.                                                       *)
(***************************************************************************)
EXTENDS Integers, SequencesExt, FiniteSetsExt

CONSTANTS
    Files, Governed,      \* paths, sequences of segments; the subject
    Contents,             \* what a file may hold, per file
    Configs,              \* entry configurations: [mode, root, projected]
    Identity,             \* list mode: pointer of an element's identity
    MaxDepth, MaxNodes    \* the ceilings of limits.go

ASSUME ChangeAssumption ==
    /\ Governed \in Files
    /\ {MaxDepth, MaxNodes} \subseteq Nat

(* vnode: a scalar has a tag and a literal; a mapping's fields have string *)
(* keys and only a mapping has fields: a sequence is a leaf of the tree.   *)
Nodes == {[kind |-> "map"], [kind |-> "seq"]} \union [kind : {"scalar"}, tag : STRING, lit : STRING]
IsTree(t) ==
    /\ t \in [DOMAIN t -> Nodes] /\ IsFiniteSet(DOMAIN t) /\ <<>> \in DOMAIN t
    /\ \A p \in DOMAIN t :
          /\ p \in Seq(STRING)
          /\ \A k \in 0..Len(p) - 1 : SubSeq(p, 1, k) \in DOMAIN t /\ t[SubSeq(p, 1, k)] = [kind |-> "map"]

(* What parses is a tree, and so is each element of its list.              *)
ASSUME ContentsAssumption ==
    \A f \in Files : \A c \in Contents[f] : c.kind = "doc" =>
        /\ IsTree(c.tree)
        /\ Len(c.elems) \in Nat /\ DOMAIN c.elems = 1..Len(c.elems)
        /\ \A i \in DOMAIN c.elems : IsTree(c.elems[i])

ASSUME ConfigsAssumption == \A e \in Configs : e.root \in Seq(STRING)

VARIABLES
    base, head,     \* the two trees: [Files -> content]
    forge,          \* the forge's changed-file list: [paths, complete]
    cfg,            \* the tool (run on a "checkout" or on the "forge", or "test") and the
                    \* entry configuration of the pack
    run             \* the run: position, changed files left, change set, class

vars == <<base, head, forge, cfg, run>>

Doc(c) == c.kind = "doc"
Symlink(c) == c.kind = "symlink"       \* refused on a checkout, wherever it is on the path
OneSided(b, h) == (b.kind = "absent") # (h.kind = "absent")
Differ == {f \in Files : base[f] # head[f]}

-----------------------------------------------------------------------------
(* The value tree.  A scalar is [kind, tag, lit].                          *)
IsMap(n) == n.kind = "map"
IsScalar(n) == n.kind = "scalar"

(* render: a string is quoted, every other scalar is its literal.          *)
Render(n) == <<n.tag = "str", n.lit>>

(* compareKey: the tag too.                                                *)
CompareKey(n) == <<n.tag, Render(n)>>

Depth(t) == 1 + Max({Len(p) : p \in DOMAIN t})
OverCeiling(t) == Depth(t) > MaxDepth \/ Cardinality(DOMAIN t) > MaxNodes

Change(p, k, old, new) == [path |-> p, kind |-> k, old |-> old, new |-> new, was |-> p, ref |-> <<>>]
None == <<>>
Opaque == [opaque |-> TRUE, changes |-> {}]
Decided(changes) == [opaque |-> FALSE, changes |-> changes]

(* walkNode descends where both sides have a mapping.                      *)
Visited(b, h) ==
    {p \in DOMAIN b \union DOMAIN h :
        \A k \in 0..Len(p) - 1 : LET q == SubSeq(p, 1, k)
                                 IN q \in DOMAIN b \cap DOMAIN h /\ IsMap(b[q]) /\ IsMap(h[q])}

(* A mapping against something else, a sequence, or a one-sided collection *)
(* is out of scope.                                                        *)
Undecidable(b, h, p) ==
    IF p \in DOMAIN b \cap DOMAIN h
    THEN ~(IsMap(b[p]) /\ IsMap(h[p])) /\ ~(IsScalar(b[p]) /\ IsScalar(h[p]))
    ELSE ~IsScalar(IF p \in DOMAIN b THEN b[p] ELSE h[p])

ChangeAt(b, h, p) ==
    IF p \notin DOMAIN h THEN {Change(p, "delete", Render(b[p]), None)}
    ELSE IF p \notin DOMAIN b THEN {Change(p, "add", None, Render(h[p]))}
    ELSE IF IsScalar(b[p]) /\ CompareKey(b[p]) # CompareKey(h[p])
         THEN {Change(p, "modify", Render(b[p]), Render(h[p]))}
         ELSE {}

WalkNode(b, h) ==
    IF \E p \in Visited(b, h) : Undecidable(b, h, p) THEN Opaque
    ELSE Decided(UNION {ChangeAt(b, h, p) : p \in Visited(b, h)})

Parses(c) == Doc(c) /\ ~OverCeiling(c.tree)

Diff(b, h) == IF Parses(b) /\ Parses(h) THEN WalkNode(b.tree, h.tree) ELSE Opaque

-----------------------------------------------------------------------------
(* Entries: the members of a mapping, or the elements of a list by their   *)
(* identity, never by their index.                                         *)
Subtree(t, p) == [q \in {SubSeq(r, Len(p) + 1, Len(r)) : r \in {r \in DOMAIN t : IsPrefix(p, r)}} |-> t[p \o q]]
MapKeys(t, root) == {p[Len(root) + 1] : p \in {p \in DOMAIN t : Len(p) = Len(root) + 1 /\ IsPrefix(root, p)}}

(* entryKeyLabel: a string identity loses its quotes.                      *)
EntryKeyLabel(n) == n.lit

Keyed(elem) == IsMap(elem[<<>>]) /\ Identity \in DOMAIN elem /\ IsScalar(elem[Identity])

(* Defect: of two elements with one identity the first wins.               *)
FirstWins(elems) == \A i \in DOMAIN elems : Keyed(elems[i])

(* indexByIdentity refuses an element without identity, and duplicates.    *)
Indexable(elems) ==
    /\ \A i \in DOMAIN elems : Keyed(elems[i])
    /\ \A i, j \in DOMAIN elems :
          EntryKeyLabel(elems[i][Identity]) = EntryKeyLabel(elems[j][Identity]) => i = j

(* The entries of a document, or Refused: map and list mode of DiffEntries *)
(* and of Entries.                                                         *)
Refused == [refused |-> TRUE]
HasRoot(entries, t) == entries.root \in DOMAIN t
RootIs(entries, t, k) == HasRoot(entries, t) /\ t[entries.root].kind = k

EntriesOf(entries, c) ==
    LET root == entries.root
        at(id) == CHOOSE i \in DOMAIN c.elems : /\ EntryKeyLabel(c.elems[i][Identity]) = id
                                                /\ \A j \in 1..i - 1 : EntryKeyLabel(c.elems[j][Identity]) # id
        ids == {EntryKeyLabel(c.elems[i][Identity]) : i \in DOMAIN c.elems}
    IN IF ~Parses(c) THEN Refused
       ELSE IF entries.mode = "map" /\ RootIs(entries, c.tree, "map")
       THEN [k \in MapKeys(c.tree, root) |-> Subtree(c.tree, Append(root, k))]
       ELSE IF /\ entries.mode = "list" /\ RootIs(entries, c.tree, "seq")
               /\ entries.projected /\ Indexable(c.elems)
       THEN [id \in ids |-> c.elems[at(id)]]
       ELSE Refused

(* diffOneEntry: an entry of one side is an event without a value.         *)
EntryDiff(b, h, k) ==
    LET tag(ch) == [ch EXCEPT !.ref = <<k>>]
        side == IF k \in DOMAIN b THEN Change(<<k>>, "delete", None, None) ELSE Change(<<k>>, "add", None, None)
        walk == WalkNode(b[k], h[k])
    IN IF k \in DOMAIN b /\ k \in DOMAIN h
       THEN [walk EXCEPT !.changes = {tag(ch) : ch \in @}]
       ELSE Decided({tag(side)})

DiffEntries(entries, b, h) ==
    IF entries.mode = "document" THEN Diff(b, h)
    ELSE LET eb == EntriesOf(entries, b)
             eh == EntriesOf(entries, h)
             keys == DOMAIN eb \union DOMAIN eh
         IN IF eb = Refused \/ eh = Refused \/ \E k \in keys : EntryDiff(eb, eh, k).opaque THEN Opaque
            ELSE Decided(UNION {EntryDiff(eb, eh, k).changes : k \in keys})

(* Defect: a value deleted once and added anywhere is a move.              *)
SomePair(dels, adds) == dels # {} /\ adds # {}

(* FoldRenames pairs the one deletion of a value with its one addition.    *)
OnePair(dels, adds) == Cardinality(dels) = 1 /\ Cardinality(adds) = 1

FoldRenames(cs) ==
    LET dels(v) == {c \in cs.changes : c.kind = "delete" /\ c.old = v}
        adds(v) == {c \in cs.changes : c.kind = "add" /\ c.new = v}
        values == {v \in {c.old : c \in cs.changes} : OnePair(dels(v), adds(v))}
        gone == UNION {dels(v) \union adds(v) : v \in values}
        moved(v) == LET d == CHOOSE c \in dels(v) : TRUE
                        a == CHOOSE c \in adds(v) : TRUE
                    IN [Change(a.path, "rename", v, v) EXCEPT !.was = d.path]
    IN IF cs.opaque THEN cs ELSE Decided((cs.changes \ gone) \union {moved(v) : v \in values})

-----------------------------------------------------------------------------
(* classify: the path decides, a leading "./" aside.                       *)
IsPolicyPath(f) == LET g == IF Head(f) = "." THEN Tail(f) ELSE f IN Head(g) = ".assent"
FileClass(f) == IF IsPolicyPath(f) THEN "assent-policy" ELSE "unclassified"

(* Defect: a file that cannot be diffed has no changes to classify.        *)
ClassOfChanges(f, cs) == IF cs.changes = {} THEN "unclassified" ELSE FileClass(f)

FoldClass(f, cs) == FileClass(f)

Init ==
    /\ base \in [Files -> UNION {Contents[f] : f \in Files}]
    /\ head \in [Files -> UNION {Contents[f] : f \in Files}]
    /\ \A f \in Files : {base[f], head[f]} \subseteq Contents[f]
    /\ cfg \in [tool : {"checkout", "forge", "test"}, entries : Configs]
    /\ forge = [paths |-> Differ, complete |-> TRUE]
    /\ run = [at |-> "read", left |-> {}, cs |-> Opaque, class |-> "unclassified"]

At(stage) == run.at = stage
Inputs == UNCHANGED <<base, head, forge, cfg>>

(* An enumeration the adapter cannot prove complete, with paths missing.   *)
ShortList ==
    /\ At("read") /\ cfg.tool = "forge" /\ forge.complete
    /\ \E s \in SUBSET Differ : forge' = [paths |-> s, complete |-> FALSE]
    /\ UNCHANGED <<base, head, cfg, run>>

FileEvent(b) == Decided({Change(None, IF b.kind = "absent" THEN "add" ELSE "delete", None, None)})

(* fileAtBaseOrAbsent, dirCheckout.FileContents, changeSetForGoverned: one *)
(* side absent is a whole-file event.                                      *)
ReadGoverned ==
    LET b == base[Governed]
        h == head[Governed]
        cs == IF OneSided(b, h) THEN FileEvent(b) ELSE Diff(b, h)
    IN /\ At("read") /\ cfg.tool # "test"
       /\ IF cfg.tool = "checkout" /\ (Symlink(b) \/ Symlink(h))
          THEN run' = [run EXCEPT !.at = "failed"]
          ELSE run' = [run EXCEPT !.at = "list", !.cs = cs,
                                  !.class = IF cs.changes = {} THEN @ ELSE FileClass(Governed)]
       /\ Inputs

(* adoptertest.assemble: the same, with the entries the pack declares; the *)
(* objects of Entries are attached to the changes by their EntryRef.       *)
Assemble ==
    LET b == base[Governed]
        h == head[Governed]
        cs == IF OneSided(b, h) THEN FileEvent(b) ELSE DiffEntries(cfg.entries, b, h)
    IN /\ At("read") /\ cfg.tool = "test"
       /\ run' = [run EXCEPT !.at = "assembled", !.cs = cs]
       /\ Inputs

(* dirCheckout.ChangedFiles: bytes.Equal takes an absent side for an empty *)
(* file.  A symlink or special file anywhere ends the run.                 *)
Bytes(c) == IF c.kind = "absent" THEN [kind |-> "empty"] ELSE c
ChangedFiles == {f \in Files : Bytes(base[f]) # Bytes(head[f])}

ListCheckout ==
    /\ At("list") /\ cfg.tool = "checkout"
    /\ run' = IF \E f \in Files : Symlink(base[f]) \/ Symlink(head[f])
              THEN [run EXCEPT !.at = "failed"]
              ELSE [run EXCEPT !.at = "fold", !.left = ChangedFiles]
    /\ Inputs

(* foldCheckout, one file: the class of its path, and opaque when its diff *)
(* is; only the subject may come or go as a whole.                         *)
FoldFile ==
    /\ At("fold")
    /\ \E f \in run.left :
          LET cs == Diff(base[f], head[f])
              clean == f = Governed /\ OneSided(base[f], head[f])
          IN run' = [run EXCEPT !.left = @ \ {f},
                                !.class = IF FoldClass(f, cs) = "assent-policy" THEN "assent-policy" ELSE @,
                                !.cs.opaque = @ \/ (cs.opaque /\ ~clean)]
    /\ Inputs

(* foldSnapshotPaths: the forge's list, and its completeness.              *)
FoldSnapshot ==
    /\ At("list") /\ cfg.tool = "forge"
    /\ run' = [run EXCEPT !.at = "judged",
                          !.class = IF \E f \in forge.paths : IsPolicyPath(f) THEN "assent-policy" ELSE @,
                          !.cs.opaque = @ \/ ~forge.complete]
    /\ Inputs

Folded == At("fold") /\ run.left = {} /\ run' = [run EXCEPT !.at = "judged"] /\ Inputs

Ended == run.at \in {"judged", "failed", "assembled"} /\ UNCHANGED vars

Next == ReadGoverned \/ Assemble \/ ShortList \/ ListCheckout \/ FoldFile \/ FoldSnapshot \/ Folded \/ Ended

Spec == Init /\ [][Next]_vars
=============================================================================
