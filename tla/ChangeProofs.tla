---------------------------- MODULE ChangeProofs -----------------------------
(***************************************************************************)
(* What the engine relies on in a change set, for any files, any documents *)
(* whose values are trees and any entry configuration.                     *)
(*                                                                         *)
(* The first part is the run: ChangeInv says what has been folded so far,  *)
(* and that the inputs are those the run started with.  The second is      *)
(* about two trees: a walk that decides has visited every node of both     *)
(* (AllVisited, by the shortest pointer it could have missed), so its      *)
(* changes are the difference, and folding moves keeps what they take and  *)
(* put.  The third carries this to entries: subtrees of a mapping are      *)
(* trees, and an index by identity is one to one.                          *)
(***************************************************************************)
EXTENDS ChangeProps, FiniteSetTheorems, FunctionTheorems, SequenceTheorems, NaturalsInduction, WellFoundedInduction, TLAPS

-----------------------------------------------------------------------------
(* The fold over the changed files: what has been folded is in the class    *)
(* and in the opacity of the set (foldCheckout).                            *)
FoldedSoFar ==
    \A f \in ChangedFiles \ run.left :
        /\ IsPolicyPath(f) => run.class = "assent-policy"
        /\ (f # Governed /\ Diff(base[f], head[f]).opaque) => run.cs.opaque

(* The forge's list: complete, or known not to be (foldSnapshotPaths).      *)
SnapshotFolded ==
    /\ (\E f \in forge.paths : IsPolicyPath(f)) => run.class = "assent-policy"
    /\ ~forge.complete => run.cs.opaque

(* The shape of the run's record.                                           *)
RunShape ==
    /\ \E a, l, o, c, k : /\ run = [at |-> a, left |-> l, cs |-> [opaque |-> o, changes |-> c], class |-> k]
                          /\ o \in BOOLEAN
    /\ forge.complete \in BOOLEAN

(* The inductive invariant of a run: its inputs are those of Init, but for  *)
(* a forge whose list may have become incomplete; the set carries what was  *)
(* folded; what is assembled is the diff of the entries.                    *)
ChangeInv ==
    /\ RunShape
    /\ \A f \in Files : {base[f], head[f]} \subseteq Contents[f]
    /\ cfg.entries \in Configs
    /\ forge.complete => forge.paths = Differ
    /\ At("list") => cfg.tool # "test"
    /\ At("fold") => cfg.tool = "checkout" /\ FoldedSoFar
    /\ At("judged") => \/ cfg.tool = "checkout" /\ run.left = {} /\ FoldedSoFar
                       \/ cfg.tool = "forge" /\ SnapshotFolded
    /\ At("assembled") =>
          run.cs = IF OneSided(base[Governed], head[Governed]) THEN FileEvent(base[Governed])
                   ELSE DiffEntries(cfg.entries, base[Governed], head[Governed])

(* A change set is opaque or it is not, and has changes (ChangeSet).        *)
IsChangeSet(cs) == \E o, c : cs = [opaque |-> o, changes |-> c] /\ o \in BOOLEAN

(* Both ways to make a change set make one.                                 *)
LEMMA Made ==
    IsChangeSet(Opaque) /\ \A x : IsChangeSet(Decided(x))
<1>1. IsChangeSet(Opaque)
  BY DEF IsChangeSet, Opaque
<1>2. ASSUME NEW x PROVE IsChangeSet(Decided(x))
  BY DEF IsChangeSet, Decided
<1> QED
  BY <1>1, <1>2

(* A diff is a change set (Diff).                                           *)
LEMMA DiffShape ==
    ASSUME NEW b, NEW h
    PROVE  IsChangeSet(Diff(b, h))
<1>1. PICK x : x = UNION {ChangeAt(b.tree, h.tree, p) : p \in Visited(b.tree, h.tree)}
  OBVIOUS
<1>2. Diff(b, h) \in {Opaque, Decided(x)}
  BY <1>1 DEF Diff, WalkNode
<1> QED
  BY <1>2, Made

(* The inductive invariant holds in the initial states.                     *)
LEMMA ChangeInit == Init => ChangeInv
<1> SUFFICES ASSUME Init PROVE ChangeInv
  OBVIOUS
<1>1. RunShape
  BY DEF Init, RunShape, Opaque
<1>2. cfg.entries \in Configs
  BY DEF Init
<1> QED
  BY <1>1, <1>2 DEF Init, ChangeInv, At

(* What a step leaves of the inputs.                                        *)
LEMMA InputsFixed ==
    ASSUME base' = base, head' = head
    PROVE  ChangedFiles' = ChangedFiles /\ Differ' = Differ
  BY DEF ChangedFiles, Differ

(* The steps before the fold begin with nothing folded.                     *)
LEMMA BeforeFold ==
    ASSUME ChangeInv, RunShape',
           ReadGoverned \/ Assemble \/ ShortList \/ ListCheckout
    PROVE  ChangeInv'
<1>1. PICK a, l, o, c, k : /\ run = [at |-> a, left |-> l, cs |-> [opaque |-> o, changes |-> c], class |-> k]
                           /\ o \in BOOLEAN
  BY DEF ChangeInv, RunShape
<1>2. base' = base /\ head' = head /\ cfg' = cfg
  BY DEF ReadGoverned, Assemble, ShortList, ListCheckout, Inputs
<1>3. ChangedFiles' = ChangedFiles /\ Differ' = Differ
  BY <1>2, InputsFixed
<1>4. CASE ReadGoverned
  <2>1. forge' = forge /\ cfg.tool # "test" /\ run'.at \in {"failed", "list"}
    BY <1>1, <1>4 DEF ReadGoverned, Inputs
  <2> QED
    BY <1>2, <1>3, <2>1 DEF ChangeInv, At
<1>5. CASE Assemble
  <2>1. PICK cs : cs = IF OneSided(base[Governed], head[Governed]) THEN FileEvent(base[Governed])
                       ELSE DiffEntries(cfg.entries, base[Governed], head[Governed])
    OBVIOUS
  <2>2. forge' = forge /\ run' = [run EXCEPT !.at = "assembled", !.cs = cs]
    BY <1>5, <2>1 DEF Assemble, Inputs
  <2>3. run'.at = "assembled" /\ run'.cs = cs
    BY <1>1, <2>2
  <2>4. cs = (IF OneSided(base[Governed], head[Governed]) THEN FileEvent(base[Governed])
              ELSE DiffEntries(cfg.entries, base[Governed], head[Governed]))'
    BY <1>2, <2>1
  <2> QED
    BY <1>2, <1>3, <2>2, <2>3, <2>4 DEF ChangeInv, At
<1>6. CASE ShortList
  <2>1. run' = run /\ At("read") /\ ~forge'.complete
    BY <1>6 DEF ShortList
  <2> QED
    BY <1>2, <1>3, <2>1 DEF ChangeInv, At
<1>7. CASE ListCheckout
  <2>1. forge' = forge /\ cfg.tool = "checkout"
    BY <1>7 DEF ListCheckout, Inputs
  <2>2. run'.at = "failed" \/ (run'.at = "fold" /\ run'.left = ChangedFiles)
    BY <1>1, <1>7 DEF ListCheckout
  <2>3. run'.at = "fold" => FoldedSoFar'
    BY <1>3, <2>2 DEF FoldedSoFar
  <2> QED
    BY <1>2, <1>3, <2>1, <2>2, <2>3 DEF ChangeInv, At
<1> QED
  BY <1>4, <1>5, <1>6, <1>7

(* The fold of one file, of the forge's list, and the end of the fold.      *)
LEMMA DuringFold ==
    ASSUME ChangeInv, RunShape', FoldFile \/ FoldSnapshot \/ Folded
    PROVE  ChangeInv'
<1>1. PICK a, l, o, c, k : /\ run = [at |-> a, left |-> l, cs |-> [opaque |-> o, changes |-> c], class |-> k]
                           /\ o \in BOOLEAN
  BY DEF ChangeInv, RunShape
<1>2. base' = base /\ head' = head /\ cfg' = cfg /\ forge' = forge
  BY DEF FoldFile, FoldSnapshot, Folded, Inputs
<1>3. ChangedFiles' = ChangedFiles /\ Differ' = Differ
  BY <1>2, InputsFixed
<1>4. CASE FoldFile
  <2>1. PICK f \in run.left :
            run' = [run EXCEPT !.left = @ \ {f},
                               !.class = IF FoldClass(f, Diff(base[f], head[f])) = "assent-policy" THEN "assent-policy" ELSE @,
                               !.cs.opaque = @ \/ (Diff(base[f], head[f]).opaque
                                                  /\ ~(f = Governed /\ OneSided(base[f], head[f])))]
    BY <1>4 DEF FoldFile
  <2>2. PICK d : d \in BOOLEAN /\ (d <=> (Diff(base[f], head[f]).opaque /\ ~(f = Governed /\ OneSided(base[f], head[f]))))
    OBVIOUS
  <2>3. /\ run'.at = a /\ run'.left = l \ {f} /\ run'.class = (IF IsPolicyPath(f) THEN "assent-policy" ELSE k)
        /\ run'.cs.opaque <=> (o \/ d)
    BY <1>1, <2>1, <2>2 DEF FoldClass, FileClass
  <2>4. At("fold") /\ FoldedSoFar /\ cfg.tool = "checkout"
    BY <1>4 DEF FoldFile, ChangeInv
  <2>5. FoldedSoFar'
    <3> SUFFICES ASSUME NEW g \in ChangedFiles, g \notin run'.left
                 PROVE  /\ IsPolicyPath(g) => run'.class = "assent-policy"
                        /\ (g # Governed /\ Diff(base[g], head[g]).opaque) => run'.cs.opaque
      BY <1>2, <1>3 DEF FoldedSoFar
    <3>1. CASE g = f
      BY <2>2, <2>3, <3>1
    <3>2. CASE g # f
      <4>1. g \in ChangedFiles \ run.left
        BY <1>1, <2>3, <3>2
      <4> QED
        BY <1>1, <2>3, <2>4, <4>1 DEF FoldedSoFar
    <3> QED
      BY <3>1, <3>2
  <2> QED
    BY <1>1, <1>2, <1>3, <2>3, <2>4, <2>5 DEF ChangeInv, At
<1>5. CASE FoldSnapshot
  <2>1. /\ run'.at = "judged" /\ cfg.tool = "forge"
        /\ run'.class = (IF \E f \in forge.paths : IsPolicyPath(f) THEN "assent-policy" ELSE k)
        /\ run'.cs.opaque <=> (o \/ ~forge.complete)
    BY <1>1, <1>5 DEF FoldSnapshot
  <2>2. SnapshotFolded'
    BY <1>2, <2>1 DEF SnapshotFolded
  <2> QED
    BY <1>2, <1>3, <2>1, <2>2 DEF ChangeInv, At
<1>6. CASE Folded
  <2>1. run'.at = "judged" /\ run'.left = {} /\ run'.class = run.class /\ run'.cs = run.cs /\ run.left = {}
    BY <1>1, <1>6 DEF Folded
  <2>2. cfg.tool = "checkout" /\ FoldedSoFar
    BY <1>6 DEF Folded, ChangeInv
  <2>3. FoldedSoFar'
    BY <1>2, <1>3, <2>1, <2>2 DEF FoldedSoFar
  <2> QED
    BY <1>2, <1>3, <2>1, <2>2, <2>3 DEF ChangeInv, At
<1> QED
  BY <1>4, <1>5, <1>6

(* So is the diff of the entries, and the event of a whole file.            *)
LEMMA EntriesShape ==
    ASSUME NEW e, NEW b, NEW h
    PROVE  \/ DiffEntries(e, b, h) = Diff(b, h)
           \/ DiffEntries(e, b, h) = Opaque
           \/ \E x : DiffEntries(e, b, h) = Decided(x)
  BY DEF DiffEntries

(* The run's record keeps its shape.                                        *)
LEMMA ShapeStep ==
    ASSUME RunShape, [Next]_vars
    PROVE  RunShape'
<1> DEFINE b == base[Governed]
<1> DEFINE h == head[Governed]
<1>1. PICK a, l, o, c, k : /\ run = [at |-> a, left |-> l, cs |-> [opaque |-> o, changes |-> c], class |-> k]
                           /\ o \in BOOLEAN
  BY DEF RunShape
<1>2. forge'.complete \in BOOLEAN
  <2>1. forge' = forge \/ ShortList
    BY DEF Next, ReadGoverned, Assemble, ListCheckout, FoldFile, FoldSnapshot, Folded, Ended, Inputs, vars
  <2>2. CASE ShortList
    BY <2>2 DEF ShortList
  <2> QED
    BY <2>1, <2>2 DEF RunShape
<1>3. IsChangeSet(Diff(b, h)) /\ IsChangeSet(FileEvent(b))
  BY DiffShape, Made DEF FileEvent
<1>4. IsChangeSet(DiffEntries(cfg.entries, b, h))
  <2>1. PICK e : e = cfg.entries
    OBVIOUS
  <2> QED
    BY <1>3, <2>1, EntriesShape, Made
<1>5. CASE ReadGoverned
  <2>1. PICK cs : cs = (IF OneSided(b, h) THEN FileEvent(b) ELSE Diff(b, h))
    OBVIOUS
  <2>2. \/ run' = [run EXCEPT !.at = "failed"]
        \/ run' = [run EXCEPT !.at = "list", !.cs = cs, !.class = IF cs.changes = {} THEN @ ELSE FileClass(Governed)]
    BY <1>5, <2>1 DEF ReadGoverned
  <2>3. PICK p, x : cs = [opaque |-> p, changes |-> x] /\ p \in BOOLEAN
    BY <1>3, <2>1 DEF IsChangeSet
  <2>4. PICK q : q = (IF cs.changes = {} THEN k ELSE FileClass(Governed))
    OBVIOUS
  <2>5. \/ run' = [at |-> "failed", left |-> l, cs |-> [opaque |-> o, changes |-> c], class |-> k]
        \/ run' = [at |-> "list", left |-> l, cs |-> [opaque |-> p, changes |-> x], class |-> q]
    BY <1>1, <2>2, <2>3, <2>4
  <2> QED
    BY <1>1, <1>2, <2>3, <2>5 DEF RunShape
<1>6. CASE Assemble
  <2>1. PICK cs : cs = (IF OneSided(b, h) THEN FileEvent(b) ELSE DiffEntries(cfg.entries, b, h))
    OBVIOUS
  <2>2. run' = [run EXCEPT !.at = "assembled", !.cs = cs]
    BY <1>6, <2>1 DEF Assemble
  <2>3. PICK p, x : cs = [opaque |-> p, changes |-> x] /\ p \in BOOLEAN
    BY <1>3, <1>4, <2>1 DEF IsChangeSet
  <2>4. run' = [at |-> "assembled", left |-> l, cs |-> [opaque |-> p, changes |-> x], class |-> k]
    BY <1>1, <2>2, <2>3
  <2> QED
    BY <1>2, <2>3, <2>4 DEF RunShape
<1>7. CASE ListCheckout
  BY <1>1, <1>2, <1>7 DEF ListCheckout, RunShape
<1>8. CASE FoldFile
  <2>1. PICK f \in run.left :
            run' = [run EXCEPT !.left = @ \ {f},
                               !.class = IF FoldClass(f, Diff(base[f], head[f])) = "assent-policy" THEN "assent-policy" ELSE @,
                               !.cs.opaque = @ \/ (Diff(base[f], head[f]).opaque
                                                  /\ ~(f = Governed /\ OneSided(base[f], head[f])))]
    BY <1>8 DEF FoldFile
  <2>2. PICK d : d \in BOOLEAN /\ d = (o \/ (Diff(base[f], head[f]).opaque
                                            /\ ~(f = Governed /\ OneSided(base[f], head[f]))))
    OBVIOUS
  <2>3. PICK q : q = (IF FoldClass(f, Diff(base[f], head[f])) = "assent-policy" THEN "assent-policy" ELSE k)
    OBVIOUS
  <2>4. run' = [at |-> a, left |-> l \ {f}, cs |-> [opaque |-> d, changes |-> c], class |-> q]
    BY <1>1, <2>1, <2>2, <2>3
  <2> QED
    BY <1>2, <2>2, <2>4 DEF RunShape
<1>9. CASE FoldSnapshot
  <2>1. PICK d : d \in BOOLEAN /\ d = (o \/ ~forge.complete)
    OBVIOUS
  <2>2. PICK q : q = (IF \E f \in forge.paths : IsPolicyPath(f) THEN "assent-policy" ELSE k)
    OBVIOUS
  <2>3. run' = [at |-> "judged", left |-> l, cs |-> [opaque |-> d, changes |-> c], class |-> q]
    BY <1>1, <1>9, <2>1, <2>2 DEF FoldSnapshot
  <2> QED
    BY <1>2, <2>1, <2>3 DEF RunShape
<1>10. CASE Folded
  BY <1>1, <1>2, <1>10 DEF Folded, RunShape
<1>11. CASE ShortList \/ Ended \/ UNCHANGED vars
  BY <1>1, <1>2, <1>11 DEF ShortList, Ended, vars, RunShape
<1> QED
  BY <1>5, <1>6, <1>7, <1>8, <1>9, <1>10, <1>11 DEF Next

(* Every step keeps the inductive invariant.                                *)
LEMMA ChangeStep ==
    ASSUME ChangeInv, [Next]_vars
    PROVE  ChangeInv'
<1>1. RunShape'
  BY ShapeStep DEF ChangeInv
<1>2. CASE ReadGoverned \/ Assemble \/ ShortList \/ ListCheckout
  BY <1>1, <1>2, BeforeFold
<1>3. CASE FoldFile \/ FoldSnapshot \/ Folded
  BY <1>1, <1>3, DuringFold
<1>4. CASE Ended \/ UNCHANGED vars
  <2>1. base' = base /\ head' = head /\ forge' = forge /\ cfg' = cfg /\ run' = run
    BY <1>4 DEF Ended, vars
  <2>2. ChangedFiles' = ChangedFiles /\ Differ' = Differ
    BY <2>1, InputsFixed
  <2>3. (FoldedSoFar' <=> FoldedSoFar) /\ (SnapshotFolded' <=> SnapshotFolded)
    BY <2>1, <2>2 DEF FoldedSoFar, SnapshotFolded
  <2>4. (IF OneSided(base[Governed], head[Governed]) THEN FileEvent(base[Governed])
         ELSE DiffEntries(cfg.entries, base[Governed], head[Governed]))' =
        (IF OneSided(base[Governed], head[Governed]) THEN FileEvent(base[Governed])
         ELSE DiffEntries(cfg.entries, base[Governed], head[Governed]))
    BY <2>1
  <2> QED
    BY <1>1, <2>1, <2>2, <2>3, <2>4 DEF ChangeInv, At
<1> QED
  BY <1>2, <1>3, <1>4 DEF Next

(* The inputs of a run stay what they were, and the change set carries what *)
(* has been folded into it (foldCheckout, foldSnapshotPaths).               *)
THEOREM ChangeInvariant == Spec => []ChangeInv
<1>1. ChangeInv /\ [Next]_vars => ChangeInv'
  BY ChangeStep
<1> QED
  BY ChangeInit, <1>1, PTL DEF Spec

-----------------------------------------------------------------------------
(* A judged change set hides no policy edit, and one that is not opaque     *)
(* leaves no other file undiffed (foldCheckout, foldSnapshotPaths).         *)
THEOREM NothingElseChangedHolds == Spec => []NothingElseChanged
<1>1. ASSUME ChangeInv, At("judged"), cfg.tool = "checkout",
             NEW f \in Differ, Bytes(base[f]) # Bytes(head[f])
      PROVE  /\ IsPolicyPath(f) => run.class = "assent-policy"
             /\ (f # Governed /\ Diff(base[f], head[f]).opaque) => run.cs.opaque
  <2>1. FoldedSoFar /\ run.left = {}
    BY <1>1 DEF ChangeInv
  <2>2. f \in ChangedFiles
    BY <1>1 DEF ChangedFiles, Differ
  <2> QED
    BY <2>1, <2>2 DEF FoldedSoFar
<1>2. ASSUME ChangeInv, At("judged"), cfg.tool = "forge", NEW f \in Differ, IsPolicyPath(f)
      PROVE  run.class = "assent-policy" \/ (~forge.complete /\ run.cs.opaque)
  BY <1>2 DEF ChangeInv, SnapshotFolded
<1>3. ChangeInv /\ At("judged") => cfg.tool \in {"checkout", "forge"}
  BY DEF ChangeInv
<1>4. ChangeInv => NothingElseChanged
  BY <1>1, <1>2, <1>3 DEF NothingElseChanged, At
<1> QED
  BY <1>4, ChangeInvariant, PTL

-----------------------------------------------------------------------------
(* A set of naturals that is not empty has a least member.                  *)
LEMMA LeastIndex ==
    ASSUME NEW S, S \subseteq Nat, S # {}
    PROVE  \E i \in S : \A j \in S : i <= j
<1>1. PICK i \in S : \A j \in S : ~(<<j, i>> \in OpToRel(<, Nat))
  BY NatLessThanWellFounded, WFMin
<1>2. ASSUME NEW j \in S PROVE i <= j
  <2>1. i \in Nat /\ j \in Nat /\ <<j, i>> \in Nat \X Nat
    OBVIOUS
  <2>2. ~(j < i)
    BY <1>1, <2>1 DEF OpToRel
  <2> QED
    BY <2>1, <2>2
<1> QED
  BY <1>2

(* A prefix of a prefix.                                                    *)
LEMMA PrefixOfPrefix ==
    ASSUME NEW p \in Seq(STRING), NEW m \in 0..Len(p), NEW k \in 0..m
    PROVE  /\ SubSeq(p, 1, m) \in Seq(STRING) /\ Len(SubSeq(p, 1, m)) = m
           /\ SubSeq(SubSeq(p, 1, m), 1, k) = SubSeq(p, 1, k)
<1>1. SubSeq(p, 1, m) \in Seq(STRING) /\ Len(SubSeq(p, 1, m)) = m
  OBVIOUS
<1>2. SubSeq(SubSeq(p, 1, m), 1, k) = SubSeq(p, 1, k)
  OBVIOUS
<1> QED
  BY <1>1, <1>2

(* Where the walk goes on: a mapping on both sides.                         *)
BothMaps(b, h, q) == q \in DOMAIN b \cap DOMAIN h /\ IsMap(b[q]) /\ IsMap(h[q])

(* A node that is visited and decided, and is a mapping on a side that has  *)
(* it, is a mapping on both (walkNode).                                     *)
LEMMA DecidedMap ==
    ASSUME NEW b, NEW h, NEW q, ~Undecidable(b, h, q),
           (q \in DOMAIN b /\ b[q] = [kind |-> "map"]) \/ (q \in DOMAIN h /\ h[q] = [kind |-> "map"])
    PROVE  BothMaps(b, h, q)
  BY DEF Undecidable, BothMaps, IsMap, IsScalar

(* A decided walk visits every node of both trees: it never stops short of  *)
(* one (walkMapping).                                                       *)
LEMMA AllVisited ==
    ASSUME NEW b, NEW h, IsTree(b), IsTree(h), ~WalkNode(b, h).opaque
    PROVE  Visited(b, h) = DOMAIN b \union DOMAIN h
<1>1. \A q \in Visited(b, h) : ~Undecidable(b, h, q)
  BY DEF WalkNode, Opaque
<1> SUFFICES ASSUME NEW p \in DOMAIN b \union DOMAIN h
             PROVE  \A k \in 0..Len(p) - 1 : BothMaps(b, h, SubSeq(p, 1, k))
  BY DEF Visited, BothMaps
<1> DEFINE bad == {k \in 0..Len(p) - 1 : ~BothMaps(b, h, SubSeq(p, 1, k))}
<1>2. p \in Seq(STRING) /\ Len(p) \in Nat
  BY DEF IsTree
<1> SUFFICES ASSUME bad # {} PROVE FALSE
  OBVIOUS
<1>3. PICK m \in bad : \A k \in bad : m <= k
  <2>1. bad \subseteq Nat
    BY <1>2
  <2> HIDE DEF bad
  <2> QED
    BY <2>1, LeastIndex
<1> DEFINE q == SubSeq(p, 1, m)
<1>4. \/ q \in DOMAIN b /\ b[q] = [kind |-> "map"]
      \/ q \in DOMAIN h /\ h[q] = [kind |-> "map"]
  BY <1>3 DEF IsTree
<1>5. m \in 0..Len(p) /\ m \in 0..Len(p) - 1
  BY <1>2, <1>3
<1>6. Len(q) = m /\ \A k \in 0..m - 1 : SubSeq(q, 1, k) = SubSeq(p, 1, k)
  BY <1>2, <1>5, PrefixOfPrefix
<1>7. \A k \in 0..m - 1 : BothMaps(b, h, SubSeq(p, 1, k))
  BY <1>2, <1>3, <1>5
<1>8. q \in Visited(b, h)
  BY <1>4, <1>6, <1>7 DEF Visited, BothMaps
<1>9. BothMaps(b, h, q)
  BY <1>1, <1>4, <1>8, DecidedMap
<1> QED
  BY <1>3, <1>9

-----------------------------------------------------------------------------
(* Where two trees differ: what only the base has, what only the head has,  *)
(* and the scalars of both that are not the same.                           *)
Lost(b, h) == DOMAIN b \ DOMAIN h
Gained(b, h) == DOMAIN h \ DOMAIN b
Altered(b, h) == {p \in DOMAIN b \cap DOMAIN h : IsScalar(b[p]) /\ CompareKey(b[p]) # CompareKey(h[p])}

(* Two trees that a walk decides: one-sided nodes are scalars, the others   *)
(* are mappings on both sides or scalars on both.                           *)
Comparable(b, h) ==
    /\ \A p \in Lost(b, h) : IsScalar(b[p])
    /\ \A p \in Gained(b, h) : IsScalar(h[p])
    /\ \A p \in DOMAIN b \cap DOMAIN h :
          \/ b[p] = [kind |-> "map"] /\ h[p] = [kind |-> "map"]
          \/ IsScalar(b[p]) /\ IsScalar(h[p])

(* What a decided walk compared, and the changes it emitted (walkNode,      *)
(* walkMapping, emitOneSided).                                              *)
LEMMA DecidedWalk ==
    ASSUME NEW b, NEW h, IsTree(b), IsTree(h), ~WalkNode(b, h).opaque
    PROVE  /\ Comparable(b, h)
           /\ \A c : c \in WalkNode(b, h).changes <=>
                \/ \E p \in Lost(b, h) : c = Change(p, "delete", Render(b[p]), None)
                \/ \E p \in Gained(b, h) : c = Change(p, "add", None, Render(h[p]))
                \/ \E p \in Altered(b, h) : c = Change(p, "modify", Render(b[p]), Render(h[p]))
<1>1. Visited(b, h) = DOMAIN b \union DOMAIN h
  BY AllVisited
<1>2. \A p \in DOMAIN b \union DOMAIN h : ~Undecidable(b, h, p)
  BY <1>1 DEF WalkNode, Opaque
<1>3. (\A p \in DOMAIN b : b[p] \in Nodes) /\ (\A p \in DOMAIN h : h[p] \in Nodes)
  BY DEF IsTree
<1>4. \A n \in Nodes : IsMap(n) => n = [kind |-> "map"]
  BY DEF Nodes, IsMap
<1>5. Comparable(b, h)
  BY <1>2, <1>3, <1>4 DEF Comparable, Undecidable, Lost, Gained
<1>6. WalkNode(b, h).changes = UNION {ChangeAt(b, h, p) : p \in DOMAIN b \union DOMAIN h}
  BY <1>1 DEF WalkNode, Opaque, Decided
<1>7. ASSUME NEW c
      PROVE  c \in WalkNode(b, h).changes <=>
                \/ \E p \in Lost(b, h) : c = Change(p, "delete", Render(b[p]), None)
                \/ \E p \in Gained(b, h) : c = Change(p, "add", None, Render(h[p]))
                \/ \E p \in Altered(b, h) : c = Change(p, "modify", Render(b[p]), Render(h[p]))
  <2>1. c \in WalkNode(b, h).changes <=> \E p \in DOMAIN b \union DOMAIN h : c \in ChangeAt(b, h, p)
    BY <1>6
  <2>2. \A p \in Lost(b, h) : c \in ChangeAt(b, h, p) <=> c = Change(p, "delete", Render(b[p]), None)
    BY DEF ChangeAt, Lost
  <2>3. \A p \in Gained(b, h) : c \in ChangeAt(b, h, p) <=> c = Change(p, "add", None, Render(h[p]))
    BY DEF ChangeAt, Gained
  <2>4. \A p \in DOMAIN b \cap DOMAIN h :
           c \in ChangeAt(b, h, p) <=> p \in Altered(b, h) /\ c = Change(p, "modify", Render(b[p]), Render(h[p]))
    BY DEF ChangeAt, Altered
  <2>5. DOMAIN b \union DOMAIN h = Lost(b, h) \union Gained(b, h) \union (DOMAIN b \cap DOMAIN h)
    BY DEF Lost, Gained
  <2>6. Altered(b, h) \subseteq DOMAIN b \cap DOMAIN h
    BY DEF Altered
  <2> QED
    BY <2>1, <2>2, <2>3, <2>4, <2>5, <2>6
<1> QED
  BY <1>5, <1>7

-----------------------------------------------------------------------------
(* What a set of changes takes away from a tree, and what it puts where.    *)
Gone(changes) ==
    {c.path : c \in {c \in changes : c.kind = "delete"}} \union {c.was : c \in {c \in changes : c.kind = "rename"}}
PutAt(changes) == {<<c.path, c.new>> : c \in {c \in changes : c.kind # "delete"}}

(* Changes that take away what the base lost and put what the head gained   *)
(* or altered, replayed on the base, give the head.                         *)
LEMMA ReplayGives ==
    ASSUME NEW b, NEW h, Comparable(b, h), NEW changes, Gone(changes) = Lost(b, h),
           PutAt(changes) = {<<p, Render(h[p])>> : p \in Gained(b, h) \union Altered(b, h)}
    PROVE  Replay(b, changes) = Printed(h)
<1> DEFINE put == Gained(b, h) \union Altered(b, h)
<1> DEFINE set == {c \in changes : c.kind # "delete"}
<1> DEFINE to(p) == {c.new : c \in {c \in set : c.path = p}}
<1>1. put \subseteq DOMAIN h
  BY DEF Gained, Altered
<1>2. Replay(b, changes) =
        [p \in (DOMAIN b \ Gone(changes)) \union {c.path : c \in set} |->
            IF to(p) # {} THEN CHOOSE v \in to(p) : TRUE ELSE Printed(b)[p]]
  BY DEF Replay, Gone
<1>3. \A p, v : <<p, v>> \in PutAt(changes) <=> v \in to(p)
  <2> SUFFICES ASSUME NEW p, NEW v PROVE <<p, v>> \in PutAt(changes) <=> \E c \in set : c.path = p /\ c.new = v
    OBVIOUS
  <2> QED
    BY DEF PutAt
<1>4. \A p, v : <<p, v>> \in PutAt(changes) <=> p \in put /\ v = Render(h[p])
  OBVIOUS
<1>5. \A p \in put : to(p) = {Render(h[p])}
  BY <1>3, <1>4
<1>6. \A p : p \notin put => to(p) = {}
  BY <1>3, <1>4
<1>7. {c.path : c \in set} = put
  <2>1. \A p : p \in {c.path : c \in set} <=> \E v : v \in to(p)
    OBVIOUS
  <2>2. \A p : p \in put <=> \E v : <<p, v>> \in PutAt(changes)
    BY <1>4
  <2>3. \A p : p \in {c.path : c \in set} <=> p \in put
    BY <1>3, <2>1, <2>2
  <2> HIDE DEF set, put
  <2> QED
    BY <2>3
<1>8. (DOMAIN b \ Lost(b, h)) \union put = DOMAIN h
  BY DEF Lost, Gained, Altered
<1> HIDE DEF put, set, to
<1>9. Replay(b, changes) = [p \in DOMAIN h |-> IF to(p) # {} THEN CHOOSE v \in to(p) : TRUE ELSE Printed(b)[p]]
  BY <1>2, <1>7, <1>8
<1>10. ASSUME NEW p \in DOMAIN h
       PROVE  (IF to(p) # {} THEN CHOOSE v \in to(p) : TRUE ELSE Printed(b)[p]) = Printed(h)[p]
  <2>1. CASE p \in put
    <3>1. IsScalar(h[p])
      BY <2>1 DEF put, Comparable, Gained, Altered, IsScalar
    <3>2. Printed(h)[p] = Render(h[p])
      BY <3>1 DEF Printed
    <3> QED
      BY <1>5, <2>1, <3>2
  <2>2. CASE p \notin put
    <3>1. p \in DOMAIN b \cap DOMAIN h /\ p \notin Altered(b, h)
      BY <2>2 DEF put, Gained
    <3>2. CASE b[p] = [kind |-> "map"] /\ h[p] = [kind |-> "map"]
      BY <1>6, <2>2, <3>1, <3>2 DEF Printed, IsScalar
    <3>3. CASE IsScalar(b[p]) /\ IsScalar(h[p])
      <4>1. CompareKey(b[p]) = CompareKey(h[p])
        BY <3>1, <3>3 DEF Altered
      <4>2. Render(b[p]) = Render(h[p])
        BY <4>1 DEF CompareKey
      <4> QED
        BY <1>6, <2>2, <3>1, <3>3, <4>2 DEF Printed
    <3> QED
      BY <3>1, <3>2, <3>3 DEF Comparable
  <2> QED
    BY <2>1, <2>2
<1> QED
  BY <1>9, <1>10 DEF Printed

(* The changes of a decided walk are at most one per node, so finitely many.*)
LEMMA FiniteChanges ==
    ASSUME NEW b, NEW h, IsTree(b), IsTree(h), ~WalkNode(b, h).opaque
    PROVE  IsFiniteSet(WalkNode(b, h).changes)
<1> DEFINE C == WalkNode(b, h).changes
<1> DEFINE T == DOMAIN b \union DOMAIN h
<1> DEFINE at == [c \in C |-> c.path]
<1>1. \A c \in C :
                \/ \E p \in Lost(b, h) : c = Change(p, "delete", Render(b[p]), None)
                \/ \E p \in Gained(b, h) : c = Change(p, "add", None, Render(h[p]))
                \/ \E p \in Altered(b, h) : c = Change(p, "modify", Render(b[p]), Render(h[p]))
  BY DecidedWalk
<1>2. IsFiniteSet(T)
  BY FS_Union DEF IsTree
<1>3. \A c \in C : c.path \in T
  BY <1>1 DEF Change, Lost, Gained, Altered
<1>4. \A c, d \in C : c.path = d.path => c = d
  BY <1>1 DEF Change, Lost, Gained, Altered
<1> HIDE DEF C, T
<1>5. at \in [C -> T] /\ \A c, d \in C : at[c] = at[d] => c = d
  BY <1>3, <1>4
<1> HIDE DEF at
<1>6. at \in Injection(C, T)
  BY <1>5, Fun_IsInj
<1>7. IsFiniteSet(C)
  BY <1>2, <1>6, FS_Injection
<1> QED
  BY <1>7 DEF C

(* Replaying a set whose moves are folded takes away and puts what the set  *)
(* itself does: a value that went once and came once is the same value      *)
(* (FoldRenames).                                                           *)
LEMMA FoldedMoves ==
    ASSUME NEW C, IsFiniteSet(C), \A c \in C : c.kind \in {"delete", "add", "modify"}
    PROVE  /\ Gone(FoldRenames(Decided(C)).changes) = Gone(C)
           /\ PutAt(FoldRenames(Decided(C)).changes) = PutAt(C)
<1> DEFINE dels(v) == {c \in C : c.kind = "delete" /\ c.old = v}
<1> DEFINE adds(v) == {c \in C : c.kind = "add" /\ c.new = v}
<1> DEFINE values == {v \in {c.old : c \in C} : OnePair(dels(v), adds(v))}
<1> DEFINE gone == UNION {dels(v) \union adds(v) : v \in values}
<1> DEFINE d(v) == CHOOSE c \in dels(v) : TRUE
<1> DEFINE a(v) == CHOOSE c \in adds(v) : TRUE
<1> DEFINE moved(v) == [Change(a(v).path, "rename", v, v) EXCEPT !.was = d(v).path]
<1> DEFINE F == (C \ gone) \union {moved(v) : v \in values}
<1>1. FoldRenames(Decided(C)).changes = F
  BY DEF FoldRenames, Decided
<1>2. ASSUME NEW v \in values
      PROVE  dels(v) = {d(v)} /\ adds(v) = {a(v)}
  <2>1. IsFiniteSet(dels(v)) /\ IsFiniteSet(adds(v))
    BY FS_Subset
  <2>2. Cardinality(dels(v)) = 1 /\ Cardinality(adds(v)) = 1
    BY DEF OnePair
  <2>3. PICK S, T : S = dels(v) /\ T = adds(v)
    OBVIOUS
  <2>4. (\E x : S = {x}) /\ (\E x : T = {x})
    BY <2>1, <2>2, <2>3, FS_Singleton
  <2>5. S = {CHOOSE c \in S : TRUE} /\ T = {CHOOSE c \in T : TRUE}
    BY <2>4
  <2> QED
    BY <2>3, <2>5
<1>3. ASSUME NEW v \in values
      PROVE  /\ d(v) \in C /\ d(v).kind = "delete"
             /\ a(v) \in C /\ a(v).kind = "add" /\ a(v).new = v
  <2>1. dels(v) = {d(v)} /\ adds(v) = {a(v)}
    BY <1>2
  <2> HIDE DEF dels, adds, d, a
  <2>2. d(v) \in dels(v) /\ a(v) \in adds(v)
    BY <2>1
  <2> QED
    BY <2>2 DEF dels, adds
<1>4. \A v : /\ moved(v).path = a(v).path /\ moved(v).new = v
             /\ moved(v).kind = "rename" /\ moved(v).was = d(v).path
  BY DEF Change
<1>5. \A c \in gone : \/ c.kind = "delete" /\ \E v \in values : c \in dels(v)
                      \/ c.kind = "add" /\ \E v \in values : c \in adds(v)
  OBVIOUS
<1>6. \A c \in gone : c.kind = "delete" => \E v \in values : c = d(v)
  <2> HIDE DEF dels, adds, values, gone, d, a
  <2> QED
    BY <1>2, <1>5
<1>7. \A c \in gone : c.kind # "delete" => \E v \in values : c = a(v)
  <2> HIDE DEF dels, adds, values, gone, d, a
  <2> QED
    BY <1>2, <1>5
<1> HIDE DEF dels, adds, values, gone, d, a, moved
<1>8. Gone(F) = Gone(C)
  <2>1. ASSUME NEW x \in Gone(F) PROVE x \in Gone(C)
    BY <1>3, <1>4, <2>1 DEF Gone
  <2>2. ASSUME NEW x \in Gone(C) PROVE x \in Gone(F)
    <3>1. PICK c \in C : c.kind = "delete" /\ x = c.path
      BY <2>2 DEF Gone
    <3>2. CASE c \in gone
      <4>1. PICK v \in values : c = d(v)
        BY <1>6, <3>1, <3>2
      <4>2. moved(v) \in F /\ moved(v).kind = "rename" /\ moved(v).was = x
        BY <1>4, <3>1, <4>1
      <4> QED
        BY <4>2 DEF Gone
    <3>3. CASE c \notin gone
      BY <3>1, <3>3 DEF Gone
    <3> QED
      BY <3>2, <3>3
  <2> QED
    BY <2>1, <2>2
<1>9. PutAt(F) = PutAt(C)
  <2>1. ASSUME NEW x \in PutAt(F) PROVE x \in PutAt(C)
    <3>1. PICK c \in F : c.kind # "delete" /\ x = <<c.path, c.new>>
      BY <2>1 DEF PutAt
    <3>2. CASE c \in C
      BY <3>1, <3>2 DEF PutAt
    <3>3. CASE c \notin C
      <4>1. PICK v \in values : c = moved(v)
        BY <3>1, <3>3
      <4>2. a(v) \in C /\ a(v).kind # "delete" /\ x = <<a(v).path, a(v).new>>
        BY <1>3, <1>4, <3>1, <4>1
      <4> QED
        BY <4>2 DEF PutAt
    <3> QED
      BY <3>2, <3>3
  <2>2. ASSUME NEW x \in PutAt(C) PROVE x \in PutAt(F)
    <3>1. PICK c \in C : c.kind # "delete" /\ x = <<c.path, c.new>>
      BY <2>2 DEF PutAt
    <3>2. CASE c \in gone
      <4>1. PICK v \in values : c = a(v)
        BY <1>7, <3>1, <3>2
      <4>2. moved(v) \in F /\ moved(v).kind # "delete" /\ x = <<moved(v).path, moved(v).new>>
        BY <1>3, <1>4, <3>1, <4>1
      <4> QED
        BY <4>2 DEF PutAt
    <3>3. CASE c \notin gone
      BY <3>1, <3>3 DEF PutAt
    <3> QED
      BY <3>2, <3>3
  <2> QED
    BY <2>1, <2>2
<1> QED
  BY <1>1, <1>8, <1>9

(* A decided walk tells the whole difference of two trees.                  *)
LEMMA WalkTellsAll ==
    ASSUME NEW b, NEW h, IsTree(b), IsTree(h), ~WalkNode(b, h).opaque
    PROVE  /\ Replay(b, WalkNode(b, h).changes) = Printed(h)
           /\ Replay(b, FoldRenames(WalkNode(b, h)).changes) = Printed(h)
           /\ \A p \in DOMAIN b \cap DOMAIN h :
                 b[p] # h[p] => \E c \in WalkNode(b, h).changes : c.path = p /\ c.kind = "modify"
<1> DEFINE C == WalkNode(b, h).changes
<1>1. /\ Comparable(b, h)
      /\ \A c : c \in C <=>
                \/ \E p \in Lost(b, h) : c = Change(p, "delete", Render(b[p]), None)
                \/ \E p \in Gained(b, h) : c = Change(p, "add", None, Render(h[p]))
                \/ \E p \in Altered(b, h) : c = Change(p, "modify", Render(b[p]), Render(h[p]))
  BY DecidedWalk
<1>2. WalkNode(b, h) = Decided(C)
  BY DEF WalkNode, Opaque, Decided
<1>3. IsFiniteSet(C)
  BY FiniteChanges
<1> HIDE DEF C
<1>4. \A c \in C : c.kind \in {"delete", "add", "modify"}
  BY <1>1 DEF Change
<1>5. Gone(C) = Lost(b, h)
  <2>1. ASSUME NEW x \in Gone(C) PROVE x \in Lost(b, h)
    BY <1>1, <2>1 DEF Gone, Change
  <2>2. ASSUME NEW x \in Lost(b, h) PROVE x \in Gone(C)
    <3>1. Change(x, "delete", Render(b[x]), None) \in C
      BY <1>1, <2>2
    <3> QED
      BY <3>1 DEF Gone, Change
  <2> QED
    BY <2>1, <2>2
<1>6. PutAt(C) = {<<p, Render(h[p])>> : p \in Gained(b, h) \union Altered(b, h)}
  <2>1. ASSUME NEW x \in PutAt(C) PROVE x \in {<<p, Render(h[p])>> : p \in Gained(b, h) \union Altered(b, h)}
    <3>1. PICK c \in C : c.kind # "delete" /\ x = <<c.path, c.new>>
      BY <2>1 DEF PutAt
    <3>2. \/ \E p \in Gained(b, h) : c = Change(p, "add", None, Render(h[p]))
          \/ \E p \in Altered(b, h) : c = Change(p, "modify", Render(b[p]), Render(h[p]))
      BY <1>1, <3>1 DEF Change
    <3> QED
      BY <3>1, <3>2 DEF Change
  <2>2. ASSUME NEW p \in Gained(b, h) \union Altered(b, h) PROVE <<p, Render(h[p])>> \in PutAt(C)
    <3>1. \/ Change(p, "add", None, Render(h[p])) \in C
          \/ Change(p, "modify", Render(b[p]), Render(h[p])) \in C
      BY <1>1, <2>2
    <3> QED
      BY <3>1 DEF PutAt, Change
  <2> QED
    BY <2>1, <2>2
<1>7. Replay(b, C) = Printed(h)
  BY <1>1, <1>5, <1>6, ReplayGives
<1>8. Replay(b, FoldRenames(Decided(C)).changes) = Printed(h)
  <2>1. PICK F : F = FoldRenames(Decided(C)).changes
    OBVIOUS
  <2>2. Gone(F) = Lost(b, h) /\ PutAt(F) = PutAt(C)
    BY <1>3, <1>4, <1>5, <2>1, FoldedMoves
  <2> QED
    BY <1>1, <1>6, <2>1, <2>2, ReplayGives
<1>9. ASSUME NEW p \in DOMAIN b \cap DOMAIN h, b[p] # h[p]
      PROVE  \E c \in C : c.path = p /\ c.kind = "modify"
  <2>1. IsScalar(b[p]) /\ IsScalar(h[p])
    BY <1>1, <1>9 DEF Comparable
  <2>2. b[p] \in Nodes /\ h[p] \in Nodes
    BY DEF IsTree
  <2>3. CompareKey(b[p]) # CompareKey(h[p])
    BY <1>9, <2>1, <2>2 DEF Nodes, IsScalar, CompareKey, Render
  <2>4. p \in Altered(b, h)
    BY <2>1, <2>3 DEF Altered
  <2>5. Change(p, "modify", Render(b[p]), Render(h[p])) \in C
    BY <1>1, <2>4
  <2> QED
    BY <2>5 DEF Change
<1> QED
  BY <1>2, <1>7, <1>8, <1>9 DEF C

(* A decided diff is the whole difference of the governed file: its changes *)
(* turn the base document into the head document, moves folded or not, and  *)
(* no scalar that differs is missing (Diff, FoldRenames).                   *)
THEOREM DiffTellsAllHolds == Spec => []DiffTellsAll
<1>1. ASSUME ChangeInv PROVE DiffTellsAll
  <2> DEFINE b == base[Governed]
  <2> DEFINE h == head[Governed]
  <2>1. b \in Contents[Governed] /\ h \in Contents[Governed]
    BY <1>1, ChangeAssumption DEF ChangeInv
  <2>2. SUFFICES ASSUME ~Diff(b, h).opaque
                 PROVE  /\ Replay(b.tree, Diff(b, h).changes) = Printed(h.tree)
                        /\ Replay(b.tree, FoldRenames(Diff(b, h)).changes) = Printed(h.tree)
                        /\ \A p \in DOMAIN b.tree \cap DOMAIN h.tree :
                              b.tree[p] # h.tree[p] => \E c \in Diff(b, h).changes : c.path = p /\ c.kind = "modify"
    BY DEF DiffTellsAll
  <2>3. Parses(b) /\ Parses(h) /\ Diff(b, h) = WalkNode(b.tree, h.tree)
    BY <2>2 DEF Diff, Opaque
  <2>4. IsTree(b.tree) /\ IsTree(h.tree)
    BY <2>1, <2>3, ChangeAssumption, ContentsAssumption DEF Parses, Doc
  <2>5. PICK s, t : s = b.tree /\ t = h.tree
    OBVIOUS
  <2> HIDE DEF b, h
  <2> QED
    BY <2>2, <2>3, <2>4, <2>5, WalkTellsAll
<1> QED
  BY <1>1, ChangeInvariant, PTL

-----------------------------------------------------------------------------
(* A pointer below another: its prefix, its rest, and the prefixes of both. *)
LEMMA Below ==
    ASSUME NEW p \in Seq(STRING), NEW q \in Seq(STRING)
    PROVE  /\ p \o q \in Seq(STRING) /\ IsPrefix(p, p \o q)
           /\ SubSeq(p \o q, Len(p) + 1, Len(p \o q)) = q
           /\ \A k \in 0..Len(q) : SubSeq(p \o q, 1, Len(p) + k) = p \o SubSeq(q, 1, k)
<1>1. p \o q \in Seq(STRING) /\ Len(p \o q) = Len(p) + Len(q)
  OBVIOUS
<1>2. IsPrefix(p, p \o q)
  <2>1. SubSeq(p \o q, 1, Len(p)) = SubSeq(p, 1, Len(p))
    OBVIOUS
  <2> QED
    BY <1>1, <2>1 DEF IsPrefix
<1>3. SubSeq(p \o q, Len(p) + 1, Len(p \o q)) = q
  OBVIOUS
<1>4. ASSUME NEW k \in 0..Len(q) PROVE SubSeq(p \o q, 1, Len(p) + k) = p \o SubSeq(q, 1, k)
  OBVIOUS
<1> QED
  BY <1>1, <1>2, <1>3, <1>4

(* A pointer with a prefix is the prefix and its rest.                      *)
LEMMA PrefixAndRest ==
    ASSUME NEW p \in Seq(STRING), NEW r \in Seq(STRING), IsPrefix(p, r)
    PROVE  /\ SubSeq(r, Len(p) + 1, Len(r)) \in Seq(STRING)
           /\ p \o SubSeq(r, Len(p) + 1, Len(r)) = r
<1>1. Len(p) <= Len(r) /\ SubSeq(p, 1, Len(p)) = SubSeq(r, 1, Len(p))
  BY DEF IsPrefix
<1>2. \A i \in 1..Len(p) : p[i] = r[i]
  <2>1. \A i \in 1..Len(p) : SubSeq(p, 1, Len(p))[i] = p[i] /\ SubSeq(r, 1, Len(p))[i] = r[i]
    BY <1>1
  <2> QED
    BY <1>1, <2>1
<1>3. SubSeq(r, Len(p) + 1, Len(r)) \in Seq(STRING)
  BY <1>1
<1>4. p \o SubSeq(r, Len(p) + 1, Len(r)) = r
  BY <1>1, <1>2, <1>3
<1> QED
  BY <1>3, <1>4

(* The pointers of a subtree are those below its root, without the root.    *)
LEMMA SubtreeDomain ==
    ASSUME NEW t, IsTree(t), NEW p \in Seq(STRING), NEW q
    PROVE  q \in DOMAIN Subtree(t, p) <=> q \in Seq(STRING) /\ p \o q \in DOMAIN t
<1>1. DOMAIN Subtree(t, p) = {SubSeq(r, Len(p) + 1, Len(r)) : r \in {r \in DOMAIN t : IsPrefix(p, r)}}
  BY DEF Subtree
<1>2. \A r \in DOMAIN t : r \in Seq(STRING)
  BY DEF IsTree
<1>3. ASSUME q \in DOMAIN Subtree(t, p) PROVE q \in Seq(STRING) /\ p \o q \in DOMAIN t
  <2>1. PICK r \in DOMAIN t : IsPrefix(p, r) /\ q = SubSeq(r, Len(p) + 1, Len(r))
    BY <1>1, <1>3
  <2> QED
    BY <1>2, <2>1, PrefixAndRest
<1>4. ASSUME q \in Seq(STRING), p \o q \in DOMAIN t PROVE q \in DOMAIN Subtree(t, p)
  <2>1. IsPrefix(p, p \o q) /\ SubSeq(p \o q, Len(p) + 1, Len(p \o q)) = q
    BY <1>4, Below
  <2>2. PICK r : r = p \o q
    OBVIOUS
  <2> QED
    BY <1>1, <1>4, <2>1, <2>2
<1> QED
  BY <1>3, <1>4

(* What a pointer resolves to in a tree is a tree (resolvePointer).         *)
LEMMA SubtreeIsTree ==
    ASSUME NEW t, IsTree(t), NEW p \in DOMAIN t
    PROVE  IsTree(Subtree(t, p))
<1> DEFINE s == Subtree(t, p)
<1>1. p \in Seq(STRING) /\ \A r \in DOMAIN t : r \in Seq(STRING)
  BY DEF IsTree
<1>2. \A q : q \in DOMAIN s <=> q \in Seq(STRING) /\ p \o q \in DOMAIN t
  BY <1>1, SubtreeDomain
<1>3. s = [q \in DOMAIN s |-> t[p \o q]]
  BY DEF Subtree
<1> HIDE DEF s
<1>4. s \in [DOMAIN s -> Nodes]
  <2>1. \A q \in DOMAIN s : t[p \o q] \in Nodes
    BY <1>2 DEF IsTree
  <2> QED
    BY <1>3, <2>1
<1>5. <<>> \in DOMAIN s
  <2>1. p \o <<>> = p /\ <<>> \in Seq(STRING)
    BY <1>1
  <2> QED
    BY <1>2, <2>1
<1>6. IsFiniteSet(DOMAIN s)
  <2> DEFINE f == [q \in DOMAIN s |-> p \o q]
  <2>1. f \in [DOMAIN s -> DOMAIN t]
    BY <1>2
  <2>2. \A q, r \in DOMAIN s : p \o q = p \o r => q = r
    <3> SUFFICES ASSUME NEW q \in DOMAIN s, NEW r \in DOMAIN s, p \o q = p \o r PROVE q = r
      OBVIOUS
    <3>1. q \in Seq(STRING) /\ r \in Seq(STRING)
      BY <1>2
    <3>2. SubSeq(p \o q, Len(p) + 1, Len(p \o q)) = q
      BY <1>1, <3>1, Below
    <3>3. SubSeq(p \o r, Len(p) + 1, Len(p \o r)) = r
      BY <1>1, <3>1, Below
    <3> QED
      BY <3>2, <3>3
  <2>3. \A q, r \in DOMAIN s : f[q] = f[r] => q = r
    BY <2>2
  <2> HIDE DEF f
  <2>4. PICK S, T : S = DOMAIN s /\ T = DOMAIN t
    OBVIOUS
  <2>5. f \in Injection(S, T)
    BY <2>1, <2>3, <2>4, Fun_IsInj
  <2>6. IsFiniteSet(T)
    BY <2>4 DEF IsTree
  <2>7. IsFiniteSet(S)
    BY <2>5, <2>6, FS_Injection
  <2> QED
    BY <2>4, <2>7
<1>7. ASSUME NEW q \in DOMAIN s, NEW k \in 0..Len(q) - 1
      PROVE  SubSeq(q, 1, k) \in DOMAIN s /\ s[SubSeq(q, 1, k)] = [kind |-> "map"]
  <2>1. q \in Seq(STRING) /\ p \o q \in DOMAIN t /\ Len(p) \in Nat /\ Len(q) \in Nat
    BY <1>1, <1>2
  <2>2. k \in 0..Len(q) /\ Len(p) + k \in 0..Len(p \o q) - 1 /\ SubSeq(q, 1, k) \in Seq(STRING)
    BY <1>1, <2>1
  <2>3. SubSeq(p \o q, 1, Len(p) + k) = p \o SubSeq(q, 1, k)
    BY <1>1, <2>1, <2>2, Below
  <2>4. SubSeq(p \o q, 1, Len(p) + k) \in DOMAIN t /\ t[SubSeq(p \o q, 1, Len(p) + k)] = [kind |-> "map"]
    BY <2>1, <2>2 DEF IsTree
  <2>5. SubSeq(q, 1, k) \in DOMAIN s
    BY <1>2, <2>2, <2>3, <2>4
  <2> QED
    BY <1>3, <2>3, <2>4, <2>5
<1> QED
  BY <1>2, <1>4, <1>5, <1>6, <1>7 DEF IsTree, s

(* A walk that emits nothing has compared equal trees, and conversely.      *)
LEMMA NoChangeIsSame ==
    ASSUME NEW b, NEW h, IsTree(b), IsTree(h), ~WalkNode(b, h).opaque
    PROVE  WalkNode(b, h).changes = {} <=> b = h
<1> DEFINE C == WalkNode(b, h).changes
<1>1. \A c : c \in C <=>
                \/ \E p \in Lost(b, h) : c = Change(p, "delete", Render(b[p]), None)
                \/ \E p \in Gained(b, h) : c = Change(p, "add", None, Render(h[p]))
                \/ \E p \in Altered(b, h) : c = Change(p, "modify", Render(b[p]), Render(h[p]))
  BY DecidedWalk
<1>2. \A p \in DOMAIN b \cap DOMAIN h : b[p] # h[p] => C # {}
  BY WalkTellsAll
<1> HIDE DEF C
<1>3. ASSUME C = {} PROVE b = h
  <2>1. Lost(b, h) = {} /\ Gained(b, h) = {}
    BY <1>1, <1>3
  <2>2. DOMAIN b = DOMAIN h
    BY <2>1 DEF Lost, Gained
  <2>3. \A p \in DOMAIN b : b[p] = h[p]
    BY <1>2, <1>3, <2>2
  <2>4. b = [p \in DOMAIN b |-> b[p]] /\ h = [p \in DOMAIN h |-> h[p]]
    BY DEF IsTree
  <2> QED
    BY <2>2, <2>3, <2>4
<1>4. ASSUME b = h PROVE C = {}
  <2>1. Lost(b, h) = {} /\ Gained(b, h) = {} /\ Altered(b, h) = {}
    BY <1>4 DEF Lost, Gained, Altered
  <2> QED
    BY <1>1, <2>1
<1> QED
  BY <1>3, <1>4 DEF C

(* The entries that came, went or differ.                                   *)
Touched(eb, eh, k) == k \notin DOMAIN eb \cap DOMAIN eh \/ eb[k] # eh[k]

(* The diff of one entry names that entry in each change, and has one       *)
(* exactly when the entry is touched (diffOneEntry).                        *)
LEMMA OneEntry ==
    ASSUME NEW eb, NEW eh, NEW k, ~EntryDiff(eb, eh, k).opaque,
           k \in DOMAIN eb => IsTree(eb[k]), k \in DOMAIN eh => IsTree(eh[k])
    PROVE  /\ \A c \in EntryDiff(eb, eh, k).changes : c.ref[1] = k
           /\ EntryDiff(eb, eh, k).changes # {} <=> Touched(eb, eh, k)
<1>1. CASE ~(k \in DOMAIN eb /\ k \in DOMAIN eh)
  <2>1. PICK x : /\ x \in {Change(<<k>>, "delete", None, None), Change(<<k>>, "add", None, None)}
                 /\ EntryDiff(eb, eh, k) = Decided({[x EXCEPT !.ref = <<k>>]})
    BY <1>1 DEF EntryDiff
  <2>2. [x EXCEPT !.ref = <<k>>].ref = <<k>>
    BY <2>1 DEF Change
  <2>3. EntryDiff(eb, eh, k).changes = {[x EXCEPT !.ref = <<k>>]}
    BY <2>1 DEF Decided
  <2> QED
    BY <1>1, <2>2, <2>3 DEF Touched
<1>2. CASE k \in DOMAIN eb /\ k \in DOMAIN eh
  <2>1. PICK b, h : b = eb[k] /\ h = eh[k]
    OBVIOUS
  <2>2. EntryDiff(eb, eh, k) = [WalkNode(b, h) EXCEPT !.changes = {[ch EXCEPT !.ref = <<k>>] : ch \in @}]
    BY <1>2, <2>1 DEF EntryDiff
  <2>3. IsTree(b) /\ IsTree(h)
    BY <1>2, <2>1
  <2>4. PICK o, x : WalkNode(b, h) = [opaque |-> o, changes |-> x]
    BY DEF WalkNode, Opaque, Decided
  <2>5. /\ EntryDiff(eb, eh, k).opaque = WalkNode(b, h).opaque
        /\ EntryDiff(eb, eh, k).changes = {[ch EXCEPT !.ref = <<k>>] : ch \in x}
    BY <2>2, <2>4
  <2>6. WalkNode(b, h).changes = x /\ ~WalkNode(b, h).opaque
    BY <2>4, <2>5
  <2>7. \A ch \in x : \E p, kk, old, new : ch = Change(p, kk, old, new)
    BY <2>3, <2>6, DecidedWalk
  <2>8. \A ch \in x : [ch EXCEPT !.ref = <<k>>].ref = <<k>>
    BY <2>7 DEF Change
  <2>9. x = {} <=> b = h
    BY <2>3, <2>6, NoChangeIsSame
  <2>10. Touched(eb, eh, k) <=> b # h
    BY <1>2, <2>1 DEF Touched
  <2>11. (EntryDiff(eb, eh, k).changes = {}) <=> (x = {})
    BY <2>5
  <2>12. \A c \in EntryDiff(eb, eh, k).changes : c.ref[1] = k
    <3> SUFFICES ASSUME NEW c \in EntryDiff(eb, eh, k).changes PROVE c.ref = <<k>>
      OBVIOUS
    <3>1. PICK ch \in x : c = [ch EXCEPT !.ref = <<k>>]
      BY <2>5
    <3> QED
      BY <2>8, <3>1
  <2> QED
    BY <2>9, <2>10, <2>11, <2>12
<1> QED
  BY <1>1, <1>2

(* A decided diff of entries names exactly the touched ones (DiffEntries).  *)
LEMMA EntriesTouched ==
    ASSUME NEW e, NEW b, NEW h, e.mode # "document", ~DiffEntries(e, b, h).opaque,
           \A k \in DOMAIN EntriesOf(e, b) : IsTree(EntriesOf(e, b)[k]),
           \A k \in DOMAIN EntriesOf(e, h) : IsTree(EntriesOf(e, h)[k])
    PROVE  {c.ref[1] : c \in DiffEntries(e, b, h).changes} =
             {k \in DOMAIN EntriesOf(e, b) \union DOMAIN EntriesOf(e, h) : Touched(EntriesOf(e, b), EntriesOf(e, h), k)}
<1>1. PICK eb, eh : eb = EntriesOf(e, b) /\ eh = EntriesOf(e, h)
  OBVIOUS
<1> DEFINE keys == DOMAIN eb \union DOMAIN eh
<1>2. /\ \A k \in keys : ~EntryDiff(eb, eh, k).opaque
      /\ DiffEntries(e, b, h) = Decided(UNION {EntryDiff(eb, eh, k).changes : k \in keys})
  BY <1>1 DEF DiffEntries, Opaque
<1>3. DiffEntries(e, b, h).changes = UNION {EntryDiff(eb, eh, k).changes : k \in keys}
  BY <1>2 DEF Decided
<1>4. \A k \in keys : /\ \A c \in EntryDiff(eb, eh, k).changes : c.ref[1] = k
                      /\ EntryDiff(eb, eh, k).changes # {} <=> Touched(eb, eh, k)
  BY <1>1, <1>2, OneEntry
<1> HIDE DEF keys
<1>5. {c.ref[1] : c \in DiffEntries(e, b, h).changes} = {k \in keys : Touched(eb, eh, k)}
  BY <1>3, <1>4
<1> QED
  BY <1>1, <1>5 DEF keys

(* A key of the mapping at the root is a field of it.                       *)
LEMMA FieldOfRoot ==
    ASSUME NEW t, IsTree(t), NEW root \in Seq(STRING), NEW k \in MapKeys(t, root)
    PROVE  Append(root, k) \in DOMAIN t
<1>1. PICK p \in DOMAIN t : Len(p) = Len(root) + 1 /\ IsPrefix(root, p) /\ k = p[Len(root) + 1]
  BY DEF MapKeys
<1>2. p \in Seq(STRING) /\ Len(root) \in Nat
  BY DEF IsTree
<1>3. root \o SubSeq(p, Len(root) + 1, Len(p)) = p
  BY <1>1, <1>2, PrefixAndRest
<1>4. SubSeq(p, Len(root) + 1, Len(p)) = <<k>>
  <2>1. PICK m, n : m = Len(root) + 1 /\ n = Len(p)
    OBVIOUS
  <2>2. m \in 1..Len(p) /\ n = m /\ k \in STRING
    BY <1>1, <1>2, <2>1
  <2>3. SubSeq(p, m, m) = <<p[m]>>
    <3>1. m \in Int /\ \A i \in m..m : p[i] \in STRING
      BY <1>2, <2>2
    <3>2. /\ SubSeq(p, m, m) \in Seq(STRING) /\ Len(SubSeq(p, m, m)) = 1
          /\ \A i \in 1..1 : SubSeq(p, m, m)[i] = p[m + i - 1]
      <4>1. m - m + 1 = 1 /\ m <= m
        BY <3>1
      <4> QED
        BY <3>1, <4>1, SubSeqProperties
    <3>3. SubSeq(p, m, m)[1] = p[m]
      BY <3>1, <3>2
    <3>4. PICK u, w : u = SubSeq(p, m, m) /\ w = <<p[m]>>
      OBVIOUS
    <3>5. w \in Seq(STRING) /\ Len(w) = 1 /\ w[1] = p[m]
      BY <3>1, <3>4
    <3>6. u \in Seq(STRING) /\ Len(u) = Len(w) /\ \A i \in 1..Len(u) : u[i] = w[i]
      BY <3>2, <3>3, <3>4, <3>5
    <3>7. u = w
      BY <3>5, <3>6, SeqEqual
    <3> QED
      BY <3>4, <3>7
  <2> QED
    BY <1>1, <2>1, <2>2, <2>3
<1>5. Append(root, k) = root \o <<k>>
  <2>1. k \in STRING
    BY <1>1, <1>2
  <2> QED
    BY <2>1, AppendIsConcat
<1> QED
  BY <1>3, <1>4, <1>5

(* The entries of a list, by label: which element each stands for.          *)
IndexOf(elems, id) ==
    CHOOSE i \in DOMAIN elems : /\ EntryKeyLabel(elems[i][Identity]) = id
                                /\ \A j \in 1..i - 1 : EntryKeyLabel(elems[j][Identity]) # id
Labels(elems) == {EntryKeyLabel(elems[i][Identity]) : i \in DOMAIN elems}

(* The two ways entries are read (Entries, map and list mode).              *)
LEMMA EntriesRead ==
    ASSUME NEW e, NEW c, EntriesOf(e, c) # Refused
    PROVE  /\ Parses(c)
           /\ \/ /\ e.mode = "map" /\ RootIs(e, c.tree, "map")
                 /\ EntriesOf(e, c) = [k \in MapKeys(c.tree, e.root) |-> Subtree(c.tree, Append(e.root, k))]
              \/ /\ e.mode = "list" /\ Indexable(c.elems)
                 /\ EntriesOf(e, c) = [id \in Labels(c.elems) |-> c.elems[IndexOf(c.elems, id)]]
  BY DEF EntriesOf, IndexOf, Labels

(* An index by identity finds, for each label, the element that has it.     *)
LEMMA IndexFinds ==
    ASSUME NEW elems, Len(elems) \in Nat, DOMAIN elems = 1..Len(elems), Indexable(elems), NEW id \in Labels(elems)
    PROVE  IndexOf(elems, id) \in DOMAIN elems
<1>1. PICK i \in DOMAIN elems : EntryKeyLabel(elems[i][Identity]) = id
  BY DEF Labels
<1>2. \A j \in 1..i - 1 : EntryKeyLabel(elems[j][Identity]) # id
  BY <1>1 DEF Indexable
<1> QED
  BY <1>1, <1>2 DEF IndexOf

(* Each entry of a document is a tree of its own.                           *)
LEMMA EntriesAreTrees ==
    ASSUME NEW e \in Configs, NEW c \in Contents[Governed], EntriesOf(e, c) # Refused
    PROVE  \A k \in DOMAIN EntriesOf(e, c) : IsTree(EntriesOf(e, c)[k])
<1>1. /\ IsTree(c.tree)
      /\ Len(c.elems) \in Nat /\ DOMAIN c.elems = 1..Len(c.elems)
      /\ \A i \in DOMAIN c.elems : IsTree(c.elems[i])
  BY EntriesRead, ChangeAssumption, ContentsAssumption DEF Parses, Doc
<1>2. CASE EntriesOf(e, c) = [k \in MapKeys(c.tree, e.root) |-> Subtree(c.tree, Append(e.root, k))]
  <2>1. e.root \in Seq(STRING)
    BY ConfigsAssumption
  <2>2. PICK t, r : t = c.tree /\ r = e.root
    OBVIOUS
  <2>3. ASSUME NEW k \in MapKeys(t, r) PROVE IsTree(Subtree(t, Append(r, k)))
    <3>1. PICK p : p = Append(r, k)
      OBVIOUS
    <3>2. p \in DOMAIN t
      BY <1>1, <2>1, <2>2, <2>3, <3>1, FieldOfRoot
    <3>3. IsTree(Subtree(t, p))
      BY <1>1, <2>2, <3>2, SubtreeIsTree
    <3> QED
      BY <3>1, <3>3
  <2> QED
    BY <1>2, <2>2, <2>3
<1>3. CASE /\ Indexable(c.elems)
           /\ EntriesOf(e, c) = [id \in Labels(c.elems) |-> c.elems[IndexOf(c.elems, id)]]
  <2>1. PICK s : s = c.elems
    OBVIOUS
  <2>2. \A id \in Labels(s) : IndexOf(s, id) \in DOMAIN s
    BY <1>1, <1>3, <2>1, IndexFinds
  <2> QED
    BY <1>1, <1>3, <2>1, <2>2
<1> QED
  BY <1>2, <1>3, EntriesRead

(* An index by identity has as many entries as the list has elements.       *)
LEMMA IndexSize ==
    ASSUME NEW elems, Len(elems) \in Nat, DOMAIN elems = 1..Len(elems), Indexable(elems)
    PROVE  Cardinality(Labels(elems)) = Len(elems)
<1> DEFINE S == 1..Len(elems)
<1> DEFINE T == Labels(elems)
<1> DEFINE f == [i \in S |-> EntryKeyLabel(elems[i][Identity])]
<1>1. f \in [S -> T] /\ (\A i, j \in S : f[i] = f[j] => i = j) /\ (\A x \in T : \E i \in S : f[i] = x)
  BY DEF Labels, Indexable
<1>2. IsFiniteSet(S) /\ Cardinality(S) = Len(elems)
  <2>1. PICK n : n \in Nat /\ n = Len(elems)
    OBVIOUS
  <2>2. 1 \in Int /\ n \in Int /\ (IF 1 > n THEN 0 ELSE n - 1 + 1) = n
    BY <2>1
  <2>3. IsFiniteSet(1..n) /\ Cardinality(1..n) = n
    BY <2>2, FS_Interval
  <2> QED
    BY <2>1, <2>3
<1> HIDE DEF S, T, f
<1>3. f \in Injection(S, T) /\ f \in Surjection(S, T)
  BY <1>1, Fun_IsInj, Fun_IsSurj
<1>4. Cardinality(T) = Cardinality(S)
  BY <1>2, <1>3, FS_Surjection
<1> QED
  BY <1>2, <1>4 DEF T

(* A decided diff of entries names exactly the entries that came, went or   *)
(* differ, and in list mode no two elements share an entry (DiffEntries).   *)
THEOREM EntryChangesAreTheEntriesHolds == Spec => []EntryChangesAreTheEntries
<1>1. ASSUME ChangeInv PROVE EntryChangesAreTheEntries
  <2>1. PICK b, h, e, cs : b = base[Governed] /\ h = head[Governed] /\ e = cfg.entries /\ cs = run.cs
    OBVIOUS
  <2> SUFFICES ASSUME run.at = "assembled", e.mode # "document", ~cs.opaque, ~OneSided(b, h)
               PROVE  /\ {c.ref[1] : c \in cs.changes} =
                            {k \in DOMAIN EntriesOf(e, b) \union DOMAIN EntriesOf(e, h) :
                                \/ k \notin DOMAIN EntriesOf(e, b) \cap DOMAIN EntriesOf(e, h)
                                \/ EntriesOf(e, b)[k] # EntriesOf(e, h)[k]}
                      /\ e.mode = "list" => /\ Cardinality(DOMAIN EntriesOf(e, b)) = Len(b.elems)
                                            /\ Cardinality(DOMAIN EntriesOf(e, h)) = Len(h.elems)
    BY <2>1 DEF EntryChangesAreTheEntries
  <2>2. b \in Contents[Governed] /\ h \in Contents[Governed] /\ e \in Configs
    BY <1>1, <2>1, ChangeAssumption DEF ChangeInv
  <2>3. cs = DiffEntries(e, b, h)
    BY <1>1, <2>1 DEF ChangeInv, At
  <2>4. EntriesOf(e, b) # Refused /\ EntriesOf(e, h) # Refused
    BY <2>3 DEF DiffEntries, Opaque
  <2>5. /\ \A k \in DOMAIN EntriesOf(e, b) : IsTree(EntriesOf(e, b)[k])
        /\ \A k \in DOMAIN EntriesOf(e, h) : IsTree(EntriesOf(e, h)[k])
    BY <2>2, <2>4, EntriesAreTrees
  <2>6. {c.ref[1] : c \in cs.changes} =
          {k \in DOMAIN EntriesOf(e, b) \union DOMAIN EntriesOf(e, h) : Touched(EntriesOf(e, b), EntriesOf(e, h), k)}
    BY <2>3, <2>5, EntriesTouched
  <2>7. ASSUME e.mode = "list", NEW c \in {b, h} PROVE Cardinality(DOMAIN EntriesOf(e, c)) = Len(c.elems)
    <3>1. c \in Contents[Governed] /\ EntriesOf(e, c) # Refused
      BY <2>2, <2>4, <2>7
    <3>2. Parses(c) /\ Indexable(c.elems) /\ DOMAIN EntriesOf(e, c) = Labels(c.elems)
      BY <2>7, <3>1, EntriesRead
    <3>3. Len(c.elems) \in Nat /\ DOMAIN c.elems = 1..Len(c.elems)
      BY <3>1, <3>2, ChangeAssumption, ContentsAssumption DEF Parses, Doc
    <3>4. PICK s : s = c.elems
      OBVIOUS
    <3> QED
      BY <3>2, <3>3, <3>4, IndexSize
  <2> QED
    BY <2>6, <2>7 DEF Touched
<1> QED
  BY <1>1, ChangeInvariant, PTL
==============================================================================
