------------------------------ MODULE MCChange ------------------------------
(***************************************************************************)
(* The instance of Change for TLC: a governed document over two keys, one  *)
(* of which may hold a mapping, a list or a scalar; a policy file and one  *)
(* more file beside it.                                                    *)
(***************************************************************************)
EXTENDS ChangeProps, TLC

Topic == <<"topics", "t">>
Policy == <<".assent", "p">>
Other == <<"o">>
MCFiles == {Topic, Policy, Other}

Scalar(tag, lit) == [kind |-> "scalar", tag |-> tag, lit |-> lit]
One == Scalar("int", "1")
OneF == Scalar("float", "1")
OneS == Scalar("str", "1")
Two == Scalar("int", "2")
Map == [kind |-> "map"]
Seqn == [kind |-> "seq"]
Leaf(n) == <<>> :> n
Field(k, t) == [p \in {<<k>> \o q : q \in DOMAIN t} |-> t[Tail(p)]]
Branch(ts) == (<<>> :> Map) @@ ts
NoTree == [p \in {} |-> 0]

Leaves == {Leaf(n) : n \in {One, OneF, OneS, Two}}
Inner == Leaves \union {Leaf(Seqn), Leaf(Map)} \union {Branch(Field("a", t)) : t \in {Leaf(One), Leaf(OneS), Leaf(Seqn)}}
MCTrees == {Branch(fa @@ fb) : fa \in {NoTree} \union {Field("a", t) : t \in Inner},
                               fb \in {NoTree} \union {Field("b", t) : t \in Inner}}
             \union {Branch(Field("a", Leaf(One)) @@ Field("b", Leaf(One)) @@ Field("c", Leaf(Two)))}
             \union {Branch(Field("c", Leaf(One)))}
             \union {Branch(Field("a", Branch(Field("a", Branch(Field("a", Leaf(One)))))))}

Kind(k) == [kind |-> k]
Document(t, e) == [kind |-> "doc", tree |-> t, elems |-> e]

(* Lists at /a of up to two elements.                                      *)
ListTree == Branch(Field("a", Leaf(Seqn)))
Elems == {Branch(Field("id", Leaf(i)) @@ v) : i \in {One, OneS, Two}, v \in {NoTree, Field("v", Leaf(One)), Field("v", Leaf(Two)), Field("v", Leaf(Seqn))}}
           \union {Leaf(One), Branch(Field("v", Leaf(One)))}
Lists == {<<>>} \union {<<e>> : e \in Elems} \union {<<e, f>> : e \in Elems, f \in Elems}
ListDocs == {Document(ListTree, l) : l \in Lists}
TreeDocs == {Document(t, <<>>) : t \in MCTrees}
Small == {Kind("absent"), Kind("empty"), Kind("bad"), Kind("symlink"),
          Document(Branch(Field("a", Leaf(One))), <<>>), Document(Branch(Field("a", Leaf(Two))), <<>>)}
MCContents == [f \in MCFiles |-> IF f = Topic THEN Small \union TreeDocs \union ListDocs ELSE Small]

Cfg(m, r, p) == [mode |-> m, root |-> r, projected |-> p]
MCConfigs == {Cfg("document", <<>>, TRUE), Cfg("map", <<>>, TRUE), Cfg("map", <<"a">>, TRUE),
              Cfg("list", <<"a">>, TRUE), Cfg("list", <<"a">>, FALSE)}
MCIdentity == <<"id">>

(* Where the instance is large: documents or siblings, not both at once.   *)
Still == [f \in MCFiles |-> Kind("empty")]
Pairs(S) == S \X S
Starts ==
    [pair : Pairs(TreeDocs \union Small), sib : {<<Still, Still>>},
     cfg : [tool : {"checkout"}, entries : {Cfg("document", <<>>, TRUE)}]
             \union [tool : {"test"}, entries : {c \in MCConfigs : c.mode # "list"}]]
      \union [pair : Pairs(ListDocs), sib : {<<Still, Still>>},
              cfg : [tool : {"test"}, entries : {c \in MCConfigs : c.mode = "list"}]]
      \union [pair : Pairs(Small), sib : Pairs([{Policy, Other} -> Small]),
              cfg : [tool : {"checkout", "forge"}, entries : {Cfg("document", <<>>, TRUE)}]]

MCInit ==
    \E s \in Starts :
        /\ base = (Topic :> s.pair[1]) @@ s.sib[1]
        /\ head = (Topic :> s.pair[2]) @@ s.sib[2]
        /\ cfg = s.cfg
        /\ forge = [paths |-> Differ, complete |-> TRUE]
        /\ run = [at |-> "read", left |-> {}, cs |-> Opaque, class |-> "unclassified"]
MCSpec == MCInit /\ [][Next]_vars
==============================================================================
