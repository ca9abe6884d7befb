---------------------------- MODULE MCProviders ----------------------------
(***************************************************************************)
(* The instance of Providers for TLC: two providers of every kind, with    *)
(* the change at a/b/x and the document f.                                 *)
(***************************************************************************)
EXTENDS ProvidersProps, TLC

MCNames == <<"p", "q">>
MCAnchor == <<"a", "b", "x">>
MCCeiling == [string |-> 3, principal |-> 2, sensitive |-> 1]

Decl(out, type, age) == [output |-> out, type |-> type, sensitive |-> FALSE, maxAge |-> age,
                         section |-> TRUE]
MCDecls == {Decl("owner", "string", 3), Decl("owner", "principal", 1), Decl("groups", "string", 3),
            Decl("owner", "principal", 3), Decl("owner", "unknown", 1),
            [Decl("owner", "string", 2) EXCEPT !.sensitive = TRUE],
            [Decl("owner", "string", 2) EXCEPT !.section = FALSE]}
OneDecl == {Decl("owner", "principal", 1)}

MCRegistries == {Absent, "lists", "lacks", "malformed"}

MCFacts == [name : {"owner"}, state : {"resolved"}, value : {"v"}, expires : {0, 2, 4}, like : {TRUE}]
             \union [name : {"owner"}, state : {"unavailable"}, value : {NoValue}, expires : {0}, like : {TRUE}]
             \union [name : {"owner", "groups"}, state : {"resolved"}, value : {"v"}, expires : {4}, like : {FALSE}]
Reply(s, q, m, f) == [status |-> s, queryId |-> q, major |-> m, facts |-> f]
Valid(t) == [name |-> "owner", state |-> "resolved", value |-> "v", expires |-> t, like |-> TRUE]
MCReplies ==
    {Reply("ok", q, 1, <<f>>) : q \in {"p", "q"}, f \in MCFacts}
      \union {Reply("ok", "p", 2, <<Valid(4)>>)}
      \union {Reply("ok", "p", 1, <<f, Valid(2)>>) : f \in MCFacts}
      \union {Reply("ok", "p", 1, <<Valid(2), f>>) : f \in MCFacts}
      \union {Reply(s, "p", 1, <<Valid(4)>>) : s \in {"undecodable", "offSchema"}}
FewReplies == {Reply("ok", "p", 1, <<f>>) : f \in MCFacts}

(* Trees: the directories a and a/b, and f in each directory.              *)
Dirs == {"dir", "symlink"}
Docs == {Absent, "good", "nokey", "symlink"}
TreeOf(da, db, f0, f1, f2) ==
    LET all == (<<"a">> :> da) @@ (<<"a", "b">> :> db) @@ (<<"f">> :> f0)
                 @@ (<<"a", "f">> :> f1) @@ (<<"a", "b", "f">> :> f2)
    IN [p \in {p \in DOMAIN all : all[p] # Absent} |-> all[p]]
Closed(tree) == \A p \in DOMAIN tree : \A k \in 1..Len(p) : SubSeq(p, 1, k) \in DOMAIN tree
AllTrees == {TreeOf(da, db, f0, f1, f2) :
                 da \in Dirs, db \in Dirs \union {Absent}, f0 \in {Absent, "good", "dir"},
                 f1 \in Docs, f2 \in Docs \union {"bad"}}
Trees == {t \in AllTrees : Closed(t)}
MCRoots == {{}, {<<"a">>}, {<<>>, <<"a">>}, {<<"a", "b">>}, {<<"a", "b">>, <<"f">>}, {<<"c">>}}
SomeTree == TreeOf("dir", "dir", "good", Absent, Absent)
OneCheckout == [fs : {"none"}, registry : {Absent}, tree : {SomeTree}, roots : {{}}]
MCCheckouts ==
    [fs : {"open"}, registry : {Absent}, tree : Trees, roots : MCRoots]
      \union [fs : {"open"}, registry : {"lists", "lacks", "symlink"}, tree : {SomeTree}, roots : {{}}]
      \union [fs : {"none", "unreadable"}, registry : {Absent}, tree : {SomeTree}, roots : {{}}]

(* The kinds are spread over the instance: a tree matters to repo-file, a  *)
(* registry to resource-owner, the replies to http and exec.               *)
Relevant ==
    LET ks == Range(kind)
        trees == checkout.tree # SomeTree \/ checkout.roots # {}
    IN /\ "repo-file" \notin ks => ~trees
       /\ trees => ks \subseteq {"repo-file", "other"} /\ target.registry = Absent
                     /\ \A n \in DOMAIN kind : target.decl[n] \in {Nothing, Decl("owner", "string", 3)}
       /\ "resource-owner" \notin ks => target.registry = Absent /\ checkout.registry = Absent
       /\ target.decl["q"] \in {Nothing, Decl("owner", "string", 3)}
       /\ kind["q"] = "repo-file" => ~trees
MCInit == Init /\ Relevant
MCSpec == MCInit /\ [][Next]_vars
=============================================================================
