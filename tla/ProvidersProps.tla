--------------------------- MODULE ProvidersProps ---------------------------
(***************************************************************************)
(* What the provider host promises the engine, which believes resolved     *)
(* facts, and the arming of the merge, which acts on them.                 *)
(***************************************************************************)
EXTENDS Providers

ResolvedBy(k) == {n \in DOMAIN facts : kind[n] = k /\ facts[n].state = "resolved"}

(* The reply that a fact came from, and the fact of it that counts.        *)
Vetted(n) ==
    LET reply == past.reply[n]
    IN /\ reply.queryId = n /\ reply.major = HostMajor /\ reply.status = "ok"
       /\ \E i \in DOMAIN reply.facts :
             LET f == reply.facts[i]
             IN /\ f.name = past.decl[n].output /\ f.like /\ f.state = "resolved"
                /\ f.value = facts[n].value /\ f.expires > run.asOf
                /\ \A j \in i + 1..Len(reply.facts) : reply.facts[j].name # f.name

(* A resolved fact of an outside provider is one that the provider gave to *)
(* this query, in the host's major and under the declaration of the target *)
(* branch, still valid at the pinned instant, and an executable gave it    *)
(* only after its digest was found to be the pinned one, whatever other    *)
(* answers and duplicates the transport delivered (ResolveFactsChecked).   *)
ResolvedIsVetted ==
    /\ \A n \in ResolvedBy("http") \union ResolvedBy("exec") : Vetted(n)
    /\ ResolvedBy("exec") \subseteq past.verified

(* A path of the tree that git tracks, reached without following a link.   *)
Plain(p) == \A k \in 1..Len(p) : SubSeq(p, 1, k) \in DOMAIN checkout.tree
                                   /\ checkout.tree[SubSeq(p, 1, k)] # "symlink"

(* The document at p governs the change: it is in the roots, at or above   *)
(* the change, not behind a link, with nothing of its name nearer.         *)
Governs(p) ==
    /\ Plain(p) /\ checkout.tree[p] = "good"
    /\ IsPrefix(Front(p), Anchor) /\ Last(p) = File
    /\ checkout.roots \ {<<>>} # {} => \E r \in checkout.roots : r # <<>> /\ IsPrefix(r, p)
    /\ \A k \in Len(p)..Len(Anchor) - 1 :
          LET near == Append(SubSeq(Anchor, 1, k), File)
          IN InRoots(near) => /\ Plain(near) => checkout.tree[near] = "dir"
                              /\ ~\E j \in 1..k : EntryAt(SubSeq(Anchor, 1, j)) = "symlink"

(* A builtin's fact is read from the file that governs: the owner from the *)
(* target branch's registry unless that branch had none when it was read   *)
(* (never because the forge did not answer), a repo-file value from the    *)
(* nearest document in the roots (findMostSpecific).                       *)
BuiltinsReadGovernedFiles ==
    /\ \A n \in ResolvedBy("resource-owner") :
          facts[n].value = "checkout" => past.seen[n].target = Absent
    /\ \A n \in ResolvedBy("repo-file") : Governs(facts[n].value)

(* The merge is armed only on controlling facts that are still valid when  *)
(* it is armed, however long the providers took after the instant was      *)
(* pinned, except that a run whose providers were all skipped has nothing  *)
(* to check (controllingFactsFreshAt).                                     *)
ArmedOnLiveFacts ==
    [][run'.armed /\ ~run.armed =>
          \/ DOMAIN facts = {}
          \/ \A n \in Controlling : n \in DOMAIN facts /\ facts[n].state = "resolved"
                                      /\ facts[n].expires > clock]_vars

(* "every controlling authorization fact must still be within maxAge at    *)
(* armTime" (run_arming.go:14): since its answer came, no more time passed *)
(* than the maxAge of its declaration, which the host's ceilings bound.    *)
ArmedWithinMaxAge ==
    [][run'.armed /\ ~run.armed =>
          \A n \in Controlling \cap DOMAIN facts :
             clock <= past.when[n] + past.decl[n].maxAge]_vars
==============================================================================
