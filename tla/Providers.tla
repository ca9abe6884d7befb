------------------------------ MODULE Providers ------------------------------
(***************************************************************************)
(* The provider host: resolveRunFacts (cmd/assent/provider_host.go), which *)
(* asks every configured provider for its fact, the classifier of          *)
(* internal/provider that decides what of an answer is believed, the       *)
(* builtins repo-file and resource-owner, and the check that the facts are *)
(* still fresh when the merge is armed (run_arming.go).  The forge and the *)
(* executable may change between any two steps and the clock runs on.      *)
(* Every declaration here has one output; outputs are classified alike and *)
(* independently of each other.                                            *)
(***************************************************************************)
EXTENDS Integers, SequencesExt

CONSTANTS
    Names,              \* the configured providers, in name order
    Kinds,              \* the kinds a provider may have
    Decls,              \* host declarations the target branch may hold
    Registries,         \* what a resource-owner registry may be
    Checkouts,          \* checkouts of the MR: [fs, registry, tree, roots]
    Anchor, File,       \* path of the change, base name of the repo-file document
    Replies,            \* what an http or exec provider may answer
    Controlling,        \* providers a require-review rule's prove.when names
    Ceiling,            \* host maxAge ceilings, by type, and "sensitive"
    MaxTime, MaxMoves   \* bounds

Entries == {"dir", "symlink", "good", "nokey", "bad"}

ASSUME ProvidersAssumption ==
    /\ Names \in Seq(STRING) /\ IsInjective(Names) /\ Controlling \subseteq Range(Names)
    /\ {MaxTime, MaxMoves} \subseteq Nat
    /\ Anchor \in Seq(STRING) /\ Len(Anchor) >= 1 /\ File \in STRING
ASSUME RepliesAssumption ==
    \A reply \in Replies :
        /\ reply.status \in {"ok", "error", "undecodable", "offSchema"}
        /\ Len(reply.facts) \in Nat /\ DOMAIN reply.facts = 1..Len(reply.facts)
        /\ \A i \in DOMAIN reply.facts : reply.facts[i].expires \in Int
(* The tree of a checkout has the directories of every path it has.        *)
ASSUME CheckoutsAssumption ==
    \A c \in Checkouts :
        /\ c.roots \subseteq Seq(STRING)
        /\ \A p \in DOMAIN c.tree :
              /\ p \in Seq(STRING) /\ c.tree[p] \in Entries
              /\ \A k \in 1..Len(p) : SubSeq(p, 1, k) \in DOMAIN c.tree

VARIABLES
    kind,       \* the Config's provider types (loaded before)
    target,     \* the target branch: declarations and the registry
    checkout,   \* the --checkout tree
    binary,     \* whether the executable has the pinned digest
    clock,
    run,        \* the run: position, pinned instant, loaded declaration
    facts,      \* EvaluationInput.Facts: the providers bound so far
    past        \* history: reads and answers the facts came from

vars == <<kind, target, checkout, binary, clock, run, facts, past>>

Absent == "absent"
NoDecl == [output |-> "", type |-> "", sensitive |-> FALSE, maxAge |-> 0, section |-> FALSE]
Nothing == [at |-> Absent]
NoneYet == [n \in {} |-> 0]
Put(f, n, v) == [x \in DOMAIN f \union {n} |-> IF x = n THEN v ELSE f[x]]

Init ==
    /\ kind \in [Range(Names) -> Kinds]
    /\ target \in [decl : [Range(Names) -> Decls \union {Nothing}], registry : Registries, moves : {0}]
    /\ checkout \in Checkouts
    /\ binary = "pinned"
    /\ clock = 0
    /\ run = [at |-> "start", i |-> 1, asOf |-> 0, decl |-> NoDecl, registry |-> Absent,
              armed |-> FALSE]
    /\ facts = NoneYet
    /\ past = [decl |-> NoneYet, reply |-> NoneYet, when |-> NoneYet, seen |-> NoneYet, verified |-> {}]

-----------------------------------------------------------------------------
Tick ==
    /\ clock < MaxTime /\ run.at \notin {"done", "failed"}
    /\ clock' = clock + 1
    /\ UNCHANGED <<kind, target, checkout, binary, run, facts, past>>

(* The provider host reads at the target branch by name, so it follows     *)
(* commits that land there while it works.                                 *)
TargetMoves ==
    /\ target.moves < MaxMoves /\ run.at \notin {"start", "done", "failed"}
    /\ \E n \in DOMAIN kind : kind[n] = "resource-owner"
    /\ \E r \in Registries \ {target.registry} :
          target' = [target EXCEPT !.registry = r, !.moves = @ + 1]
    /\ UNCHANGED <<kind, checkout, binary, clock, run, facts, past>>

BinaryReplaced ==
    /\ binary = "pinned" /\ \E n \in DOMAIN kind : kind[n] = "exec"
    /\ run.at \notin {"done", "failed"}
    /\ binary' = "other"
    /\ UNCHANGED <<kind, target, checkout, clock, run, facts, past>>

-----------------------------------------------------------------------------
Name == Names[run.i]
At(stage) == run.at = stage
Goto(stage) == run' = [run EXCEPT !.at = stage]
Fail == Goto("failed") /\ UNCHANGED <<facts, past>>
Skip == [run EXCEPT !.at = "declaration", !.i = @ + 1]
HostOnly == UNCHANGED <<kind, target, checkout, binary, clock>>

(* The instant is pinned once; a --checkout that cannot be opened ends it. *)
Begin ==
    /\ At("start")
    /\ run' = [run EXCEPT !.at = IF checkout.fs = "unreadable" THEN "failed" ELSE "declaration",
                          !.asOf = clock]
    /\ UNCHANGED <<facts, past>> /\ HostOnly

(* MaxAgeCeiling, ValidateDeclarationMaxAge: over the ceiling is refused,  *)
(* never clamped.  maxAge 0 stands for one that is absent or not positive. *)
MaxAgeCeiling(d) == IF d.sensitive THEN Ceiling["sensitive"] ELSE Ceiling[d.type]
ValidDeclaration(d) == d.type \in DOMAIN Ceiling /\ d.maxAge \in 1..MaxAgeCeiling(d)

(* providerCallFor: where the call of a provider of this kind starts.      *)
CallFor(k, d) ==
    CASE k = "http" -> "answer"
      [] k = "exec" -> IF d.section THEN "verify" ELSE "failed"
      [] k = "repo-file" -> IF ~d.section THEN "failed"
                            ELSE IF checkout.fs = "none" THEN "skip" ELSE "repo-file"
      [] k = "resource-owner" -> IF d.section THEN "registry" ELSE "failed"
      [] OTHER -> "skip"                   \* forge-groups, no url, unknown type

LoadDeclaration ==
    LET d == target.decl[Name]
    IN /\ At("declaration") /\ run.i <= Len(Names)
       /\ \/ d = Nothing /\ run' = Skip /\ UNCHANGED past
          \/ d # Nothing /\ ~ValidDeclaration(d) /\ Goto("failed") /\ UNCHANGED past
          \/ /\ d # Nothing /\ ValidDeclaration(d)
             /\ run' = IF CallFor(kind[Name], d) = "skip" THEN Skip
                       ELSE [run EXCEPT !.at = CallFor(kind[Name], d), !.decl = d]
             /\ past' = [past EXCEPT !.decl = Put(@, Name, d)]
       /\ UNCHANGED facts /\ HostOnly

(* Any failure of FileAtRef that is not ErrNotFound ends the run.          *)
ForgeFails ==
    /\ (At("declaration") /\ run.i <= Len(Names)) \/ At("registry")
    /\ Fail /\ HostOnly

-----------------------------------------------------------------------------
(* The classifier (ResolveFactsChecked).  A reply is [status, queryId,     *)
(* major, facts]; its facts are [name, state, expires, like], "like" saying*)
(* whether the declaration they echo is the host's.                        *)
NoValue == "none"
Fact(state, value, expires) == [state |-> state, value |-> value, expires |-> expires]
HostMajor == 1

(* Defect: the answer to another provider's query will do.                 *)
AnyQuery(reply, name) == reply.queryId \in Range(Names)

AnswersQuery(reply, name) == reply.queryId = name

(* byName: the last fact of a name is the one that counts.                 *)
ByName(list, output) == {i \in DOMAIN list : list[i].name = output}

ResolveFactsChecked(reply, d, name) ==
    LET named == ByName(reply.facts, d.output)
        f == reply.facts[Max(named)]
    IN IF reply.status = "error" THEN Fact("unavailable", NoValue, 0)
       ELSE IF reply.status = "undecodable" THEN Fact("invalid", NoValue, 0)
       ELSE IF reply.major # HostMajor THEN Fact("unavailable", NoValue, 0)
       ELSE IF \/ reply.status = "offSchema" \/ ~AnswersQuery(reply, name)
               \/ named = {} \/ ~f.like
       THEN Fact("invalid", NoValue, 0)
       ELSE IF f.state # "resolved" THEN Fact(f.state, NoValue, 0)
       ELSE IF f.expires <= run.asOf THEN Fact("expired", NoValue, f.expires)
       ELSE Fact("resolved", f.value, f.expires)

Bind(reply) ==
    /\ facts' = Put(facts, Name, ResolveFactsChecked(reply, run.decl, Name))
    /\ past' = [past EXCEPT !.reply = Put(@, Name, reply), !.when = Put(@, Name, clock)]
    /\ run' = Skip
    /\ HostOnly

CallFailed == [status |-> "error", queryId |-> "", major |-> 0, facts |-> <<>>]

(* The call may time out, exceed MaxResponseBytes or answer anything;      *)
(* CallExec is this far once its process is spawned.                       *)
Answer(k) ==
    /\ At("answer") /\ kind[Name] = k
    /\ \E reply \in Replies \union {CallFailed} : Bind(reply)

CallHTTP == Answer("http")
CallExec == Answer("exec")

VerifyExecDigest == binary = "pinned"

(* CallExec reads and hashes the file, then spawns whatever is there.      *)
Verify ==
    /\ At("verify")
    /\ IF VerifyExecDigest
       THEN /\ Goto("answer") /\ UNCHANGED facts /\ HostOnly
            /\ past' = IF binary = "pinned" THEN [past EXCEPT !.verified = @ \union {Name}] ELSE past
       ELSE Bind(CallFailed)

(* What a builtin answers: its own API version, the query's id.            *)
BuiltinReply(state, value, like, maxAge) ==
    [status |-> "ok", queryId |-> Name, major |-> HostMajor,
     facts |-> <<[name |-> run.decl.output, state |-> state, value |-> value,
                  expires |-> run.asOf + maxAge, like |-> like]>>]

-----------------------------------------------------------------------------
(* repo-file: the nearest document up from the change.  Paths are          *)
(* sequences of names; the tree maps every path that exists to one of      *)
(* Entries ("good", "nokey" and "bad": a document that has the key, lacks  *)
(* it or does not decode).                                                 *)
Candidates == LET dir == Front(Anchor)
              IN [k \in 1..Len(dir) + 1 |-> Append(SubSeq(dir, 1, Len(dir) + 1 - k), File)]

(* cleanRoots drops ".", which alone means no clip.                        *)
Roots == {r \in checkout.roots : r # <<>>}
UnderAnyRoot(p) == \E r \in Roots : IsPrefix(r, p)
InRoots(p) == Roots = {} \/ UnderAnyRoot(p)

EntryAt(p) == IF p \in DOMAIN checkout.tree THEN checkout.tree[p] ELSE Absent

(* classifyCandidate: the components of the path, outermost first.         *)
ClassifyCandidate(p) ==
    LET odd(k) == EntryAt(SubSeq(p, 1, k)) \in {Absent, "symlink"}
        bad == {k \in 1..Len(p) : odd(k)}
    IN IF bad # {} THEN IF EntryAt(SubSeq(p, 1, Min(bad))) = "symlink"
                        THEN "symlink" ELSE "miss"
       ELSE IF EntryAt(p) = "dir" THEN "miss" ELSE "file"

(* Defect: the walk passes over a candidate behind a symlink.              *)
SkipsSymlinks(c) == c = "file"

StopsWalk(c) == c \in {"file", "symlink"}

FindMostSpecific ==
    LET stops == {k \in DOMAIN Candidates : InRoots(Candidates[k])
                                              /\ StopsWalk(ClassifyCandidate(Candidates[k]))}
    IN IF stops = {} THEN <<>> ELSE Candidates[Min(stops)]

CallRepoFile ==
    LET doc == FindMostSpecific
        state == IF \/ Roots # {} /\ ~UnderAnyRoot(Anchor)
                    \/ doc = <<>> \/ ClassifyCandidate(doc) = "symlink"
                 THEN "unavailable"
                 ELSE IF EntryAt(doc) \in {"bad", "nokey"} THEN "invalid" ELSE "resolved"
    IN At("repo-file") /\ Bind(BuiltinReply(state, doc, TRUE, run.decl.maxAge))

-----------------------------------------------------------------------------
(* resource-owner.  A registry is "lists" or "lacks" (the resource),       *)
(* "malformed", Absent or, in the checkout, "symlink".                     *)

RegistrySource == IF target.registry # Absent THEN "target" ELSE "checkout"

LoadResourceOwnerRegistry ==
    LET inCheckout == IF checkout.fs = "none" THEN Absent ELSE checkout.registry
        registry == IF RegistrySource = "target" THEN target.registry ELSE inCheckout
    IN /\ At("registry")
       /\ IF registry \in {Absent, "malformed", "symlink"} THEN Fail
          ELSE /\ run' = [run EXCEPT !.at = "owner", !.registry = registry]
               /\ past' = [past EXCEPT !.seen =
                                Put(@, Name, [target |-> target.registry, from |-> RegistrySource])]
               /\ UNCHANGED facts
       /\ HostOnly

(* answerResourceOwner declares its one output itself.                     *)
OwnerDeclaration == [type |-> "string", sensitive |-> FALSE, maxAge |-> Ceiling["string"]]
IsOwnerDeclaration(d) == [type |-> d.type, sensitive |-> d.sensitive, maxAge |-> d.maxAge] = OwnerDeclaration

CallResourceOwner ==
    LET state == IF run.decl.output # "owner" THEN "invalid"
                 ELSE IF run.registry = "lacks" THEN "unavailable" ELSE "resolved"
    IN At("owner") /\ Bind(BuiltinReply(state, past.seen[Name].from, IsOwnerDeclaration(run.decl),
                                        OwnerDeclaration.maxAge))

-----------------------------------------------------------------------------
Resolved == /\ At("declaration") /\ run.i > Len(Names)
            /\ Goto("arm")
            /\ UNCHANGED <<facts, past>> /\ HostOnly

(* Defect: freshness is judged at the evaluation instant.                  *)
AtEvaluation == run.asOf

ArmTime == clock

(* controllingFactsFreshAt: no facts at all count as fresh.                *)
ControllingFactsFreshAt(t) ==
    \/ DOMAIN facts = {}
    \/ \A n \in Controlling : /\ n \in DOMAIN facts
                              /\ facts[n].state = "resolved"
                              /\ facts[n].expires > t

(* The engine has approved; the run arms the merge only on fresh facts.    *)
Arm == /\ At("arm")
       /\ run' = [run EXCEPT !.at = "done", !.armed = ControllingFactsFreshAt(ArmTime)]
       /\ UNCHANGED <<facts, past>> /\ HostOnly

Ended == At("done") \/ At("failed")
Terminated == Ended /\ UNCHANGED vars

Host ==
    \/ Begin \/ LoadDeclaration \/ ForgeFails
    \/ CallHTTP \/ CallExec \/ Verify \/ CallRepoFile
    \/ LoadResourceOwnerRegistry \/ CallResourceOwner
    \/ Resolved \/ Arm

Next == Host \/ Tick \/ TargetMoves \/ BinaryReplaced \/ Terminated

Spec == Init /\ [][Next]_vars
==============================================================================
