------------------------------- MODULE GitHub -------------------------------
(***************************************************************************)
(* The GitHub adapter (internal/forge/github): one client, the caches it   *)
(* keeps for the life of a process, and a pull request that moves under    *)
(* it.  A port call is a sequence of requests and every request is a step, *)
(* so the pull request may change between any two of them.  The paged      *)
(* comment listings are module Listings.                                   *)
(*                                                                         *)
(* A commit is a model value; its content is abstracted to whether the     *)
(* governed file exists in it (Holds) and to the entries of its changed-   *)
(* file listing (Diff).  A merge-result digest is the pair it was made of. *)
(***************************************************************************)
EXTENDS Integers, Sequences, FiniteSetsExt

CONSTANTS
    Heads, Bases,    \* commits of the source and of the target branch
    NoSHA,           \* the empty string where a SHA or a digest is expected
    Diff,            \* [Heads -> Seq([filename, previous])], the pull-files listing
    NoPath,          \* the empty previous_filename
    Holds,           \* the commits that contain the governed file
    TopSHA,          \* the PR object carries a top-level `sha`
    PerPage, MaxListPages, PullFilesCap,   \* listPerPage, maxListPages, pullFilesCap
    MaxCalls, MaxMoves                     \* bounds: port calls, changes of the pull request

ASSUME GitHubAssumption ==
    /\ Heads \cap Bases = {} /\ NoSHA \notin Heads \union Bases /\ NoSHA \notin Heads \X Bases
    /\ Holds \subseteq Heads \union Bases
    /\ \A h \in Heads : Diff[h] \in Seq({Diff[h][i] : i \in DOMAIN Diff[h]})
    /\ {TopSHA} \subseteq BOOLEAN
    /\ {PerPage, MaxListPages, PullFilesCap} \subseteq Nat \ {0}
    /\ {MaxCalls, MaxMoves} \subseteq Nat

VARIABLES
    pr,      \* the forge: the pull request and what was written to it
    client,  \* the adapter's caches
    call,    \* the port call in progress, or the last one
    snap,    \* the last forge.Snapshot returned, the caller's merge request
    past     \* history: what the properties compare with

vars == <<pr, client, call, snap, past>>

Digests == (Heads \X Bases) \union {NoSHA}
NoInfo == [source |-> NoSHA, target |-> NoSHA, read |-> FALSE]
NoSnap == [source |-> NoSHA, target |-> NoSHA, digest |-> NoSHA, paths |-> {},
           complete |-> FALSE, pinning |-> "unknown"]
NoCall == [op |-> "none", at |-> "done", ref |-> NoSHA, info |-> NoInfo, digest |-> NoSHA,
           page |-> 1, entries |-> 0, paths |-> {}, out |-> "none", took |-> FALSE]

Init ==
    /\ pr \in [source : Heads, target : Bases, forkGone : {FALSE},
               mergeable : {"", "unknown", "clean"}, mergeRef : Digests, counted : BOOLEAN,
               scope : BOOLEAN, approvals : {{}}, anchors : {{}}, merged : {NoSHA}, moves : {0}]
    /\ pr.mergeRef = IF pr.mergeable = "clean" THEN <<pr.source, pr.target>> ELSE NoSHA
    /\ client = [pin |-> NoInfo, scopeOK |-> {}, mergeRefState |-> "",
                 lastMergeState |-> "", lastChangedFiles |-> -1]
    /\ call = NoCall
    /\ snap = NoSnap
    /\ past = [first |-> NoInfo, reads |-> {}, revoked |-> {},
               sourceMoved |-> FALSE, targetMoved |-> FALSE, calls |-> 0]

-----------------------------------------------------------------------------
(* The pull request, as others change it.  The merge ref is minted by a    *)
(* job of the forge; until then it describes older heads and, after a      *)
(* push, mergeable_state is "unknown".                                     *)
Move(new, moved) ==
    /\ pr.moves < MaxMoves /\ pr.merged = NoSHA
    /\ pr' = [new EXCEPT !.moves = @ + 1]
    /\ past' = moved
    /\ UNCHANGED <<client, call, snap>>

Push(h) ==
    /\ h # pr.source /\ ~pr.forkGone
    /\ \E r \in {pr.mergeRef, NoSHA} :
          Move([pr EXCEPT !.source = h, !.mergeable = "unknown", !.mergeRef = r],
               [past EXCEPT !.sourceMoved = TRUE])

AdvanceBase(b) ==
    /\ b # pr.target
    /\ Move([pr EXCEPT !.target = b], [past EXCEPT !.targetMoved = TRUE])

MintMergeRef ==
    /\ pr.mergeRef # <<pr.source, pr.target>>
    /\ Move([pr EXCEPT !.mergeRef = <<pr.source, pr.target>>, !.mergeable = "clean"], past)

Block ==
    /\ pr.mergeable # "blocked"
    /\ Move([pr EXCEPT !.mergeable = "blocked"], past)

DeleteFork == ~pr.forkGone /\ Move([pr EXCEPT !.forkGone = TRUE], past)

RevokeScope == /\ pr.scope
               /\ Move([pr EXCEPT !.scope = FALSE], [past EXCEPT !.revoked = client.scopeOK])

ForgeMoves ==
    \/ \E h \in Heads : Push(h)
    \/ \E b \in Bases : AdvanceBase(b)
    \/ MintMergeRef \/ Block \/ DeleteFork \/ RevokeScope

-----------------------------------------------------------------------------
(* Where a call goes.                                                      *)
Goto(c, stage) == [c EXCEPT !.at = stage]
Return(c, result) == [NoCall EXCEPT !.op = c.op, !.out = result, !.took = c.took]
Failed == call' = Return(call, "err")
Running(stage) == call.at = stage

(* mrPinned: the pinned read if there is one, GetMR otherwise.             *)
Pinned == client.pin.read
AfterPin(c, info) ==
    CASE c.op = "FileAtBase" -> [Goto(c, "probe") EXCEPT !.ref = info.target]
      [] c.op = "FileAtHead" -> [Goto(c, "probe") EXCEPT !.ref = info.source]
      [] c.op \in {"Approve", "CreateThread"} -> [Goto(c, "post") EXCEPT !.ref = info.source]

(* Defect: absence is claimed without the content-scope probe.             *)
NeverProbe(c) == IF c.at = "probe" THEN Goto(c, "read") ELSE c

(* contentScopeOK answers a granted (repo, ref) from its cache.            *)
SkipProbe(c) == IF c.at = "probe" /\ c.ref \in client.scopeOK THEN Goto(c, "read") ELSE c

Begin(op) ==
    LET c == [NoCall EXCEPT !.op = op]
    IN /\ Running("done") /\ past.calls < MaxCalls
       /\ op = "MergeCAS" => snap.digest # NoSHA       \* completeForMerge
       /\ call' = CASE op \in {"GetMR", "Snapshot", "CurrentHeads", "MergeCAS"} -> Goto(c, "pr")
                    [] op = "FileAtRef" -> SkipProbe([Goto(c, "probe") EXCEPT !.ref = pr.target])
                    [] OTHER -> IF Pinned THEN SkipProbe(AfterPin(c, client.pin)) ELSE Goto(c, "pr")
       /\ past' = [past EXCEPT !.calls = @ + 1, !.sourceMoved = FALSE, !.targetMoved = FALSE]
       /\ UNCHANGED <<pr, client, snap>>

(* A request that fails, is refused or answers an unusable body ends its   *)
(* call with an error; a read has no other effect.                         *)
RequestFails ==
    /\ ~Running("done")
    /\ Failed
    /\ UNCHANGED <<pr, client, snap, past>>

-----------------------------------------------------------------------------
(* Defect: every read of the PR moves the pin.                             *)
PinLatest(cl, info) == [cl EXCEPT !.pin = info]

(* mrInfoFromPR: the guard reads head.sha, the info takes the top-level    *)
(* sha; a head repository that is gone is an error.                        *)
MRInfoFromPR == [source |-> IF TopSHA THEN pr.source ELSE NoSHA, target |-> pr.target, read |-> TRUE]

(* recordMergeableState, recordPRChangedFiles                              *)
Recorded(cl) == [cl EXCEPT !.lastMergeState = pr.mergeable,
                           !.lastChangedFiles = IF pr.counted THEN Len(Diff[pr.source]) ELSE -1]

(* The pin is written once; a later read of the same PR leaves it alone.   *)
PinFirst(cl, info) == IF cl.pin.read THEN cl ELSE [cl EXCEPT !.pin = info]

(* With the heads read, Snapshot goes on to the changed files, CurrentHeads *)
(* returns, and MergeCAS compares the three axes with the pins.            *)
WithHeads(c, digest) ==
    CASE c.op = "Snapshot" -> [Goto(c, "files") EXCEPT !.digest = digest]
      [] c.op = "CurrentHeads" -> Return(c, "ok")
      [] c.op = "MergeCAS" ->
            IF /\ c.info.target = snap.target
               /\ c.info.source = snap.source
               /\ digest = snap.digest
            THEN Goto(c, "put") ELSE Return(c, "moved")

(* Defect: the merge ref is read whatever mergeable_state says.            *)
DigestWhileUnknown(c, cl) == client' = cl /\ call' = Goto(c, "digest")

(* mergeResultDigest before its request: a PR that is not mergeable now    *)
(* gets no digest.                                                         *)
EnterDigest(c, cl) ==
    IF cl.lastMergeState \notin {"", "clean"}
    THEN /\ client' = [cl EXCEPT !.mergeRefState = "unmergeable"]
         /\ call' = WithHeads(c, NoSHA)
    ELSE client' = cl /\ call' = Goto(c, "digest")

FreshPR ==
    LET info == MRInfoFromPR
        pinned == PinFirst(Recorded(client), info)
        c == [call EXCEPT !.info = info]
    IN /\ Running("pr")
       /\ IF pr.forkGone
          THEN client' = Recorded(client) /\ Failed /\ UNCHANGED past
          ELSE /\ CASE call.op = "Snapshot" -> EnterDigest(c, Recorded(client))
                    [] call.op \in {"CurrentHeads", "MergeCAS"} -> EnterDigest(c, pinned)
                    [] call.op = "GetMR" -> client' = pinned /\ call' = Return(c, "ok")
                    [] OTHER -> client' = pinned /\ call' = SkipProbe(AfterPin(c, info))
               /\ past' = [past EXCEPT
                     !.sourceMoved = FALSE, !.targetMoved = FALSE,
                     !.first = IF @.read \/ call.op = "Snapshot"
                               THEN @ ELSE [source |-> pr.source, target |-> pr.target, read |-> TRUE]]
       /\ UNCHANGED <<pr, snap>>

(* mergeResultDigest: GET refs/pull/{n}/merge, 200 or 404.                 *)
MergeResultDigest ==
    /\ Running("digest")
    /\ call' = WithHeads(call, pr.mergeRef)
    /\ client' = [client EXCEPT !.mergeRefState = IF pr.mergeRef = NoSHA THEN "unreadable" ELSE "readable"]
    /\ UNCHANGED <<pr, snap, past>>

-----------------------------------------------------------------------------
(* contentRead: the content-scope probe, then the file.  Without the       *)
(* permission GitHub answers 404 to both.  An empty ref is the default     *)
(* branch.                                                                 *)
CommitAt(ref) == IF ref = NoSHA THEN pr.target ELSE ref

ContentScopeProbe ==
    /\ Running("probe")
    /\ IF pr.scope
       THEN call' = Goto(call, "read") /\ client' = [client EXCEPT !.scopeOK = @ \union {call.ref}]
       ELSE call' = Return(call, "unauthorized") /\ UNCHANGED client
    /\ UNCHANGED <<pr, snap, past>>

ContentRead ==
    LET got == IF pr.scope /\ CommitAt(call.ref) \in Holds THEN "ok" ELSE "absent"
    IN /\ Running("read")
       /\ call' = Return(call, got)
       /\ past' = [past EXCEPT !.reads = @ \union {[op |-> call.op, ref |-> call.ref,
                                                     at |-> CommitAt(call.ref), got |-> got]}]
       /\ UNCHANGED <<pr, client, snap>>

-----------------------------------------------------------------------------
(* Snapshot, after the digest: mrChangedFiles page by page, the capability *)
(* report, the bot threads (module Listings).                              *)
FilesPage(p) ==
    LET served == Min({Len(Diff[pr.source]), PullFilesCap})
    IN SubSeq(Diff[pr.source], (p - 1) * PerPage + 1, Min({p * PerPage, served}))
(* Defect: the old name of a rename is not listed.                         *)
NewNamesOnly(list) == {list[i].filename : i \in DOMAIN list}

PathsOf(list) == (UNION {{list[i].filename, list[i].previous} : i \in DOMAIN list}) \ {NoPath}

ChangedFilesVerdict(entries, reported, terminated) ==
    /\ terminated
    /\ reported # -1
    /\ reported < PullFilesCap
    /\ entries = reported

(* probeCapabilities: merge-result-pinning, the one graded capability.     *)
PinningGrade == CASE client.mergeRefState = "readable" -> "supported"
                  [] client.mergeRefState \in {"unmergeable", "unreadable"} -> "absent"
                  [] OTHER -> "unknown"

SnapshotOf(c, complete) ==
    [source |-> c.info.source, target |-> c.info.target, digest |-> c.digest,
     paths |-> c.paths, complete |-> complete, pinning |-> PinningGrade]

MRChangedFilesPage ==
    LET list == FilesPage(call.page)
        short == Len(list) < PerPage
        c == [call EXCEPT !.entries = @ + Len(list), !.paths = @ \union PathsOf(list), !.page = @ + 1]
    IN /\ Running("files")
       /\ IF short \/ call.page = MaxListPages
          THEN /\ call' = Return(c, "ok")
               /\ snap' = SnapshotOf(c, ChangedFilesVerdict(c.entries, client.lastChangedFiles, short))
          ELSE call' = c /\ UNCHANGED snap
       /\ UNCHANGED <<pr, client, past>>

-----------------------------------------------------------------------------
(* Approve and CreateThread: one POST, never repeated, that carries the    *)
(* pinned head.  It may take effect although its response is lost.         *)
Post(op, pull) ==
    /\ Running("post") /\ call.op = op
    /\ \E result \in {"ok", "err"} : call' = Return([call EXCEPT !.took = TRUE], result)
    /\ pr' = pull
    /\ UNCHANGED <<client, snap, past>>

Approve == Post("Approve", [pr EXCEPT !.approvals = @ \union {call.ref}])
CreateThread == Post("CreateThread", [pr EXCEPT !.anchors = @ \union {call.ref}])

(* PUT /pulls/{n}/merge with the source pin.  A merged answer without a    *)
(* merge commit, or none at all, is an error although the forge merged.    *)
PutMerge ==
    /\ Running("put")
    /\ IF pr.merged # NoSHA \/ pr.source # snap.source \/ pr.mergeable = "blocked"
       THEN call' = Return(call, "moved") /\ UNCHANGED pr              \* 409, 405
       ELSE \E result \in {"ok", "err"} :
               /\ call' = Return([call EXCEPT !.took = TRUE], result)
               /\ pr' = [pr EXCEPT !.merged = <<pr.source, pr.target>>]
    /\ UNCHANGED <<client, snap, past>>

-----------------------------------------------------------------------------
PortCalls == {"GetMR", "FileAtBase", "FileAtHead", "FileAtRef", "Snapshot",
              "Approve", "CreateThread", "CurrentHeads", "MergeCAS"}

Next ==
    \/ ForgeMoves
    \/ \E op \in PortCalls : Begin(op)
    \/ FreshPR \/ MergeResultDigest
    \/ ContentScopeProbe \/ ContentRead
    \/ MRChangedFilesPage
    \/ Approve \/ CreateThread \/ PutMerge
    \/ RequestFails

Spec == Init /\ [][Next]_vars
==============================================================================
