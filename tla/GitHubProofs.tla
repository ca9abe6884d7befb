---------------------------- MODULE GitHubProofs -----------------------------
(***************************************************************************)
(* What the GitHub adapter keeps for every set of commits, every length of *)
(* a listing and every order in which the pull request moves: the head it  *)
(* judges, the absence it claims, the pins of its merge and its list of    *)
(* changed files.                                                          *)
(***************************************************************************)
EXTENDS GitHubProps, TLAPS

Commits == Heads \union Bases
Refs == Commits \union {NoSHA}
Info == [source : Heads \union {NoSHA}, target : Bases \union {NoSHA}, read : BOOLEAN]
States == {"", "unknown", "clean", "blocked"}
Stages == {"done", "pr", "probe", "read", "digest", "files", "post", "put"}
Reads == [op : PortCalls, ref : Refs, at : Commits, got : {"ok", "absent"}]
PR == [source : Heads, target : Bases, forkGone : BOOLEAN, mergeable : States, mergeRef : Digests,
       counted : BOOLEAN, scope : BOOLEAN, approvals : SUBSET Refs, anchors : SUBSET Refs,
       merged : Digests, moves : Nat]

(* A record is typed where its value matters; other fields hold anything.  *)
IsClient(cl) == cl \in [pin : Info, scopeOK : SUBSET Refs, mergeRefState : {cl.mergeRefState},
                        lastMergeState : States, lastChangedFiles : {cl.lastChangedFiles}]
IsCall(c) == c \in [op : PortCalls \union {"none"}, at : Stages, ref : Refs, info : Info,
                    digest : Digests, page : {c.page}, entries : {c.entries}, paths : {c.paths},
                    out : {c.out}, took : BOOLEAN]
IsSnap(s) == s \in [source : Heads \union {NoSHA}, target : Bases \union {NoSHA}, digest : Digests,
                    paths : {s.paths}, complete : {s.complete}, pinning : {s.pinning}]
IsPast(p) == p \in [first : Info, reads : SUBSET Reads, revoked : SUBSET Refs,
                    sourceMoved : BOOLEAN, targetMoved : BOOLEAN, calls : {p.calls}]

TypeOK == pr \in PR /\ IsClient(client) /\ IsCall(call) /\ IsSnap(snap) /\ IsPast(past)

(* Which call may be at which stage; what it wrote it has returned from.   *)
StageOK(c) ==
    /\ c.at = "pr" => c.op \in PortCalls \ {"FileAtRef"}
    /\ c.at \in {"probe", "read"} => c.op \in {"FileAtBase", "FileAtHead", "FileAtRef"}
    /\ c.at = "digest" => c.op \in {"Snapshot", "CurrentHeads", "MergeCAS"}
    /\ c.at = "files" => c.op = "Snapshot"
    /\ c.at = "post" => c.op \in {"Approve", "CreateThread"}
    /\ c.at = "put" => c.op = "MergeCAS"
    /\ c.at # "done" => ~c.took

Inv == TypeOK /\ StageOK(call)

(* The calls that take the pinned read if there is one (mrPinned).         *)
ByPin == {"FileAtBase", "FileAtHead", "Approve", "CreateThread"}

(* Going to a stage changes nothing else of a call.                        *)
LEMMA GotoFields ==
    ASSUME NEW c, IsCall(c), NEW s \in Stages
    PROVE  /\ IsCall(Goto(c, s)) /\ Goto(c, s).at = s /\ Goto(c, s).op = c.op
           /\ Goto(c, s).ref = c.ref /\ Goto(c, s).info = c.info /\ Goto(c, s).took = c.took
BY DEF IsCall, Goto

(* A call that returns keeps its operation and whether its write took.     *)
LEMMA ReturnFields ==
    ASSUME NEW c, IsCall(c), NEW out
    PROVE  /\ IsCall(Return(c, out)) /\ Return(c, out).at = "done" /\ Return(c, out).op = c.op
           /\ Return(c, out).took = c.took
<1> PICK d : d = Return(c, out)
  OBVIOUS
<1>1. d = [op |-> c.op, at |-> "done", ref |-> NoSHA, info |-> NoInfo, digest |-> NoSHA,
           page |-> 1, entries |-> 0, paths |-> {}, out |-> out, took |-> c.took]
  BY DEF Return, NoCall
<1>2. NoInfo \in Info /\ "done" \in Stages /\ NoSHA \in Refs /\ NoSHA \in Digests
  BY DEF NoInfo, Info, Stages, Refs, Digests
<1>3. c.op \in PortCalls \union {"none"} /\ c.took \in BOOLEAN
  BY DEF IsCall
<1>4. IsCall(d) /\ d.at = "done" /\ d.op = c.op /\ d.took = c.took
  BY <1>1, <1>2, <1>3 DEF IsCall
<1> QED
  BY <1>4

(* The ref of a call.                                                      *)
LEMMA WithRef ==
    ASSUME NEW c, IsCall(c), NEW ref \in Refs
    PROVE  LET d == [c EXCEPT !.ref = ref]
           IN IsCall(d) /\ d.at = c.at /\ d.op = c.op /\ d.ref = ref /\ d.took = c.took
BY DEF IsCall

(* The heads of a call.                                                    *)
LEMMA WithInfo ==
    ASSUME NEW c, IsCall(c), NEW info \in Info
    PROVE  LET d == [c EXCEPT !.info = info]
           IN /\ IsCall(d) /\ d.at = c.at /\ d.op = c.op /\ d.ref = c.ref /\ d.took = c.took
              /\ d.info = info
BY DEF IsCall

(* The digest of a call.                                                   *)
LEMMA WithDigest ==
    ASSUME NEW c, IsCall(c), NEW digest \in Digests
    PROVE  LET d == [c EXCEPT !.digest = digest]
           IN /\ IsCall(d) /\ d.at = c.at /\ d.op = c.op /\ d.ref = c.ref /\ d.took = c.took
              /\ d.info = c.info
BY DEF IsCall

(* A fresh call.                                                           *)
LEMMA WithOp ==
    ASSUME NEW op \in PortCalls
    PROVE  LET d == [NoCall EXCEPT !.op = op] IN IsCall(d) /\ d.op = op /\ d.took = FALSE
BY DEF IsCall, NoCall, NoInfo, Info, Stages, Refs, Digests

(* What a pinned operation does with the heads of the pin.                 *)
LEMMA AfterPinFields ==
    ASSUME NEW c, IsCall(c), NEW info \in Info,
           c.op \in ByPin
    PROVE  LET d == AfterPin(c, info)
           IN /\ IsCall(d) /\ d.op = c.op /\ d.took = c.took
              /\ d.at = IF c.op \in {"FileAtBase", "FileAtHead"} THEN "probe" ELSE "post"
              /\ d.ref = IF c.op = "FileAtBase" THEN info.target ELSE info.source
<1>1. info.source \in Refs /\ info.target \in Refs
  BY DEF Info, Refs, Commits
<1>2. "probe" \in Stages /\ "post" \in Stages
  BY DEF Stages
<1>3. CASE c.op = "FileAtBase"
  <2>1. AfterPin(c, info) = [Goto(c, "probe") EXCEPT !.ref = info.target]
    BY <1>3 DEF AfterPin
  <2> QED
    BY <1>1, <1>2, <1>3, <2>1, GotoFields, WithRef
<1>4. CASE c.op = "FileAtHead"
  <2>1. AfterPin(c, info) = [Goto(c, "probe") EXCEPT !.ref = info.source]
    BY <1>4 DEF AfterPin
  <2> QED
    BY <1>1, <1>2, <1>4, <2>1, GotoFields, WithRef
<1>5. CASE c.op \in {"Approve", "CreateThread"}
  <2>1. AfterPin(c, info) = [Goto(c, "post") EXCEPT !.ref = info.source]
    BY <1>5 DEF AfterPin
  <2> QED
    BY <1>1, <1>2, <1>5, <2>1, GotoFields, WithRef
<1> QED
  BY <1>3, <1>4, <1>5 DEF ByPin

(* The scope probe is left out for a ref it has proved before.             *)
LEMMA SkipProbeFields ==
    ASSUME NEW c, IsCall(c)
    PROVE  LET d == SkipProbe(c)
           IN /\ IsCall(d) /\ d.op = c.op /\ d.took = c.took /\ d.ref = c.ref
              /\ d.at = IF c.at = "probe" /\ c.ref \in client.scopeOK THEN "read" ELSE c.at
<1>1. "read" \in Stages
  BY DEF Stages
<1> QED
  BY <1>1, GotoFields DEF SkipProbe

(* The heads read, a call goes to the files, to the merge, or returns.     *)
LEMMA WithHeadsFields ==
    ASSUME NEW c, IsCall(c), NEW digest \in Digests,
           c.op \in {"Snapshot", "CurrentHeads", "MergeCAS"}
    PROVE  LET d == WithHeads(c, digest)
           IN /\ IsCall(d) /\ d.op = c.op /\ d.took = c.took /\ d.at \in {"files", "put", "done"}
              /\ d.at = "files" => c.op = "Snapshot"
              /\ d.at = "put" => /\ c.op = "MergeCAS" /\ c.info.target = snap.target
                                 /\ d.info = c.info /\ digest = snap.digest
<1>1. "files" \in Stages /\ "put" \in Stages
  BY DEF Stages
<1>2. CASE c.op = "Snapshot"
  <2>1. WithHeads(c, digest) = [Goto(c, "files") EXCEPT !.digest = digest]
    BY <1>2 DEF WithHeads
  <2> QED
    BY <1>1, <1>2, <2>1, GotoFields, WithDigest
<1>3. CASE c.op = "CurrentHeads"
  <2>1. WithHeads(c, digest) = Return(c, "ok")
    BY <1>3 DEF WithHeads
  <2> QED
    BY <1>3, <2>1, ReturnFields
<1>4. CASE c.op = "MergeCAS"
  <2>1. \/ WithHeads(c, digest) = Return(c, "moved")
        \/ /\ WithHeads(c, digest) = Goto(c, "put")
           /\ c.info.target = snap.target /\ digest = snap.digest
    BY <1>4 DEF WithHeads
  <2> QED
    BY <1>1, <1>4, <2>1, GotoFields, ReturnFields
<1> QED
  BY <1>2, <1>3, <1>4

(* A call that may look at the merge ref: it goes on without a digest, or  *)
(* to the request, which it makes only for a PR believed mergeable.        *)
LEMMA EnterDigestFields ==
    ASSUME NEW c, IsCall(c), c.op \in {"Snapshot", "CurrentHeads", "MergeCAS"},
           NEW cl, IsClient(cl), EnterDigest(c, cl)
    PROVE  /\ IsClient(client') /\ client'.pin = cl.pin /\ client'.scopeOK = cl.scopeOK
           /\ IsCall(call') /\ call'.op = c.op /\ call'.took = c.took
           /\ \/ call'.at = "digest" /\ call'.info = c.info /\ cl.lastMergeState \in {"", "clean"}
              \/ /\ call'.at \in {"files", "put", "done"}
                 /\ call'.at = "files" => c.op = "Snapshot"
                 /\ call'.at = "put" => c.op = "MergeCAS" /\ snap.digest = NoSHA
<1>1. "digest" \in Stages /\ NoSHA \in Digests
  BY DEF Stages, Digests
<1>2. CASE cl.lastMergeState \notin {"", "clean"}
  <2>1. call' = WithHeads(c, NoSHA) /\ client' = [cl EXCEPT !.mergeRefState = "unmergeable"]
    BY <1>2 DEF EnterDigest
  <2>2. IsClient(client') /\ client'.pin = cl.pin /\ client'.scopeOK = cl.scopeOK
    BY <2>1 DEF IsClient
  <2>3. /\ IsCall(call') /\ call'.op = c.op /\ call'.took = c.took
        /\ call'.at \in {"files", "put", "done"} /\ (call'.at = "files" => c.op = "Snapshot")
        /\ call'.at = "put" => c.op = "MergeCAS" /\ snap.digest = NoSHA
    BY <1>1, <2>1, WithHeadsFields
  <2> QED
    BY <2>2, <2>3
<1>3. CASE cl.lastMergeState \in {"", "clean"}
  <2>1. client' = cl /\ call' = Goto(c, "digest")
    BY <1>3 DEF EnterDigest
  <2>2. /\ IsCall(call') /\ call'.op = c.op /\ call'.took = c.took
        /\ call'.at = "digest" /\ call'.info = c.info
    BY <1>1, <2>1, GotoFields
  <2> QED
    BY <1>3, <2>1, <2>2
<1> QED
  BY <1>2, <1>3

-----------------------------------------------------------------------------
(* Types and stages.                                                       *)

(* The first state has the types, and no call.                             *)
LEMMA InitInv == Init => Inv
<1> SUFFICES ASSUME Init PROVE Inv
  OBVIOUS
<1>1. pr \in PR
  <2>1. pr \in [source : Heads, target : Bases, forkGone : {FALSE},
                mergeable : {"", "unknown", "clean"}, mergeRef : Digests, counted : BOOLEAN,
                scope : BOOLEAN, approvals : {{}}, anchors : {{}}, merged : {NoSHA}, moves : {0}]
    BY DEF Init
  <2>2. /\ {FALSE} \subseteq BOOLEAN /\ {"", "unknown", "clean"} \subseteq States
        /\ {NoSHA} \subseteq Digests /\ {{}} \subseteq SUBSET Refs /\ {0} \subseteq Nat
    BY DEF Digests, States
  <2> QED
    BY <2>1, <2>2, Zenon DEF PR
<1>2. IsClient(client) /\ IsCall(call) /\ IsSnap(snap) /\ IsPast(past)
  BY DEF Init, IsClient, IsCall, IsSnap, IsPast, Info, NoInfo, NoCall, NoSnap, States, Stages,
     Digests, Refs, Commits
<1>3. StageOK(call)
  BY DEF Init, StageOK, NoCall
<1> QED
  BY <1>1, <1>2, <1>3 DEF Inv, TypeOK

(* A change of the pull request is typed if the new value is.              *)
LEMMA MoveType ==
    ASSUME Inv, NEW new \in PR, NEW q, IsPast(q), Move(new, q)
    PROVE  Inv'
<1>1. pr' \in PR
  BY DEF Move, PR
<1> QED
  BY <1>1 DEF Move, Inv, TypeOK, StageOK, IsClient, IsCall, IsSnap, IsPast

(* ... and every change of it is.                                          *)
LEMMA ForgeType == ASSUME Inv, ForgeMoves PROVE Inv'
<1>1. pr \in PR /\ IsPast(past) /\ IsClient(client)
  BY DEF Inv, TypeOK
<1>2. ASSUME NEW h \in Heads, Push(h) PROVE Inv'
  <2> PICK r \in {pr.mergeRef, NoSHA} :
          Move([pr EXCEPT !.source = h, !.mergeable = "unknown", !.mergeRef = r],
               [past EXCEPT !.sourceMoved = TRUE])
    BY <1>2 DEF Push
  <2>1. [pr EXCEPT !.source = h, !.mergeable = "unknown", !.mergeRef = r] \in PR
    BY <1>1 DEF PR, States, Digests
  <2>2. IsPast([past EXCEPT !.sourceMoved = TRUE])
    BY <1>1 DEF IsPast
  <2> QED
    BY <2>1, <2>2, MoveType
<1>3. ASSUME NEW b \in Bases, AdvanceBase(b) PROVE Inv'
  <2>1. [pr EXCEPT !.target = b] \in PR
    BY <1>1 DEF PR
  <2>2. IsPast([past EXCEPT !.targetMoved = TRUE])
    BY <1>1 DEF IsPast
  <2> QED
    BY <1>3, <2>1, <2>2, MoveType DEF AdvanceBase
<1>4. CASE MintMergeRef
  <2>1. [pr EXCEPT !.mergeRef = <<pr.source, pr.target>>, !.mergeable = "clean"] \in PR
    BY <1>1 DEF PR, States, Digests
  <2> QED
    BY <1>1, <1>4, <2>1, MoveType DEF MintMergeRef
<1>5. CASE Block
  <2>1. [pr EXCEPT !.mergeable = "blocked"] \in PR
    BY <1>1 DEF PR, States
  <2> QED
    BY <1>1, <1>5, <2>1, MoveType DEF Block
<1>6. CASE DeleteFork
  <2>1. [pr EXCEPT !.forkGone = TRUE] \in PR
    BY <1>1 DEF PR
  <2> QED
    BY <1>1, <1>6, <2>1, MoveType DEF DeleteFork
<1>7. CASE RevokeScope
  <2>1. [pr EXCEPT !.scope = FALSE] \in PR
    BY <1>1 DEF PR
  <2>2. IsPast([past EXCEPT !.revoked = client.scopeOK])
    BY <1>1 DEF IsPast, IsClient
  <2> QED
    BY <1>7, <2>1, <2>2, MoveType DEF RevokeScope
<1> QED
  BY <1>2, <1>3, <1>4, <1>5, <1>6, <1>7 DEF ForgeMoves

(* Where a call begins.                                                    *)
LEMMA BeginFields ==
    ASSUME Inv, NEW op \in PortCalls, Begin(op)
    PROVE  /\ Inv'
           /\ call'.op = op /\ ~call'.took /\ call'.at \in {"pr", "probe", "read", "post"}
           /\ (call'.at = "pr" /\ op \in ByPin) => ~client.pin.read
           /\ call'.at = "read" => call'.ref \in client.scopeOK
           /\ (call'.at \in {"probe", "read", "post"} /\ op # "FileAtRef") =>
                 client.pin.read /\ call'.ref = IF op = "FileAtBase" THEN client.pin.target
                                                                   ELSE client.pin.source
<1> DEFINE c == [NoCall EXCEPT !.op = op]
<1>1. IsCall(c) /\ c.op = op /\ ~c.took
  BY WithOp
<1>2. "pr" \in Stages /\ "probe" \in Stages
  BY DEF Stages
<1>3. client.pin \in Info /\ pr.target \in Refs
  BY DEF Inv, TypeOK, IsClient, PR, Refs, Commits
<1>4. call' = CASE op \in {"GetMR", "Snapshot", "CurrentHeads", "MergeCAS"} -> Goto(c, "pr")
                [] op = "FileAtRef" -> SkipProbe([Goto(c, "probe") EXCEPT !.ref = pr.target])
                [] OTHER -> IF Pinned THEN SkipProbe(AfterPin(c, client.pin)) ELSE Goto(c, "pr")
  BY DEF Begin
<1> HIDE DEF c
<1> DEFINE Began ==
             /\ IsCall(call') /\ StageOK(call')
             /\ call'.op = op /\ ~call'.took /\ call'.at \in {"pr", "probe", "read", "post"}
             /\ (call'.at = "pr" /\ op \in ByPin) => ~client.pin.read
             /\ call'.at = "read" => call'.ref \in client.scopeOK
             /\ (call'.at \in {"probe", "read", "post"} /\ op # "FileAtRef") =>
                   client.pin.read /\ call'.ref = IF op = "FileAtBase" THEN client.pin.target
                                                                     ELSE client.pin.source
<1>5. ASSUME op \in {"GetMR", "Snapshot", "CurrentHeads", "MergeCAS"} \/ (op # "FileAtRef" /\ ~Pinned)
      PROVE  Began
  <2>1. call' = Goto(c, "pr")
    <3>1. CASE op \in {"GetMR", "Snapshot", "CurrentHeads", "MergeCAS"}
      BY <1>4, <3>1
    <3>2. CASE op \notin {"GetMR", "Snapshot", "CurrentHeads", "MergeCAS", "FileAtRef"} /\ ~Pinned
      BY <1>4, <3>2
    <3> QED
      BY <1>5, <3>1, <3>2
  <2>2. IsCall(call') /\ call'.op = op /\ ~call'.took /\ call'.at = "pr"
    BY <1>1, <1>2, <2>1, GotoFields
  <2> QED
    BY <1>5, <2>2 DEF StageOK, Pinned, ByPin
<1>6. ASSUME op = "FileAtRef" PROVE Began
  <2>1. call' = SkipProbe([Goto(c, "probe") EXCEPT !.ref = pr.target])
    BY <1>4, <1>6
  <2>2. IsCall(Goto(c, "probe")) /\ Goto(c, "probe").op = op /\ ~Goto(c, "probe").took
        /\ Goto(c, "probe").at = "probe"
    BY <1>1, <1>2, GotoFields
  <2> DEFINE d == [Goto(c, "probe") EXCEPT !.ref = pr.target]
  <2>3. IsCall(d) /\ d.op = op /\ ~d.took /\ d.at = "probe"
    BY <1>3, <2>2, WithRef
  <2> HIDE DEF d
  <2>4. /\ IsCall(SkipProbe(d)) /\ SkipProbe(d).op = op /\ ~SkipProbe(d).took
        /\ SkipProbe(d).at \in {"read", "probe"}
        /\ SkipProbe(d).at = "read" => SkipProbe(d).ref \in client.scopeOK
    BY <2>3, SkipProbeFields
  <2> QED
    BY <1>6, <2>1, <2>4 DEF StageOK, ByPin, d
<1>7. ASSUME op \in ByPin, Pinned PROVE Began
  <2> DEFINE d == AfterPin(c, client.pin)
  <2>1. call' = SkipProbe(d)
    BY <1>4, <1>7 DEF ByPin
  <2>2. /\ IsCall(d) /\ d.op = op /\ ~d.took
        /\ d.at = IF op \in {"FileAtBase", "FileAtHead"} THEN "probe" ELSE "post"
        /\ d.ref = IF op = "FileAtBase" THEN client.pin.target ELSE client.pin.source
    BY <1>1, <1>3, <1>7, AfterPinFields
  <2> HIDE DEF d
  <2> QED
    BY <1>7, <2>1, <2>2, SkipProbeFields DEF StageOK, Pinned, ByPin
<1>8. IsPast(past') /\ UNCHANGED <<pr, client, snap>>
  BY DEF Begin, Inv, TypeOK, IsPast
<1>9. Began
  BY <1>5, <1>6, <1>7 DEF PortCalls, ByPin
<1>10. Inv'
  BY <1>8, <1>9 DEF Inv, TypeOK, IsClient, IsSnap
<1> QED
  BY <1>9, <1>10

(* The merge state and the file count of the last read of the pull request.*)
LEMMA RecordedFields ==
    ASSUME Inv
    PROVE  /\ IsClient(Recorded(client)) /\ Recorded(client).pin = client.pin
           /\ Recorded(client).scopeOK = client.scopeOK
           /\ Recorded(client).lastMergeState = pr.mergeable
<1> DEFINE n == IF pr.counted THEN Len(Diff[pr.source]) ELSE -1
<1>1. IsClient(client) /\ pr.mergeable \in States
  BY DEF Inv, TypeOK, PR
<1> HIDE DEF n
<1>2. Recorded(client) = [client EXCEPT !.lastMergeState = pr.mergeable, !.lastChangedFiles = n]
  BY DEF Recorded, n
<1> QED
  BY <1>1, <1>2 DEF IsClient

(* The first heads stay the pin.                                           *)
LEMMA PinFirstFields ==
    ASSUME NEW cl, IsClient(cl), NEW info \in Info
    PROVE  LET d == PinFirst(cl, info)
           IN /\ IsClient(d) /\ d.pin = (IF cl.pin.read THEN cl.pin ELSE info)
              /\ d.scopeOK = cl.scopeOK /\ d.lastMergeState = cl.lastMergeState
BY DEF PinFirst, IsClient

(* What a fresh read of the pull request leaves behind.                    *)
LEMMA FreshFields ==
    ASSUME Inv, FreshPR
    PROVE  /\ Inv' /\ call.at = "pr" /\ call'.op = call.op /\ ~call'.took
           /\ UNCHANGED <<pr, snap>>
           /\ client'.scopeOK = client.scopeOK
           /\ past'.reads = past.reads /\ past'.revoked = past.revoked
           /\ call'.at # "done" => ~past'.sourceMoved /\ ~past'.targetMoved
           /\ \/ client'.pin = client.pin /\ past'.first = past.first
              \/ /\ client'.pin = IF client.pin.read THEN client.pin ELSE MRInfoFromPR
                 /\ past'.first = IF past.first.read THEN past.first
                                  ELSE [source |-> pr.source, target |-> pr.target, read |-> TRUE]
           /\ call'.at = "read" => call'.ref \in client.scopeOK
           /\ call'.at \in {"probe", "read", "post"} =>
                 /\ call.op \in ByPin
                 /\ client'.pin = IF client.pin.read THEN client.pin ELSE MRInfoFromPR
                 /\ call'.ref = IF call.op = "FileAtBase" THEN pr.target ELSE MRInfoFromPR.source
           /\ call'.at = "digest" => call'.info.target = pr.target /\ pr.mergeable \in {"", "clean"}
           /\ call'.at = "put" => call.op = "MergeCAS" /\ snap.digest = NoSHA
           /\ call'.at # "pr"
<1> DEFINE info == MRInfoFromPR
           recorded == Recorded(client)
           pinned == PinFirst(recorded, info)
           c == [call EXCEPT !.info = info]
<1>1. /\ pr \in PR /\ IsClient(client) /\ IsCall(call) /\ IsSnap(snap) /\ IsPast(past)
      /\ call.at = "pr" /\ call.op \in PortCalls \ {"FileAtRef"} /\ ~call.took
  BY DEF Inv, TypeOK, StageOK, FreshPR, Running
<1>2. info \in Info /\ info.target = pr.target /\ info.source \in Heads \union {NoSHA}
  BY <1>1 DEF MRInfoFromPR, Info, PR
<1>3. /\ IsClient(recorded) /\ recorded.pin = client.pin /\ recorded.scopeOK = client.scopeOK
      /\ recorded.lastMergeState = pr.mergeable
  BY RecordedFields
<1>4. /\ IsClient(pinned) /\ pinned.pin = (IF client.pin.read THEN client.pin ELSE info)
      /\ pinned.scopeOK = client.scopeOK /\ pinned.lastMergeState = pr.mergeable
  <2> HIDE DEF recorded, info
  <2> QED
    BY <1>2, <1>3, PinFirstFields
<1>5. IsCall(c) /\ c.at = "pr" /\ c.op = call.op /\ c.info = info /\ ~c.took
  BY <1>1, <1>2, WithInfo
<1>6. UNCHANGED <<pr, snap>>
  BY DEF FreshPR
<1>7. CASE pr.forkGone
  <2>1. client' = recorded /\ call' = Return(call, "err") /\ past' = past
    BY <1>7 DEF FreshPR, Failed
  <2> HIDE DEF recorded
  <2>2. IsCall(call') /\ call'.at = "done" /\ call'.op = call.op /\ ~call'.took
    BY <1>1, <2>1, ReturnFields
  <2>3. Inv'
    BY <1>1, <1>3, <1>6, <2>1, <2>2 DEF Inv, TypeOK, StageOK, IsSnap, IsPast
  <2> QED
    BY <1>1, <1>3, <1>6, <2>1, <2>2, <2>3
<1>8. CASE ~pr.forkGone
  <2> DEFINE first == IF past.first.read \/ call.op = "Snapshot"
                      THEN past.first ELSE [source |-> pr.source, target |-> pr.target, read |-> TRUE]
  <2>1. past' = [past EXCEPT !.sourceMoved = FALSE, !.targetMoved = FALSE, !.first = first]
    BY <1>8 DEF FreshPR
  <2>2. /\ call.op = "Snapshot" => EnterDigest(c, recorded)
        /\ call.op \in {"CurrentHeads", "MergeCAS"} => EnterDigest(c, pinned)
        /\ call.op = "GetMR" => client' = pinned /\ call' = Return(c, "ok")
        /\ call.op \in ByPin => client' = pinned /\ call' = SkipProbe(AfterPin(c, info))
    BY <1>8 DEF FreshPR, ByPin
  <2>3. first \in Info
    <3>1. [source |-> pr.source, target |-> pr.target, read |-> TRUE] \in Info
      BY <1>1 DEF Info, PR
    <3> QED
      BY <1>1, <3>1 DEF IsPast
  <2>4. /\ IsPast(past') /\ ~past'.sourceMoved /\ ~past'.targetMoved /\ past'.first = first
        /\ past'.reads = past.reads /\ past'.revoked = past.revoked
    <3> HIDE DEF first
    <3> QED
      BY <1>1, <2>1, <2>3 DEF IsPast
  <2> HIDE DEF info, recorded, pinned, c
  <2>5. CASE call.op = "Snapshot"
    <3>1. EnterDigest(c, recorded)
      BY <2>2, <2>5
    <3>2. /\ IsClient(client') /\ client'.pin = recorded.pin /\ client'.scopeOK = recorded.scopeOK
          /\ IsCall(call') /\ call'.op = call.op /\ ~call'.took
          /\ \/ call'.at = "digest" /\ call'.info = info /\ recorded.lastMergeState \in {"", "clean"}
             \/ /\ call'.at \in {"files", "put", "done"}
                /\ call'.at = "files" => call.op = "Snapshot"
                /\ call'.at = "put" => call.op = "MergeCAS" /\ snap.digest = NoSHA
      BY <1>3, <1>5, <2>5, <3>1, EnterDigestFields
    <3>3. Inv'
      BY <1>1, <1>6, <2>4, <2>5, <3>2 DEF Inv, TypeOK, StageOK, IsSnap
    <3> QED
      BY <1>1, <1>2, <1>3, <1>6, <2>4, <2>5, <3>2, <3>3 DEF info, first
  <2>6. CASE call.op \in {"CurrentHeads", "MergeCAS"}
    <3>1. EnterDigest(c, pinned)
      BY <2>2, <2>6
    <3>2. /\ IsClient(client') /\ client'.pin = pinned.pin /\ client'.scopeOK = pinned.scopeOK
          /\ IsCall(call') /\ call'.op = call.op /\ ~call'.took
          /\ \/ call'.at = "digest" /\ call'.info = info /\ pinned.lastMergeState \in {"", "clean"}
             \/ /\ call'.at \in {"files", "put", "done"}
                /\ call'.at = "files" => call.op = "Snapshot"
                /\ call'.at = "put" => call.op = "MergeCAS" /\ snap.digest = NoSHA
      BY <1>4, <1>5, <2>6, <3>1, EnterDigestFields
    <3>3. Inv'
      BY <1>1, <1>6, <2>4, <2>6, <3>2 DEF Inv, TypeOK, StageOK, IsSnap
    <3> QED
      BY <1>1, <1>2, <1>4, <1>6, <2>4, <2>6, <3>2, <3>3 DEF info, first
  <2>7. CASE call.op = "GetMR"
    <3>1. client' = pinned /\ call' = Return(c, "ok")
      BY <2>2, <2>7
    <3>2. IsCall(call') /\ call'.at = "done" /\ call'.op = call.op /\ ~call'.took
      BY <1>5, <3>1, ReturnFields
    <3> QED
      BY <1>1, <1>4, <1>6, <2>4, <2>7, <3>1, <3>2 DEF Inv, TypeOK, StageOK, IsSnap, info
  <2>8. CASE call.op \in ByPin
    <3> DEFINE d == AfterPin(c, info)
    <3>1. client' = pinned /\ call' = SkipProbe(d)
      BY <2>2, <2>8 DEF ByPin
    <3>2. /\ IsCall(d) /\ d.op = call.op /\ ~d.took
          /\ d.at = IF call.op \in {"FileAtBase", "FileAtHead"} THEN "probe" ELSE "post"
          /\ d.ref = IF call.op = "FileAtBase" THEN info.target ELSE info.source
      BY <1>2, <1>5, <2>8, AfterPinFields
    <3> HIDE DEF d
    <3>3. /\ IsCall(call') /\ call'.op = call.op /\ ~call'.took /\ call'.ref = d.ref
          /\ call'.at = IF d.at = "probe" /\ d.ref \in client.scopeOK THEN "read" ELSE d.at
      BY <3>1, <3>2, SkipProbeFields
    <3>4. Inv'
      BY <1>1, <1>4, <1>6, <2>4, <2>8, <3>1, <3>2, <3>3 DEF Inv, TypeOK, StageOK, IsSnap, ByPin
    <3> QED
      BY <1>1, <1>2, <1>4, <1>6, <2>4, <2>8, <3>1, <3>2, <3>3, <3>4 DEF info, ByPin
  <2> QED
    BY <1>1, <2>5, <2>6, <2>7, <2>8 DEF PortCalls, ByPin
<1> QED
  BY <1>7, <1>8

(* The answer for the merge ref.                                           *)
LEMMA DigestFields ==
    ASSUME Inv, MergeResultDigest
    PROVE  /\ Inv' /\ call.at = "digest" /\ call'.op = call.op /\ ~call'.took
           /\ UNCHANGED <<pr, snap, past>>
           /\ client'.pin = client.pin /\ client'.scopeOK = client.scopeOK
           /\ call'.at \in {"files", "put", "done"}
           /\ call'.at = "put" => /\ call.op = "MergeCAS" /\ pr.mergeRef = snap.digest
                                  /\ call.info.target = snap.target
<1>1. /\ pr \in PR /\ IsClient(client) /\ IsCall(call) /\ IsSnap(snap) /\ IsPast(past)
      /\ call.at = "digest" /\ call.op \in {"Snapshot", "CurrentHeads", "MergeCAS"} /\ ~call.took
  BY DEF Inv, TypeOK, StageOK, MergeResultDigest, Running
<1>2. call' = WithHeads(call, pr.mergeRef) /\ pr.mergeRef \in Digests
  BY <1>1 DEF MergeResultDigest, PR
<1>3. /\ IsCall(call') /\ call'.op = call.op /\ call'.took = call.took
      /\ call'.at \in {"files", "put", "done"}
      /\ call'.at = "files" => call.op = "Snapshot"
      /\ call'.at = "put" => /\ call.op = "MergeCAS" /\ call.info.target = snap.target
                             /\ pr.mergeRef = snap.digest
  BY <1>1, <1>2, WithHeadsFields
<1>4. IsClient(client') /\ client'.pin = client.pin /\ client'.scopeOK = client.scopeOK
  BY <1>1 DEF MergeResultDigest, IsClient
<1>5. UNCHANGED <<pr, snap, past>>
  BY DEF MergeResultDigest
<1>6. Inv'
  BY <1>1, <1>3, <1>4, <1>5 DEF Inv, TypeOK, StageOK, IsSnap, IsPast
<1> QED
  BY <1>1, <1>3, <1>4, <1>5, <1>6

(* The content-scope probe lets its ref through, or ends the call.         *)
LEMMA ProbeFields ==
    ASSUME Inv, ContentScopeProbe
    PROVE  /\ Inv' /\ call.at = "probe" /\ call'.op = call.op /\ ~call'.took
           /\ UNCHANGED <<pr, snap, past>> /\ client'.pin = client.pin
           /\ \/ /\ pr.scope /\ call'.at = "read" /\ call'.ref = call.ref
                 /\ client'.scopeOK = client.scopeOK \union {call.ref}
              \/ call'.at = "done" /\ client' = client
<1>1. /\ pr \in PR /\ IsClient(client) /\ IsCall(call) /\ IsSnap(snap) /\ IsPast(past)
      /\ call.at = "probe" /\ ~call.took /\ call.op \in {"FileAtBase", "FileAtHead", "FileAtRef"}
  BY DEF Inv, TypeOK, StageOK, ContentScopeProbe, Running
<1>2. UNCHANGED <<pr, snap, past>>
  BY DEF ContentScopeProbe
<1>3. CASE pr.scope
  <2>1. call' = Goto(call, "read") /\ client' = [client EXCEPT !.scopeOK = @ \union {call.ref}]
    BY <1>3 DEF ContentScopeProbe
  <2>2. /\ IsClient(client') /\ client'.pin = client.pin
        /\ client'.scopeOK = client.scopeOK \union {call.ref}
    BY <1>1, <2>1 DEF IsClient, IsCall
  <2>3. /\ IsCall(call') /\ call'.at = "read" /\ call'.op = call.op /\ call'.ref = call.ref
        /\ call'.took = call.took
    BY <1>1, <2>1, GotoFields DEF Stages
  <2>4. Inv'
    BY <1>1, <1>2, <2>2, <2>3 DEF Inv, TypeOK, StageOK, IsSnap, IsPast
  <2> QED
    BY <1>1, <1>2, <1>3, <2>2, <2>3, <2>4
<1>4. CASE ~pr.scope
  <2>1. call' = Return(call, "unauthorized") /\ client' = client
    BY <1>4 DEF ContentScopeProbe
  <2>2. IsCall(call') /\ call'.at = "done" /\ call'.op = call.op /\ call'.took = call.took
    BY <1>1, <2>1, ReturnFields
  <2>3. Inv'
    BY <1>1, <1>2, <2>1, <2>2 DEF Inv, TypeOK, StageOK, IsClient, IsSnap, IsPast
  <2> QED
    BY <1>1, <1>2, <2>1, <2>2, <2>3
<1> QED
  BY <1>3, <1>4

(* The content read, recorded in the history.                              *)
LEMMA ReadFields ==
    ASSUME Inv, ContentRead
    PROVE  /\ Inv' /\ call.at = "read" /\ call'.at = "done" /\ ~call'.took
           /\ UNCHANGED <<pr, client, snap>>
           /\ past'.first = past.first /\ past'.revoked = past.revoked
           /\ \E r \in Reads :
                 /\ past'.reads = past.reads \union {r}
                 /\ r.op = call.op /\ r.ref = call.ref /\ r.at = CommitAt(call.ref)
                 /\ r.got = "absent" => ~(pr.scope /\ r.at \in Holds)
<1> DEFINE got == IF pr.scope /\ CommitAt(call.ref) \in Holds THEN "ok" ELSE "absent"
           r == [op |-> call.op, ref |-> call.ref, at |-> CommitAt(call.ref), got |-> got]
<1>1. /\ pr \in PR /\ IsClient(client) /\ IsCall(call) /\ IsSnap(snap) /\ IsPast(past)
      /\ call.at = "read" /\ ~call.took /\ call.op \in {"FileAtBase", "FileAtHead", "FileAtRef"}
  BY DEF Inv, TypeOK, StageOK, ContentRead, Running
<1>2. call' = Return(call, got) /\ past' = [past EXCEPT !.reads = @ \union {r}]
      /\ UNCHANGED <<pr, client, snap>>
  BY DEF ContentRead
<1>3. CommitAt(call.ref) \in Commits /\ got \in {"ok", "absent"}
  BY <1>1 DEF CommitAt, IsCall, Refs, Commits, PR
<1>4. r \in Reads
  <2> HIDE DEF got
  <2> QED
    BY <1>1, <1>3 DEF Reads, PortCalls, IsCall
<1>5. IsCall(call') /\ call'.at = "done" /\ call'.op = call.op /\ call'.took = call.took
  <2> HIDE DEF got
  <2> QED
    BY <1>1, <1>2, ReturnFields
<1>6. /\ r.op = call.op /\ r.ref = call.ref /\ r.at = CommitAt(call.ref)
      /\ r.got = "absent" => ~(pr.scope /\ r.at \in Holds)
  OBVIOUS
<1> HIDE DEF r
<1>7. /\ IsPast(past') /\ past'.reads = past.reads \union {r}
      /\ past'.first = past.first /\ past'.revoked = past.revoked
  BY <1>1, <1>2, <1>4 DEF IsPast
<1>8. Inv'
  BY <1>1, <1>2, <1>5, <1>7 DEF Inv, TypeOK, StageOK, IsClient, IsSnap
<1> QED
  BY <1>1, <1>2, <1>4, <1>5, <1>6, <1>7, <1>8

(* A page of the changed files.                                            *)
LEMMA FilesFields ==
    ASSUME Inv, MRChangedFilesPage
    PROVE  /\ Inv' /\ call.op = "Snapshot" /\ call'.op = "Snapshot" /\ ~call'.took
           /\ call'.at \in {"files", "done"} /\ UNCHANGED <<pr, client, past>>
<1> DEFINE list == FilesPage(call.page)
           short == Len(list) < PerPage
           e == call.entries + Len(list)
           ps == call.paths \union PathsOf(list)
           n == call.page + 1
           c == [call EXCEPT !.entries = e, !.paths = ps, !.page = n]
           whole == ChangedFilesVerdict(c.entries, client.lastChangedFiles, short)
<1>1. /\ pr \in PR /\ IsClient(client) /\ IsCall(call) /\ IsSnap(snap) /\ IsPast(past)
      /\ call.at = "files" /\ ~call.took /\ call.op = "Snapshot"
  BY DEF Inv, TypeOK, StageOK, MRChangedFilesPage, Running
<1>2. UNCHANGED <<pr, client, past>>
  BY DEF MRChangedFilesPage
<1>3. \/ call' = Return(c, "ok") /\ snap' = SnapshotOf(c, whole)
      \/ call' = c /\ snap' = snap
  BY DEF MRChangedFilesPage
<1> HIDE DEF list, short, e, ps, n, whole
<1>4. /\ IsCall(c) /\ c.at = "files" /\ c.op = "Snapshot" /\ ~c.took
      /\ c.info = call.info /\ c.digest = call.digest
  BY <1>1 DEF IsCall
<1> HIDE DEF c
<1>5. CASE call' = c /\ snap' = snap
  <2>1. Inv'
    BY <1>1, <1>2, <1>4, <1>5 DEF Inv, TypeOK, StageOK, IsClient, IsSnap, IsPast
  <2> QED
    BY <1>1, <1>2, <1>4, <1>5, <2>1
<1>6. CASE call' = Return(c, "ok") /\ snap' = SnapshotOf(c, whole)
  <2>1. IsCall(call') /\ call'.at = "done" /\ call'.op = "Snapshot" /\ ~call'.took
    BY <1>4, <1>6, ReturnFields
  <2>2. c.info.source \in Heads \union {NoSHA} /\ c.info.target \in Bases \union {NoSHA}
        /\ c.digest \in Digests
    BY <1>4 DEF IsCall, Info
  <2>3. IsSnap(snap')
    <3> DEFINE grade == PinningGrade
    <3>1. snap' = [source |-> c.info.source, target |-> c.info.target, digest |-> c.digest,
                   paths |-> c.paths, complete |-> whole, pinning |-> grade]
      BY <1>6 DEF SnapshotOf
    <3> HIDE DEF grade
    <3> QED
      BY <2>2, <3>1 DEF IsSnap
  <2>4. Inv'
    BY <1>1, <1>2, <2>1, <2>3 DEF Inv, TypeOK, StageOK, IsClient, IsPast
  <2> QED
    BY <1>1, <1>2, <2>1, <2>4
<1> QED
  BY <1>3, <1>5, <1>6

(* A write ends its call, and says that it took effect.                    *)
LEMMA TookFields ==
    ASSUME NEW c, IsCall(c), NEW out
    PROVE  LET d == Return([c EXCEPT !.took = TRUE], out)
           IN IsCall(d) /\ d.at = "done" /\ d.op = c.op
<1>1. IsCall([c EXCEPT !.took = TRUE]) /\ [c EXCEPT !.took = TRUE].op = c.op
  BY DEF IsCall
<1> QED
  BY <1>1, ReturnFields

(* A review or a comment is posted for the pinned source.                  *)
LEMMA PostFields ==
    ASSUME Inv, Approve \/ CreateThread
    PROVE  /\ Inv' /\ call.at = "post" /\ call'.at = "done" /\ call'.op = call.op
           /\ call.op \in {"Approve", "CreateThread"} /\ UNCHANGED <<client, snap, past>>
           /\ pr'.source = pr.source /\ pr'.target = pr.target /\ pr'.mergeRef = pr.mergeRef
           /\ pr'.mergeable = pr.mergeable /\ pr'.scope = pr.scope /\ pr'.merged = pr.merged
           /\ pr'.approvals \union pr'.anchors = (pr.approvals \union pr.anchors) \union {call.ref}
<1>1. /\ pr \in PR /\ IsClient(client) /\ IsCall(call) /\ IsSnap(snap) /\ IsPast(past)
      /\ call.at = "post" /\ ~call.took /\ call.op \in {"Approve", "CreateThread"}
  BY DEF Inv, TypeOK, StageOK, Approve, CreateThread, Post, Running
<1>2. UNCHANGED <<client, snap, past>>
  BY DEF Approve, CreateThread, Post
<1>3. PICK out \in {"ok", "err"} : call' = Return([call EXCEPT !.took = TRUE], out)
  BY DEF Approve, CreateThread, Post
<1>4. IsCall(call') /\ call'.at = "done" /\ call'.op = call.op
  BY <1>1, <1>3, TookFields
<1>5. call.ref \in Refs
  BY <1>1 DEF IsCall
<1>6. \/ pr' = [pr EXCEPT !.approvals = @ \union {call.ref}]
      \/ pr' = [pr EXCEPT !.anchors = @ \union {call.ref}]
  BY DEF Approve, CreateThread, Post
<1> DEFINE Posted ==
             /\ pr' \in PR
             /\ pr'.source = pr.source /\ pr'.target = pr.target /\ pr'.mergeRef = pr.mergeRef
             /\ pr'.mergeable = pr.mergeable /\ pr'.scope = pr.scope /\ pr'.merged = pr.merged
             /\ pr'.approvals \union pr'.anchors = (pr.approvals \union pr.anchors) \union {call.ref}
<1>7. Posted
  <2>1. ASSUME pr' = [pr EXCEPT !.approvals = @ \union {call.ref}] PROVE Posted
    BY <1>1, <1>5, <2>1 DEF PR
  <2>2. ASSUME pr' = [pr EXCEPT !.anchors = @ \union {call.ref}] PROVE Posted
    BY <1>1, <1>5, <2>2 DEF PR
  <2> QED
    BY <1>6, <2>1, <2>2
<1>8. Inv'
  BY <1>1, <1>2, <1>4, <1>7 DEF Inv, TypeOK, StageOK, IsClient, IsSnap, IsPast
<1> QED
  BY <1>1, <1>2, <1>4, <1>7, <1>8

(* The merge PUT merges the head it names, or nothing.                     *)
LEMMA PutFields ==
    ASSUME Inv, PutMerge
    PROVE  /\ Inv' /\ call.at = "put" /\ call'.at = "done" /\ call'.op = call.op
           /\ call.op = "MergeCAS" /\ UNCHANGED <<client, snap, past>>
           /\ \/ pr' = pr /\ ~call'.took
              \/ /\ pr.merged = NoSHA /\ pr.source = snap.source
                 /\ pr' = [pr EXCEPT !.merged = <<pr.source, pr.target>>]
<1>1. /\ pr \in PR /\ IsClient(client) /\ IsCall(call) /\ IsSnap(snap) /\ IsPast(past)
      /\ call.at = "put" /\ ~call.took /\ call.op = "MergeCAS"
  BY DEF Inv, TypeOK, StageOK, PutMerge, Running
<1>2. UNCHANGED <<client, snap, past>>
  BY DEF PutMerge
<1>3. CASE pr.merged # NoSHA \/ pr.source # snap.source \/ pr.mergeable = "blocked"
  <2>1. call' = Return(call, "moved") /\ pr' = pr
    BY <1>3 DEF PutMerge
  <2>2. IsCall(call') /\ call'.at = "done" /\ call'.op = call.op /\ ~call'.took
    BY <1>1, <2>1, ReturnFields
  <2>3. Inv'
    BY <1>1, <1>2, <2>1, <2>2 DEF Inv, TypeOK, StageOK, IsClient, IsSnap, IsPast
  <2> QED
    BY <1>1, <1>2, <2>1, <2>2, <2>3
<1>4. CASE ~(pr.merged # NoSHA \/ pr.source # snap.source \/ pr.mergeable = "blocked")
  <2>1. PICK out \in {"ok", "err"} : call' = Return([call EXCEPT !.took = TRUE], out)
    BY <1>4 DEF PutMerge
  <2>2. pr' = [pr EXCEPT !.merged = <<pr.source, pr.target>>]
    BY <1>4 DEF PutMerge
  <2>3. IsCall(call') /\ call'.at = "done" /\ call'.op = call.op
    BY <1>1, <2>1, TookFields
  <2>4. pr' \in PR
    BY <1>1, <2>2 DEF PR, Digests
  <2>5. Inv'
    BY <1>1, <1>2, <2>3, <2>4 DEF Inv, TypeOK, StageOK, IsClient, IsSnap, IsPast
  <2> QED
    BY <1>1, <1>2, <1>4, <2>2, <2>3, <2>5
<1> QED
  BY <1>3, <1>4

(* A failed request ends the call and changes nothing else.                *)
LEMMA FailFields ==
    ASSUME Inv, RequestFails
    PROVE  /\ Inv' /\ call'.at = "done" /\ ~call'.took /\ call'.op = call.op
           /\ UNCHANGED <<pr, client, snap, past>>
<1>1. IsCall(call) /\ ~call.took /\ call' = Return(call, "err")
  BY DEF Inv, TypeOK, StageOK, RequestFails, Running, Failed
<1>2. IsCall(call') /\ call'.at = "done" /\ call'.op = call.op /\ ~call'.took
  BY <1>1, ReturnFields
<1>3. UNCHANGED <<pr, client, snap, past>>
  BY DEF RequestFails
<1> QED
  BY <1>2, <1>3 DEF Inv, TypeOK, StageOK, IsClient, IsSnap, IsPast

(* Every step keeps types and stages.                                      *)
LEMMA InvNext == ASSUME Inv, [Next]_vars PROVE Inv'
<1>1. CASE UNCHANGED vars
  BY <1>1 DEF vars, Inv, TypeOK, StageOK, IsClient, IsCall, IsSnap, IsPast
<1> QED
  BY <1>1, ForgeType, BeginFields, FreshFields, DigestFields, ProbeFields, ReadFields, FilesFields,
     PostFields, PutFields, FailFields DEF Next

(* The merge ref, if there is one, is a merge of the pull request's head.  *)
Linked(q) == q.mergeRef = NoSHA \/ q.mergeRef[1] = q.source
Mergeable(q) == q.mergeable \in {"", "clean"}

(* A change of the pull request touches neither client nor snapshot, and   *)
(* says so in the history when it moves a head.                            *)
LEMMA ForgeFields ==
    ASSUME Inv, ForgeMoves
    PROVE  /\ UNCHANGED <<client, call, snap>> /\ pr.merged = NoSHA
           /\ pr'.approvals = pr.approvals /\ pr'.anchors = pr.anchors
           /\ past'.first = past.first /\ past'.reads = past.reads
           /\ \/ pr'.scope = pr.scope /\ past'.revoked = past.revoked
              \/ pr.scope /\ ~pr'.scope /\ past'.revoked = client.scopeOK
           /\ (Mergeable(pr) => Linked(pr)) /\ Mergeable(pr') => Linked(pr')
           /\ ~past'.sourceMoved =>
                 ~past.sourceMoved /\ pr'.source = pr.source /\ (Linked(pr) => Linked(pr'))
           /\ ~past'.targetMoved => ~past.targetMoved /\ pr'.target = pr.target
<1>1. pr \in PR /\ IsPast(past)
  BY DEF Inv, TypeOK
<1> DEFINE Fits(new, q) ==
         /\ Move(new, q) /\ IsPast(q) /\ new \in PR
         /\ new.approvals = pr.approvals /\ new.anchors = pr.anchors
         /\ q.first = past.first /\ q.reads = past.reads
         /\ \/ new.scope = pr.scope /\ q.revoked = past.revoked
            \/ pr.scope /\ ~new.scope /\ q.revoked = client.scopeOK
         /\ (Mergeable(pr) => Linked(pr)) /\ Mergeable(new) => Linked(new)
         /\ ~q.sourceMoved =>
               ~past.sourceMoved /\ new.source = pr.source /\ (Linked(pr) => Linked(new))
         /\ ~q.targetMoved => ~past.targetMoved /\ new.target = pr.target
<1>2. \E new, q : Fits(new, q)
  <2>1. ASSUME NEW h \in Heads, Push(h) PROVE \E new, q : Fits(new, q)
    <3> PICK r \in {pr.mergeRef, NoSHA} :
          Move([pr EXCEPT !.source = h, !.mergeable = "unknown", !.mergeRef = r],
               [past EXCEPT !.sourceMoved = TRUE])
      BY <2>1 DEF Push
    <3> DEFINE new == [pr EXCEPT !.source = h, !.mergeable = "unknown", !.mergeRef = r]
               q == [past EXCEPT !.sourceMoved = TRUE]
    <3>1. /\ new \in PR /\ new.mergeable = "unknown" /\ new.target = pr.target
          /\ new.approvals = pr.approvals /\ new.anchors = pr.anchors /\ new.scope = pr.scope
      BY <1>1 DEF PR, States, Digests
    <3>2. /\ IsPast(q) /\ q.sourceMoved /\ q.first = past.first /\ q.reads = past.reads
          /\ q.revoked = past.revoked /\ q.targetMoved = past.targetMoved
      BY <1>1 DEF IsPast
    <3>3. Move(new, q)
      OBVIOUS
    <3> HIDE DEF new, q
    <3>4. Fits(new, q)
      BY <3>1, <3>2, <3>3 DEF Mergeable
    <3> QED
      BY <3>4
  <2>2. ASSUME NEW b \in Bases, AdvanceBase(b) PROVE \E new, q : Fits(new, q)
    <3> DEFINE new == [pr EXCEPT !.target = b]
               q == [past EXCEPT !.targetMoved = TRUE]
    <3>1. /\ new \in PR /\ new.mergeable = pr.mergeable /\ new.source = pr.source
          /\ new.mergeRef = pr.mergeRef
          /\ new.approvals = pr.approvals /\ new.anchors = pr.anchors /\ new.scope = pr.scope
      BY <1>1 DEF PR
    <3>2. /\ IsPast(q) /\ q.targetMoved /\ q.first = past.first /\ q.reads = past.reads
          /\ q.revoked = past.revoked /\ q.sourceMoved = past.sourceMoved
      BY <1>1 DEF IsPast
    <3>3. Move(new, q)
      BY <2>2 DEF AdvanceBase
    <3> HIDE DEF new, q
    <3>4. Fits(new, q)
      BY <3>1, <3>2, <3>3 DEF Mergeable, Linked
    <3> QED
      BY <3>4
  <2>3. CASE MintMergeRef
    <3> DEFINE new == [pr EXCEPT !.mergeRef = <<pr.source, pr.target>>, !.mergeable = "clean"]
    <3>1. /\ new \in PR /\ new.source = pr.source /\ new.target = pr.target
          /\ new.mergeRef = <<pr.source, pr.target>>
          /\ new.approvals = pr.approvals /\ new.anchors = pr.anchors /\ new.scope = pr.scope
      BY <1>1 DEF PR, States, Digests
    <3>2. Move(new, past)
      BY <2>3 DEF MintMergeRef
    <3> HIDE DEF new
    <3>3. Linked(new)
      BY <3>1 DEF Linked
    <3>4. Fits(new, past)
      BY <1>1, <3>1, <3>2, <3>3
    <3> QED
      BY <3>4
  <2>4. CASE Block \/ DeleteFork
    <3> PICK new \in {[pr EXCEPT !.mergeable = "blocked"], [pr EXCEPT !.forkGone = TRUE]} :
               Move(new, past)
      BY <2>4 DEF Block, DeleteFork
    <3>1. /\ new \in PR /\ new.source = pr.source /\ new.target = pr.target
          /\ new.mergeRef = pr.mergeRef /\ (Mergeable(new) => Mergeable(pr))
          /\ new.approvals = pr.approvals /\ new.anchors = pr.anchors /\ new.scope = pr.scope
      <4>1. CASE new = [pr EXCEPT !.mergeable = "blocked"]
        BY <1>1, <4>1 DEF PR, States, Mergeable
      <4>2. CASE new = [pr EXCEPT !.forkGone = TRUE]
        BY <1>1, <4>2 DEF PR, Mergeable
      <4> QED
        BY <4>1, <4>2
    <3>2. Linked(pr) => Linked(new)
      BY <3>1 DEF Linked
    <3>3. Fits(new, past)
      BY <1>1, <3>1, <3>2
    <3> QED
      BY <3>3
  <2>5. CASE RevokeScope
    <3> DEFINE new == [pr EXCEPT !.scope = FALSE]
               q == [past EXCEPT !.revoked = client.scopeOK]
    <3>1. /\ new \in PR /\ new.source = pr.source /\ new.target = pr.target
          /\ new.mergeRef = pr.mergeRef /\ new.mergeable = pr.mergeable
          /\ new.approvals = pr.approvals /\ new.anchors = pr.anchors /\ ~new.scope
      BY <1>1 DEF PR
    <3>2. /\ IsPast(q) /\ q.first = past.first /\ q.reads = past.reads
          /\ q.revoked = client.scopeOK /\ q.sourceMoved = past.sourceMoved
          /\ q.targetMoved = past.targetMoved
      BY <1>1 DEF IsPast, Inv, TypeOK, IsClient
    <3>3. Move(new, q) /\ pr.scope
      BY <2>5 DEF RevokeScope
    <3> HIDE DEF new, q
    <3>4. Fits(new, q)
      BY <3>1, <3>2, <3>3 DEF Mergeable, Linked
    <3> QED
      BY <3>4
  <2> QED
    BY <2>1, <2>2, <2>3, <2>4, <2>5 DEF ForgeMoves
<1> PICK new, q : Fits(new, q)
  BY <1>2
<1>3. /\ past' = q /\ UNCHANGED <<client, call, snap>> /\ pr.merged = NoSHA
      /\ pr' = [new EXCEPT !.moves = @ + 1]
  BY DEF Move
<1>4. /\ pr'.source = new.source /\ pr'.target = new.target /\ pr'.mergeRef = new.mergeRef
      /\ pr'.mergeable = new.mergeable /\ pr'.scope = new.scope
      /\ pr'.approvals = new.approvals /\ pr'.anchors = new.anchors
  BY <1>3 DEF PR
<1>5. (Linked(new) <=> Linked(pr')) /\ (Mergeable(new) <=> Mergeable(pr'))
  BY <1>4 DEF Linked, Mergeable
<1> QED
  BY <1>3, <1>4, <1>5

-----------------------------------------------------------------------------
(* The head that is judged.  The first read of the process is the pin, and *)
(* a call that reads or posts has taken its ref from the pin.              *)
Judged ==
    /\ client.pin = past.first
    /\ client.pin.read => client.pin.source \in Heads /\ client.pin.target \in Bases
    /\ (call.at = "pr" /\ call.op \in ByPin) => ~client.pin.read
    /\ (call.at \in {"probe", "read", "post"} /\ call.op # "FileAtRef") =>
          /\ client.pin.read
          /\ call.ref = IF call.op = "FileAtBase" THEN client.pin.target ELSE client.pin.source
    /\ ~client.pin.read => /\ pr.approvals \union pr.anchors = {}
                           /\ \A r \in past.reads : r.op \notin {"FileAtHead", "FileAtBase"}
    /\ OneJudgedHead

(* Every step keeps the judged refs those of the pin.                      *)
LEMMA JudgedNext ==
    ASSUME TopSHA, Inv, Judged, [Next]_vars
    PROVE  Judged'
<1>1. MRInfoFromPR = [source |-> pr.source, target |-> pr.target, read |-> TRUE]
  BY DEF MRInfoFromPR
<1>3. pr.source \in Heads /\ pr.target \in Bases
  BY DEF Inv, TypeOK, PR
<1>4. CASE ForgeMoves
  BY <1>4, ForgeFields DEF Judged, OneJudgedHead
<1>5. ASSUME NEW op \in PortCalls, Begin(op) PROVE Judged'
  <2>1. UNCHANGED <<pr, client, snap>> /\ past'.first = past.first /\ past'.reads = past.reads
    BY <1>5 DEF Begin, Inv, TypeOK, IsPast
  <2> QED
    BY <1>5, <2>1, BeginFields DEF Judged, OneJudgedHead
<1>6. CASE FreshPR
  <2>1. client'.pin = past'.first
    BY <1>1, <1>6, FreshFields DEF Judged
  <2>2. client'.pin = client.pin \/ (~client.pin.read /\ client'.pin = MRInfoFromPR)
    BY <1>6, FreshFields
  <2>3. /\ call'.at # "pr"
        /\ (call'.at \in {"probe", "read", "post"} /\ call'.op # "FileAtRef") =>
              /\ client'.pin = MRInfoFromPR
              /\ call'.ref = IF call.op = "FileAtBase" THEN pr.target ELSE pr.source
        /\ UNCHANGED <<pr, snap>> /\ past'.reads = past.reads /\ call'.op = call.op
    BY <1>1, <1>6, FreshFields DEF Judged
  <2> QED
    BY <1>1, <1>3, <2>1, <2>2, <2>3 DEF Judged, OneJudgedHead
<1>7. CASE MergeResultDigest
  BY <1>7, DigestFields DEF Judged, OneJudgedHead
<1>8. CASE ContentScopeProbe
  BY <1>8, ProbeFields DEF Judged, OneJudgedHead
<1>9. CASE ContentRead
  <2> PICK r \in Reads :
         /\ past'.reads = past.reads \union {r}
         /\ r.op = call.op /\ r.ref = call.ref /\ r.at = CommitAt(call.ref)
    BY <1>9, ReadFields
  <2>1. /\ UNCHANGED <<pr, client, snap>> /\ past'.first = past.first /\ call'.at = "done"
        /\ call.at = "read"
    BY <1>9, ReadFields
  <2>2. call.op # "FileAtRef" => /\ client.pin.read
                                 /\ r.at = IF call.op = "FileAtBase" THEN client.pin.target
                                                                     ELSE client.pin.source
    BY <2>1, GitHubAssumption DEF Judged, CommitAt
  <2> QED
    BY <2>1, <2>2 DEF Judged, OneJudgedHead
<1>10. CASE MRChangedFilesPage
  BY <1>10, FilesFields DEF Judged, OneJudgedHead
<1>11. CASE Approve \/ CreateThread
  BY <1>11, PostFields DEF Judged, OneJudgedHead
<1>12. CASE PutMerge
  <2>1. pr'.approvals = pr.approvals /\ pr'.anchors = pr.anchors
    BY <1>12, PutFields DEF Inv, TypeOK, PR
  <2> QED
    BY <1>12, <2>1, PutFields DEF Judged, OneJudgedHead
<1>13. CASE RequestFails
  BY <1>13, FailFields DEF Judged, OneJudgedHead
<1>14. CASE UNCHANGED vars
  BY <1>14 DEF vars, Judged, OneJudgedHead
<1> QED
  BY <1>4, <1>5, <1>6, <1>7, <1>8, <1>9, <1>10, <1>11, <1>12, <1>13, <1>14 DEF Next

(* Types and stages are an invariant; others are proved relative to it.    *)
LEMMA InvHolds == Spec => []Inv
  BY InitInv, InvNext, PTL DEF Spec

(* One process judges, approves and comments on one head, that of its      *)
(* first read, however long it runs and whatever is pushed meanwhile, on a *)
(* forge whose PR object carries the head it reports (snapshot.go 257-297, *)
(* GetMR; write.go, Approve and CreateThread).                             *)
THEOREM ClientJudgesOneHead ==
    ASSUME TopSHA
    PROVE  Spec => []OneJudgedHead
<1>1. ASSUME Init PROVE Judged
  <2>1. pr.approvals = {} /\ pr.anchors = {}
    BY <1>1 DEF Init
  <2>2. call.at = "done" /\ past.first = NoInfo /\ past.reads = {} /\ client.pin = NoInfo
    BY <1>1 DEF Init, NoCall
  <2> QED
    BY <2>1, <2>2 DEF Judged, OneJudgedHead, NoInfo
<1>2. Inv /\ Judged /\ [Next]_vars => Judged'
  BY JudgedNext
<1>3. Judged => OneJudgedHead
  BY DEF Judged
<1> QED
  BY <1>1, <1>2, <1>3, InvHolds, PTL DEF Spec

-----------------------------------------------------------------------------
(* Absence.  A ref is read only after its probe, and a permission that is  *)
(* gone is in the history.                                                 *)
Probed ==
    /\ call.at = "read" => call.ref \in client.scopeOK
    /\ IF pr.scope THEN past.revoked = {} ELSE client.scopeOK \subseteq past.revoked
    /\ AbsentIsAbsent

(* Every step keeps absence proved by the scope probe.                     *)
LEMMA ProbedNext ==
    ASSUME Inv, Probed, [Next]_vars
    PROVE  Probed'
<1>1. CASE ForgeMoves
  BY <1>1, ForgeFields DEF Probed, AbsentIsAbsent
<1>2. ASSUME NEW op \in PortCalls, Begin(op) PROVE Probed'
  <2>1. UNCHANGED <<pr, client, snap>> /\ past'.revoked = past.revoked /\ past'.reads = past.reads
    BY <1>2 DEF Begin, Inv, TypeOK, IsPast
  <2> QED
    BY <1>2, <2>1, BeginFields DEF Probed, AbsentIsAbsent
<1>3. CASE FreshPR
  BY <1>3, FreshFields DEF Probed, AbsentIsAbsent
<1>4. CASE MergeResultDigest
  BY <1>4, DigestFields DEF Probed, AbsentIsAbsent
<1>5. CASE ContentScopeProbe
  BY <1>5, ProbeFields DEF Probed, AbsentIsAbsent
<1>6. CASE ContentRead
  BY <1>6, ReadFields DEF Probed, AbsentIsAbsent
<1>7. CASE MRChangedFilesPage
  BY <1>7, FilesFields DEF Probed, AbsentIsAbsent
<1>8. CASE Approve \/ CreateThread
  BY <1>8, PostFields DEF Probed, AbsentIsAbsent
<1>9. CASE PutMerge
  <2>1. pr'.scope = pr.scope
    BY <1>9, PutFields DEF Inv, TypeOK, PR
  <2> QED
    BY <1>9, <2>1, PutFields DEF Probed, AbsentIsAbsent
<1>10. CASE RequestFails
  BY <1>10, FailFields DEF Probed, AbsentIsAbsent
<1>11. CASE UNCHANGED vars
  BY <1>11 DEF vars, Probed, AbsentIsAbsent
<1> QED
  BY <1>1, <1>2, <1>3, <1>4, <1>5, <1>6, <1>7, <1>8, <1>9, <1>10, <1>11 DEF Next

(* GitHub answers 404 for a missing file and for a missing permission; the *)
(* client never takes the second for the first, unless the permission was  *)
(* withdrawn after its probe (snapshot.go 355-413, contentRead).           *)
THEOREM AbsenceIsReal == Spec => []AbsentIsAbsent
<1>1. ASSUME Init PROVE Probed
  <2>1. call.at = "done" /\ past.revoked = {} /\ past.reads = {} /\ client.scopeOK = {}
    BY <1>1 DEF Init, NoCall
  <2> QED
    BY <2>1 DEF Probed, AbsentIsAbsent
<1>2. Inv /\ Probed /\ [Next]_vars => Probed'
  BY ProbedNext
<1>3. Probed => AbsentIsAbsent
  BY DEF Probed
<1> QED
  BY <1>1, <1>2, <1>3, InvHolds, PTL DEF Spec

-----------------------------------------------------------------------------
(* The merge.  While a mergeable PR is read, its merge ref is of its head; *)
(* a merge that goes on has compared target and digest with the pins.      *)
Armed ==
    /\ Mergeable(pr) => Linked(pr)
    /\ call.op = "MergeCAS" =>
          /\ call.at # "done" => snap.digest # NoSHA
          /\ call.at = "digest" => /\ ~past.sourceMoved => Linked(pr)
                                   /\ ~past.targetMoved => pr.target = call.info.target
          /\ call.at = "put" => /\ ~past.sourceMoved => snap.digest[1] = pr.source
                                /\ ~past.targetMoved => pr.target = snap.target
          /\ call.took => pr.merged # NoSHA
    /\ MergeIsPinned

(* Every step keeps what armed merges were re-read against.                *)
LEMMA ArmedNext ==
    ASSUME Inv, Armed, [Next]_vars
    PROVE  Armed'
<1>1. CASE ForgeMoves
  <2>1. ~(call.op = "MergeCAS" /\ call.took)
    BY <1>1, ForgeFields DEF Armed
  <2> QED
    BY <1>1, <2>1, ForgeFields DEF Armed, MergeIsPinned
<1>2. ASSUME NEW op \in PortCalls, Begin(op) PROVE Armed'
  <2>1. UNCHANGED <<pr, client, snap>> /\ (op = "MergeCAS" => snap.digest # NoSHA)
    BY <1>2 DEF Begin
  <2>2. call'.op = op /\ ~call'.took /\ call'.at \notin {"digest", "put"}
    BY <1>2, BeginFields
  <2> QED
    BY <2>1, <2>2 DEF Armed, MergeIsPinned, Linked, Mergeable
<1>3. CASE FreshPR
  BY <1>3, FreshFields DEF Armed, MergeIsPinned, Linked, Mergeable
<1>4. CASE MergeResultDigest
  BY <1>4, DigestFields DEF Armed, MergeIsPinned, Linked, Mergeable
<1>5. CASE ContentScopeProbe
  <2>1. call.op # "MergeCAS"
    BY <1>5 DEF ContentScopeProbe, Running, Inv, StageOK
  <2> QED
    BY <1>5, <2>1, ProbeFields DEF Armed, MergeIsPinned, Linked, Mergeable
<1>6. CASE ContentRead
  <2>1. call.op # "MergeCAS" /\ call'.op = call.op
    BY <1>6 DEF ContentRead, Running, Inv, TypeOK, IsCall, StageOK, Return, NoCall
  <2> QED
    BY <1>6, <2>1, ReadFields DEF Armed, MergeIsPinned, Linked, Mergeable
<1>7. CASE MRChangedFilesPage
  BY <1>7, FilesFields DEF Armed, MergeIsPinned, Linked, Mergeable
<1>8. CASE Approve \/ CreateThread
  BY <1>8, PostFields DEF Armed, MergeIsPinned, Linked, Mergeable
<1>9. CASE PutMerge
  <2>1. CASE pr' = pr /\ ~call'.took
    BY <1>9, <2>1, PutFields DEF Armed, MergeIsPinned, Linked, Mergeable
  <2>2. CASE /\ pr.merged = NoSHA /\ pr.source = snap.source
             /\ pr' = [pr EXCEPT !.merged = <<pr.source, pr.target>>]
    <3>1. /\ pr'.merged = <<pr.source, pr.target>> /\ pr'.mergeable = pr.mergeable
          /\ pr'.mergeRef = pr.mergeRef /\ pr'.source = pr.source
      BY <2>2 DEF Inv, TypeOK, PR
    <3>2. pr'.merged # NoSHA
      BY <3>1, GitHubAssumption DEF Inv, TypeOK, PR
    <3>3. pr'.merged[1] = pr.source /\ pr'.merged[2] = pr.target
      BY <3>1
    <3> QED
      BY <1>9, <2>2, <3>1, <3>2, <3>3, PutFields DEF Armed, MergeIsPinned, Linked, Mergeable
  <2> QED
    BY <1>9, <2>1, <2>2, PutFields
<1>10. CASE RequestFails
  BY <1>10, FailFields DEF Armed, MergeIsPinned, Linked, Mergeable
<1>11. CASE UNCHANGED vars
  BY <1>11 DEF vars, Armed, MergeIsPinned, Linked, Mergeable
<1> QED
  BY <1>1, <1>2, <1>3, <1>4, <1>5, <1>6, <1>7, <1>8, <1>9, <1>10, <1>11 DEF Next

(* A merge takes the pinned source, under a digest of that source, into    *)
(* the pinned target, except for moves after the re-read of the PR, which  *)
(* the PUT's source guard cannot see (write.go 549-664, MergeCAS;          *)
(* snapshot.go 460-510, mergeResultDigest).                                *)
THEOREM MergesArePinned == Spec => []MergeIsPinned
<1>1. ASSUME Init PROVE Armed
  <2>1. pr.mergeable \in {"", "unknown", "clean"}
        /\ pr.mergeRef = IF pr.mergeable = "clean" THEN <<pr.source, pr.target>> ELSE NoSHA
    BY <1>1 DEF Init
  <2>2. call.op = "none"
    BY <1>1 DEF Init, NoCall
  <2>3. Mergeable(pr) => Linked(pr)
    <3>1. <<pr.source, pr.target>>[1] = pr.source
      OBVIOUS
    <3> QED
      BY <2>1, <3>1 DEF Linked, Mergeable
  <2> QED
    BY <2>2, <2>3 DEF Armed, MergeIsPinned, Linked, Mergeable
<1>2. Inv /\ Armed /\ [Next]_vars => Armed'
  BY ArmedNext
<1>3. Armed => MergeIsPinned
  BY DEF Armed
<1> QED
  BY <1>1, <1>2, <1>3, InvHolds, PTL DEF Spec

-----------------------------------------------------------------------------
(* The changed files.  While the head stands still the pages read so far   *)
(* are a prefix of its listing, every entry of it counted and named.       *)
Served == Min({Len(Diff[pr.source]), PullFilesCap})
Named(list, k, paths) == \A i \in 1..k : {list[i].filename, list[i].previous} \ {NoPath} \subseteq paths
Reached ==
    /\ call.page \in Nat \ {0}
    /\ ~past.sourceMoved => /\ (call.page - 1) * PerPage <= Served
                            /\ call.entries = (call.page - 1) * PerPage
                            /\ Named(Diff[pr.source], (call.page - 1) * PerPage, call.paths)

Snapshotting(stages) == call.op = "Snapshot" /\ call.at \in stages
Counted == client.lastChangedFiles \in {-1, Len(Diff[pr.source])}
Listed ==
    /\ Snapshotting(Stages \ {"done"}) => call.out = "none"
    /\ Snapshotting({"pr", "digest"}) => call.page = 1 /\ call.entries = 0
    /\ (Snapshotting({"digest", "files"}) /\ ~past.sourceMoved) => Counted
    /\ call.at = "files" => Reached
    /\ CompleteListsAll

(* The smaller of two numbers.                                             *)
LEMMA MinOfTwo ==
    ASSUME NEW a \in Nat, NEW b \in Nat
    PROVE  /\ Min({a, b}) \in {a, b} /\ Min({a, b}) <= a /\ Min({a, b}) <= b
<1>1. \E x \in {a, b} : \A y \in {a, b} : x =< y
  <2>1. CASE a <= b
    BY <2>1
  <2>2. CASE b <= a
    BY <2>2
  <2> QED
    BY <2>1, <2>2
<1> QED
  BY <1>1 DEF Min

(* What is served is a prefix of the listing.                              *)
LEMMA ServedIsAPrefix ==
    ASSUME Inv
    PROVE  /\ Diff[pr.source] \in Seq({Diff[pr.source][i] : i \in DOMAIN Diff[pr.source]})
           /\ Len(Diff[pr.source]) \in Nat /\ DOMAIN Diff[pr.source] = 1..Len(Diff[pr.source])
           /\ Served \in Nat /\ Served <= Len(Diff[pr.source])
           /\ Served \in {Len(Diff[pr.source]), PullFilesCap} /\ PullFilesCap \in Nat
<1>1. pr.source \in Heads
  BY DEF Inv, TypeOK, PR
<1>2. Diff[pr.source] \in Seq({Diff[pr.source][i] : i \in DOMAIN Diff[pr.source]})
  BY <1>1, GitHubAssumption
<1> DEFINE S == {Diff[pr.source][i] : i \in DOMAIN Diff[pr.source]}
<1>3. ASSUME NEW D, NEW T, D \in Seq(T) PROVE Len(D) \in Nat /\ DOMAIN D = 1..Len(D)
  BY <1>3
<1>4. Len(Diff[pr.source]) \in Nat /\ DOMAIN Diff[pr.source] = 1..Len(Diff[pr.source])
  <2> HIDE DEF S
  <2> QED
    BY <1>2, <1>3
<1>5. PullFilesCap \in Nat
  BY GitHubAssumption
<1>6. PICK n \in Nat : n = Len(Diff[pr.source])
  BY <1>4
<1>7. Served = Min({n, PullFilesCap})
  BY <1>6 DEF Served
<1>8. /\ Min({n, PullFilesCap}) \in {n, PullFilesCap} /\ Min({n, PullFilesCap}) <= n
  BY <1>5, MinOfTwo
<1>9. PICK m \in {n, PullFilesCap} : m = Served /\ m <= n
  BY <1>7, <1>8
<1> QED
  BY <1>2, <1>4, <1>5, <1>6, <1>9

(* A sequence and a part of it.                                            *)
LEMMA PartOfListing ==
    ASSUME NEW T, NEW D \in Seq(T), NEW k \in Nat, NEW m \in Nat, k <= m, m <= Len(D)
    PROVE  /\ Len(SubSeq(D, k + 1, m)) = m - k
           /\ \A j \in 1..(m - k) : SubSeq(D, k + 1, m)[j] = D[k + j]
           /\ DOMAIN SubSeq(D, k + 1, m) = 1..(m - k)
OBVIOUS

(* A list of entries names those of each.                                  *)
LEMMA NamesOfAnEntry ==
    ASSUME NEW list, NEW j \in DOMAIN list
    PROVE  {list[j].filename, list[j].previous} \ {NoPath} \subseteq PathsOf(list)
<1> SUFFICES ASSUME NEW x, x \in {list[j].filename, list[j].previous}, x # NoPath
             PROVE  x \in PathsOf(list)
  OBVIOUS
<1>1. \E i \in DOMAIN list : x \in {list[i].filename, list[i].previous}
  OBVIOUS
<1> QED
  BY <1>1 DEF PathsOf

(* A part that begins where the named entries end names those after them. *)
LEMMA PartNames ==
    ASSUME NEW T, NEW D \in Seq(T), NEW k \in Nat, NEW m \in Nat, k <= m, m <= Len(D),
           NEW paths, Named(D, k, paths)
    PROVE  Named(D, m, paths \union PathsOf(SubSeq(D, k + 1, m)))
<1> SUFFICES ASSUME NEW i \in 1..m
             PROVE  {D[i].filename, D[i].previous} \ {NoPath}
                       \subseteq paths \union PathsOf(SubSeq(D, k + 1, m))
  BY DEF Named
<1>1. CASE i <= k
  <2>1. i \in 1..k
    BY <1>1
  <2> QED
    BY <2>1 DEF Named
<1>2. CASE k < i
  <2>1. i - k \in 1..(m - k) /\ k + (i - k) = i
    BY <1>2
  <2>2. PICK j \in 1..(m - k) : k + j = i
    BY <2>1
  <2>3. j \in DOMAIN SubSeq(D, k + 1, m) /\ SubSeq(D, k + 1, m)[j] = D[i]
    BY <2>2, PartOfListing
  <2>4. {SubSeq(D, k + 1, m)[j].filename, SubSeq(D, k + 1, m)[j].previous} \ {NoPath}
           \subseteq PathsOf(SubSeq(D, k + 1, m))
    BY <2>3, NamesOfAnEntry
  <2> QED
    BY <2>3, <2>4
<1> QED
  BY <1>1, <1>2

(* A page goes on where the pages before it stopped; a short one is the    *)
(* last one served.                                                        *)
LEMMA PageOfFiles ==
    ASSUME Inv, NEW p \in Nat \ {0}, NEW k \in Nat, k = (p - 1) * PerPage, k <= Served,
           NEW paths, Named(Diff[pr.source], k, paths)
    PROVE  \E m \in Nat :
              /\ Len(FilesPage(p)) = m - k /\ k <= m /\ m <= Served
              /\ IF Len(FilesPage(p)) < PerPage THEN m = Served ELSE m = p * PerPage
              /\ Named(Diff[pr.source], m, paths \union PathsOf(FilesPage(p)))
<1>1. PerPage \in Nat \ {0} /\ p * PerPage = k + PerPage /\ p * PerPage \in Nat
  BY GitHubAssumption
<1>2. PICK n \in Nat : n = Served
  BY ServedIsAPrefix
<1> PICK q \in Nat : q = p * PerPage
  BY <1>1
<1>3. PICK m \in {q, n} : m = Min({q, n}) /\ m <= q /\ m <= n
  <2>1. Min({q, n}) \in {q, n} /\ Min({q, n}) <= q /\ Min({q, n}) <= n
    BY MinOfTwo
  <2> QED
    BY <2>1
<1>4. m \in Nat /\ m \in {p * PerPage, Served} /\ m <= p * PerPage /\ m <= Served
  BY <1>2, <1>3
<1>5. k <= m /\ m <= Len(Diff[pr.source])
  BY <1>1, <1>4, ServedIsAPrefix
<1>6. FilesPage(p) = SubSeq(Diff[pr.source], k + 1, m)
  <2>1. m = Min({p * PerPage, Served})
    BY <1>2, <1>3
  <2> QED
    BY <2>1 DEF FilesPage, Served
<1>7. PICK T : Diff[pr.source] \in Seq(T)
  BY ServedIsAPrefix
<1>8. /\ Len(FilesPage(p)) = m - k
      /\ Named(Diff[pr.source], m, paths \union PathsOf(FilesPage(p)))
  <2> PICK D \in Seq(T) : D = Diff[pr.source]
    BY <1>7
  <2>1. FilesPage(p) = SubSeq(D, k + 1, m) /\ m <= Len(D) /\ Named(D, k, paths)
    BY <1>5, <1>6
  <2>2. Len(SubSeq(D, k + 1, m)) = m - k
    BY <1>4, <1>5, <2>1, PartOfListing
  <2>3. Named(D, m, paths \union PathsOf(SubSeq(D, k + 1, m)))
    BY <1>4, <1>5, <2>1, PartNames
  <2> QED
    BY <2>1, <2>2, <2>3
<1>9. IF Len(FilesPage(p)) < PerPage THEN m = Served ELSE m = p * PerPage
  BY <1>1, <1>2, <1>4, <1>5, <1>8
<1> QED
  BY <1>4, <1>5, <1>8, <1>9

(* Where a snapshot goes keeps its pages.                                  *)
LEMMA SnapshotFields ==
    ASSUME NEW c, IsCall(c), NEW s \in Stages, NEW digest \in Digests
    PROVE  /\ \A d \in {Goto(c, s), [Goto(c, s) EXCEPT !.digest = digest]} :
                 /\ d.at = s /\ d.op = c.op /\ d.out = c.out
                 /\ d.page = c.page /\ d.entries = c.entries /\ d.paths = c.paths
           /\ \A out : Return(c, out).out = out
BY DEF IsCall, Goto, Return, NoCall

(* A snapshot that has read the pull request enters the digest with the    *)
(* count of its changed files.                                             *)
LEMMA FreshListed ==
    ASSUME Inv, Listed, FreshPR, call.op = "Snapshot", ~pr.forkGone
    PROVE  Listed'
<1>1. /\ IsCall(call) /\ IsClient(client) /\ pr \in PR /\ Inv' /\ call.at = "pr"
  BY FreshFields DEF Inv, TypeOK, FreshPR, Running
<1> PICK info \in Info : info = MRInfoFromPR
  <2>1. MRInfoFromPR \in Info
    BY <1>1 DEF MRInfoFromPR, Info, PR
  <2> QED
    BY <2>1
<1>2. PICK c : c = [call EXCEPT !.info = info]
  OBVIOUS
<1>3. PICK n : n = IF pr.counted THEN Len(Diff[pr.source]) ELSE -1
  OBVIOUS
<1>4. n \in {-1, Len(Diff[pr.source])}
  BY <1>3
<1>5. PICK cl : cl = [client EXCEPT !.lastMergeState = pr.mergeable, !.lastChangedFiles = n]
  OBVIOUS
<1>6. cl.lastChangedFiles = n /\ IsClient(cl)
  BY <1>1, <1>5 DEF IsClient, PR
<1>7. /\ IsCall(c) /\ c.op = "Snapshot" /\ c.page = 1 /\ c.entries = 0 /\ c.out = "none"
  <2>1. call.page = 1 /\ call.entries = 0 /\ call.out = "none"
    BY <1>1 DEF Listed, Snapshotting, Stages
  <2> QED
    BY <1>1, <1>2, <2>1 DEF IsCall
<1>8. EnterDigest(c, cl) /\ UNCHANGED <<pr, snap>>
  BY <1>2, <1>3, <1>5 DEF FreshPR, Recorded
<1>9. "digest" \in Stages /\ "files" \in Stages /\ NoSHA \in Digests
  BY DEF Stages, Digests
<1>10. /\ client'.lastChangedFiles = n /\ call'.at \in {"digest", "files"}
       /\ call'.page = 1 /\ call'.entries = 0 /\ call'.out = "none" /\ call'.op = "Snapshot"
  <2>1. CASE cl.lastMergeState \notin {"", "clean"}
    <3>1. client' = [cl EXCEPT !.mergeRefState = "unmergeable"] /\ call' = WithHeads(c, NoSHA)
      BY <1>8, <2>1 DEF EnterDigest
    <3>2. call' = [Goto(c, "files") EXCEPT !.digest = NoSHA]
      BY <1>7, <3>1 DEF WithHeads
    <3>3. client'.lastChangedFiles = n
      BY <1>6, <3>1 DEF IsClient
    <3> QED
      BY <1>7, <1>9, <3>2, <3>3, SnapshotFields
  <2>2. CASE cl.lastMergeState \in {"", "clean"}
    <3>1. client' = cl /\ call' = Goto(c, "digest")
      BY <1>8, <2>2 DEF EnterDigest
    <3> QED
      BY <1>6, <1>7, <1>9, <3>1, SnapshotFields
  <2> QED
    BY <2>1, <2>2
<1>11. Counted'
  BY <1>4, <1>8, <1>10 DEF Counted
<1>12. Reached'
  <2>1. PerPage \in Nat
    BY GitHubAssumption
  <2>2. (call'.page - 1) * PerPage = 0
    BY <1>10, <2>1
  <2>3. 0 <= Served'
    BY <1>8, ServedIsAPrefix DEF Served
  <2>4. Named(Diff[pr'.source], 0, call'.paths)
    BY DEF Named
  <2> QED
    BY <1>10, <2>2, <2>3, <2>4 DEF Reached
<1>13. CompleteListsAll'
  BY <1>10 DEF CompleteListsAll
<1> QED
  BY <1>10, <1>11, <1>12, <1>13 DEF Listed, Snapshotting

(* A page of the listing: either more pages follow, or the snapshot is     *)
(* complete only with every entry of the head named.                       *)
LEMMA FilesListed ==
    ASSUME Inv, Listed, MRChangedFilesPage
    PROVE  Listed'
<1>1. /\ IsCall(call) /\ call.at = "files" /\ call.op = "Snapshot" /\ Inv' /\ call.out = "none"
      /\ Reached /\ UNCHANGED <<pr, client, past>>
  BY FilesFields DEF Inv, TypeOK, StageOK, MRChangedFilesPage, Running, Listed, Snapshotting, Stages
<1>2. PICK p \in Nat \ {0} : p = call.page
  BY <1>1 DEF Reached
<1>3. PICK list : list = FilesPage(p)
  OBVIOUS
<1>4. PICK short \in BOOLEAN : short <=> Len(list) < PerPage
  OBVIOUS
<1>5. PICK e : e = call.entries + Len(list)
  OBVIOUS
<1>6. PICK ps : ps = call.paths \union PathsOf(list)
  OBVIOUS
<1>7. PICK n \in Nat \ {0} : n = p + 1
  OBVIOUS
<1>8. PICK c : c = [call EXCEPT !.entries = e, !.paths = ps, !.page = n]
  OBVIOUS
<1>9. /\ IsCall(c) /\ c.entries = e /\ c.paths = ps /\ c.page = n /\ c.at = "files"
      /\ c.op = "Snapshot" /\ c.out = "none"
  BY <1>1, <1>8 DEF IsCall
<1>10. PICK whole : whole = ChangedFilesVerdict(e, client.lastChangedFiles, Len(list) < PerPage)
  OBVIOUS
<1>11. \/ call' = Return(c, "ok") /\ snap' = SnapshotOf(c, whole)
       \/ call' = c /\ snap' = snap /\ ~short
  BY <1>2, <1>3, <1>4, <1>5, <1>6, <1>7, <1>8, <1>9, <1>10 DEF MRChangedFilesPage
<1> DEFINE D == Diff[pr.source]
<1>12. ASSUME ~past.sourceMoved
       PROVE  \E m \in Nat : /\ e = m /\ m <= Served /\ Named(D, m, ps)
                             /\ IF short THEN m = Served ELSE m = (n - 1) * PerPage
  <2>1. PICK k : k = (p - 1) * PerPage
    OBVIOUS
  <2>2. k \in Nat
    BY <2>1, GitHubAssumption
  <2>3. k <= Served /\ call.entries = k /\ Named(D, k, call.paths)
    BY <1>1, <1>2, <1>12, <2>1 DEF Reached
  <2>4. PICK m \in Nat :
           /\ Len(list) = m - k /\ k <= m /\ m <= Served
           /\ IF Len(list) < PerPage THEN m = Served ELSE m = p * PerPage
           /\ Named(D, m, ps)
    BY <1>3, <1>6, <2>1, <2>2, <2>3, PageOfFiles
  <2>5. e = m
    BY <1>5, <2>2, <2>3, <2>4
  <2>6. (n - 1) * PerPage = p * PerPage
    BY <1>7
  <2> QED
    BY <1>4, <2>4, <2>5, <2>6
<1>13. ~past.sourceMoved => Counted
  BY <1>1 DEF Listed, Snapshotting
<1>14. CASE call' = c /\ snap' = snap /\ ~short
  <2>1. Reached'
    <3>1. ASSUME ~past.sourceMoved
          PROVE  /\ (n - 1) * PerPage <= Served /\ e = (n - 1) * PerPage
                 /\ Named(D, (n - 1) * PerPage, ps)
      BY <1>12, <1>14, <3>1
    <3>2. Served' = Served
      BY <1>1 DEF Served
    <3> QED
      BY <1>1, <1>9, <1>14, <3>1, <3>2 DEF Reached
  <2>2. CompleteListsAll'
    BY <1>9, <1>14 DEF CompleteListsAll
  <2>3. ~past'.sourceMoved => Counted'
    BY <1>1, <1>13 DEF Counted
  <2> QED
    BY <1>9, <1>14, <2>1, <2>2, <2>3 DEF Listed, Snapshotting
<1>15. CASE call' = Return(c, "ok") /\ snap' = SnapshotOf(c, whole)
  <2>1. call'.at = "done" /\ call'.op = "Snapshot"
    BY <1>9, <1>15, ReturnFields
  <2>2. snap'.complete = whole /\ snap'.paths = ps
    <3> PICK grade : grade = PinningGrade
      OBVIOUS
    <3>1. snap' = [source |-> c.info.source, target |-> c.info.target, digest |-> c.digest,
                   paths |-> c.paths, complete |-> whole, pinning |-> grade]
      BY <1>15 DEF SnapshotOf
    <3> QED
      BY <1>9, <3>1
  <2>3. ASSUME whole, ~past.sourceMoved PROVE Named(D, Len(D), ps)
    <3>1. /\ short /\ client.lastChangedFiles # -1 /\ client.lastChangedFiles < PullFilesCap
          /\ e = client.lastChangedFiles
      BY <1>4, <1>10, <2>3 DEF ChangedFilesVerdict
    <3>2. e = Len(D)
      BY <1>13, <2>3, <3>1 DEF Counted
    <3> QED
      BY <1>12, <2>3, <3>2
  <2>4. CompleteListsAll'
    <3> SUFFICES ASSUME whole, ~past.sourceMoved, NEW i \in DOMAIN D
                 PROVE  {D[i].filename, D[i].previous} \ {NoPath} \subseteq ps
      BY <1>1, <2>2 DEF CompleteListsAll
    <3>1. DOMAIN D = 1..Len(D)
      BY ServedIsAPrefix
    <3> QED
      BY <2>3, <3>1 DEF Named
  <2> QED
    BY <2>1, <2>4 DEF Listed, Snapshotting
<1> QED
  BY <1>11, <1>14, <1>15

(* Only a snapshot is bound by the invariant.                              *)
LEMMA OtherCallsList ==
    ASSUME Inv', call'.op # "Snapshot"
    PROVE  Listed'
<1>1. call'.at # "files"
  BY DEF Inv, StageOK
<1> QED
  BY <1>1 DEF Listed, Snapshotting, CompleteListsAll

(* A call that ends without a listing claims nothing.                      *)
LEMMA FailedCallsList ==
    ASSUME call'.at = "done", call'.out # "ok"
    PROVE  Listed'
BY DEF Listed, Snapshotting, CompleteListsAll

(* Every step keeps the prefix and the count.                              *)
LEMMA ListedNext ==
    ASSUME Inv, Listed, [Next]_vars
    PROVE  Listed'
<1>0. Inv' /\ IsCall(call)
  BY InvNext DEF Inv, TypeOK
<1>1. CASE ForgeMoves
  <2>1. /\ UNCHANGED <<client, call, snap>>
        /\ ~past'.sourceMoved => ~past.sourceMoved /\ pr'.source = pr.source
    BY <1>1, ForgeFields
  <2>2. (call.at = "files" => Reached')
    BY <2>1 DEF Listed, Reached, Served
  <2> QED
    BY <2>1, <2>2 DEF Listed, Snapshotting, Counted, CompleteListsAll
<1>2. ASSUME NEW op \in PortCalls, Begin(op) PROVE Listed'
  <2>1. CASE op = "Snapshot"
    <3>1. call' = Goto([NoCall EXCEPT !.op = "Snapshot"], "pr")
      BY <1>2, <2>1 DEF Begin
    <3>2. /\ call'.at = "pr" /\ call'.page = 1 /\ call'.entries = 0 /\ call'.out = "none"
      BY <3>1 DEF Goto, NoCall
    <3> QED
      BY <3>2 DEF Listed, Snapshotting, CompleteListsAll
  <2>2. CASE op # "Snapshot"
    BY <1>0, <1>2, <2>2, BeginFields, OtherCallsList
  <2> QED
    BY <2>1, <2>2
<1>3. CASE FreshPR
  <2>1. CASE call.op # "Snapshot"
    BY <1>0, <1>3, <2>1, FreshFields, OtherCallsList
  <2>2. CASE pr.forkGone
    <3>1. call' = Return(call, "err")
      BY <1>3, <2>2 DEF FreshPR, Failed
    <3> QED
      BY <1>0, <3>1, ReturnFields, FailedCallsList DEF Return, NoCall
  <2> QED
    BY <1>3, <2>1, <2>2, FreshListed
<1>4. CASE MergeResultDigest
  <2>1. CASE call.op # "Snapshot"
    BY <1>0, <1>4, <2>1, DigestFields, OtherCallsList
  <2>2. CASE call.op = "Snapshot"
    <3>1. call' = [Goto(call, "files") EXCEPT !.digest = pr.mergeRef] /\ UNCHANGED <<pr, snap, past>>
      BY <1>4, <2>2 DEF MergeResultDigest, WithHeads
    <3>2. pr.mergeRef \in Digests /\ "files" \in Stages /\ call.at = "digest"
      BY <1>4 DEF Inv, TypeOK, PR, Stages, MergeResultDigest, Running
    <3>3. call.page = 1 /\ call.entries = 0 /\ call.out = "none" /\ (~past.sourceMoved => Counted)
      BY <2>2, <3>2 DEF Listed, Snapshotting, Stages
    <3>4. /\ call'.at = "files" /\ call'.op = "Snapshot" /\ call'.out = "none"
          /\ call'.page = 1 /\ call'.entries = 0
      BY <1>0, <2>2, <3>1, <3>2, <3>3, SnapshotFields
    <3>5. client'.lastChangedFiles = client.lastChangedFiles
      BY <1>4 DEF MergeResultDigest, Inv, TypeOK, IsClient
    <3>6. Reached'
      <4>1. PerPage \in Nat
        BY GitHubAssumption
      <4>2. (call'.page - 1) * PerPage = 0
        BY <3>4, <4>1
      <4>3. 0 <= Served'
        BY <3>1, ServedIsAPrefix DEF Served
      <4>4. Named(Diff[pr'.source], 0, call'.paths)
        BY DEF Named
      <4> QED
        BY <3>4, <4>2, <4>3, <4>4 DEF Reached
    <3> QED
      BY <3>1, <3>3, <3>4, <3>5, <3>6 DEF Listed, Snapshotting, Counted, CompleteListsAll
  <2> QED
    BY <2>1, <2>2
<1>5. CASE ContentScopeProbe
  BY <1>0, <1>5, ProbeFields, OtherCallsList DEF Inv, StageOK
<1>6. CASE ContentRead
  <2>1. call.op # "Snapshot" /\ call'.op = call.op
    BY <1>6 DEF ContentRead, Running, Inv, TypeOK, IsCall, StageOK, Return, NoCall
  <2> QED
    BY <1>0, <2>1, OtherCallsList
<1>7. CASE MRChangedFilesPage
  BY <1>7, FilesListed
<1>8. CASE Approve \/ CreateThread
  BY <1>0, <1>8, PostFields, OtherCallsList
<1>9. CASE PutMerge
  BY <1>0, <1>9, PutFields, OtherCallsList
<1>10. CASE RequestFails
  <2>1. call' = Return(call, "err")
    BY <1>10 DEF RequestFails, Failed
  <2> QED
    BY <1>0, <2>1, ReturnFields, FailedCallsList DEF Return, NoCall
<1>11. CASE UNCHANGED vars
  BY <1>11 DEF vars, Listed, Snapshotting, Counted, Reached, Served, CompleteListsAll
<1> QED
  BY <1>1, <1>2, <1>3, <1>4, <1>5, <1>6, <1>7, <1>8, <1>9, <1>10, <1>11 DEF Next

(* A changed-file list declared complete holds both names of every entry   *)
(* of the head the snapshot reports unless a push came between, for every  *)
(* diff, page size, page cap and listing cap (snapshot.go, mrChangedFiles, *)
(* changedFilesVerdict).                                                   *)
THEOREM CompleteListingsAreWhole == Spec => []CompleteListsAll
<1>1. ASSUME Init PROVE Listed
  <2>1. call.op = "none" /\ call.at = "done"
    BY <1>1 DEF Init, NoCall
  <2> QED
    BY <2>1 DEF Listed, Snapshotting, CompleteListsAll
<1>2. Inv /\ Listed /\ [Next]_vars => Listed'
  BY ListedNext
<1>3. Listed => CompleteListsAll
  BY DEF Listed
<1> QED
  BY <1>1, <1>2, <1>3, InvHolds, PTL DEF Spec
==============================================================================
