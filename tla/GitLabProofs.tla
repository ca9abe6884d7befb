---------------------------- MODULE GitLabProofs -----------------------------
(***************************************************************************)
(* What the reads of the GitLab adapter keep for every merge request,      *)
(* every set of approval rules and every order of pushes, approvals and    *)
(* edits between two requests.                                             *)
(***************************************************************************)
EXTENDS GitLabProps, FiniteSetTheorems, FunctionTheorems, WellFoundedInduction, TLAPS

Info == [source : Heads \union {NoSHA}, target : Targets \union {NoSHA}, read : BOOLEAN]
Approval == [user : Users, head : Heads]
Evidence == [approvedBy : SUBSET Approval, eligible : SUBSET Users, required : Nat,
             expired : BOOLEAN]
MR == [source : Heads, target : Targets, approvals : SUBSET Approval, rules : RuleSets,
       threadsBlock : BOOLEAN, trains : BOOLEAN, resetOnPush : BOOLEAN, moves : Nat]
Ops == {"none", "GetMR", "FileAtBase", "FileAtHead", "Snapshot", "Resolve"}
Stages == {"done", "mr", "tip", "file", "diffs", "project", "rules", "approvalState", "user"}

(* A record is typed where its value matters; other fields hold anything.  *)
IsCall(c) == c \in [op : Ops, at : Stages, info : Info, count : {c.count}, page : {c.page},
                    entries : {c.entries}, paths : {c.paths}, overflow : {c.overflow},
                    complete : {c.complete}, caps : {c.caps}, rule : Evidence, out : {c.out}]
IsPast(p) == p \in [first : Info, reads : {p.reads}, pushed : BOOLEAN, calls : {p.calls}]

TypeOK == mr \in MR /\ pin \in Info /\ IsCall(call) /\ IsPast(past)

(* Which call may be at which stage, and that a call at work has no result.*)
StageOK(c) ==
    /\ c.at # "done" => c.out = "none" /\ c.op # "none"
    /\ c.at = "file" => c.op \in {"FileAtBase", "FileAtHead"}
    /\ c.at \in {"diffs", "project"} => c.op = "Snapshot"
    /\ c.at = "rules" => c.op \in {"Snapshot", "Resolve"}
    /\ c.at \in {"approvalState", "user"} => c.op = "Resolve"

Inv == TypeOK /\ StageOK(call)

-----------------------------------------------------------------------------
(* Records.                                                                *)
LEMMA GotoFields ==
    ASSUME NEW c, IsCall(c), NEW s \in Stages
    PROVE  LET d == Goto(c, s)
           IN /\ IsCall(d) /\ d.at = s /\ d.op = c.op /\ d.info = c.info /\ d.rule = c.rule
              /\ d.out = c.out
BY DEF IsCall, Goto

(* A call that returns keeps everything but its stage and its result.      *)
LEMMA ReturnFields ==
    ASSUME NEW c, IsCall(c), NEW out
    PROVE  LET d == Return(c, out)
           IN /\ IsCall(d) /\ d.at = "done" /\ d.op = c.op /\ d.info = c.info /\ d.rule = c.rule
              /\ d.out = out
BY DEF IsCall, Return, Stages

(* A fresh call.                                                           *)
LEMMA BeginFields ==
    ASSUME NEW op \in Ops
    PROVE  LET d == [NoCall EXCEPT !.op = op]
           IN IsCall(d) /\ d.op = op /\ d.out = "none"
BY DEF IsCall, NoCall, NoInfo, NoEvidence, Info, Evidence, Stages

(* A read of the target tip, which completes the heads.                    *)
LEMMA TargetFields ==
    ASSUME NEW c, IsCall(c), NEW info \in Info
    PROVE  LET d == [c EXCEPT !.info = info]
           IN /\ IsCall(d) /\ d.at = c.at /\ d.op = c.op /\ d.out = c.out /\ d.rule = c.rule
              /\ d.info = info
BY DEF IsCall

(* The evidence a call collects.                                           *)
LEMMA RuleFields ==
    ASSUME NEW c, IsCall(c), NEW rule \in Evidence
    PROVE  LET d == [c EXCEPT !.rule = rule]
           IN /\ IsCall(d) /\ d.at = c.at /\ d.op = c.op /\ d.out = c.out /\ d.rule = rule
              /\ d.info = c.info
BY DEF IsCall

(* The least element of a set of naturals is one of them.                  *)
LEMMA MinOf == ASSUME NEW S \in SUBSET Nat, S # {} PROVE Min(S) \in S
<1>1. \E x \in S : \A y \in S : ~(<<y, x>> \in OpToRel(<, Nat))
  BY NatLessThanWellFounded, WFMin
<1>2. \A m, n \in Nat : ~(n < m) => m <= n
  OBVIOUS
<1>3. \E x \in S : \A y \in S : x <= y
  <2> PICK x \in S : \A y \in S : ~(<<y, x>> \in OpToRel(<, Nat))
    BY <1>1
  <2>1. ASSUME NEW y \in S PROVE x <= y
    <3>1. x \in Nat /\ y \in Nat
      OBVIOUS
    <3>2. <<y, x>> \in Nat \X Nat
      BY <3>1
    <3>3. ~(y < x)
      BY <2>1, <3>2 DEF OpToRel
    <3> QED
      BY <1>2, <3>1, <3>3
  <2> QED
    BY <2>1
<1> QED
  BY <1>3 DEF Min

-----------------------------------------------------------------------------
(* Types and stages.                                                       *)
LEMMA InitInv == Init => Inv
<1> SUFFICES ASSUME Init PROVE Inv
  OBVIOUS
<1>1. mr \in MR
  <2>1. mr \in [source : Heads, target : Targets, approvals : {{}}, rules : RuleSets,
                threadsBlock : BOOLEAN, trains : {FALSE}, resetOnPush : BOOLEAN, moves : {0}]
    BY DEF Init
  <2>2. {{}} \subseteq SUBSET Approval /\ {FALSE} \subseteq BOOLEAN /\ {0} \subseteq Nat
    OBVIOUS
  <2> QED
    BY <2>1, <2>2, Zenon DEF MR
<1>2. pin \in Info /\ IsCall(call) /\ IsPast(past)
  BY DEF Init, IsCall, IsPast, NoCall, NoInfo, NoEvidence, Info, Evidence, Ops, Stages
<1>3. StageOK(call)
  BY DEF Init, StageOK, NoCall
<1> QED
  BY <1>1, <1>2, <1>3 DEF Inv, TypeOK

(* One approval for each person, and, where a push resets approvals, all   *)
(* of them of the present head.                                            *)
OnePerUser(rows) == IsFiniteSet(rows) /\ \A a, b \in rows : a.user = b.user => a = b
Current(m) == m.resetOnPush => \A a \in m.approvals : a.head = m.source

(* Others change the merge request; the client is left alone, and a push   *)
(* is in the history.                                                      *)
LEMMA ForgeFields ==
    ASSUME Inv, ForgeMoves
    PROVE  /\ Inv' /\ UNCHANGED <<pin, call>>
           /\ past'.first = past.first /\ past'.reads = past.reads
           /\ mr'.resetOnPush = mr.resetOnPush
           /\ Current(mr) => Current(mr')
           /\ OnePerUser(mr.approvals) => OnePerUser(mr'.approvals)
           /\ ~past'.pushed => ~past.pushed /\ mr'.source = mr.source
<1>1. mr \in MR /\ IsPast(past)
  BY DEF Inv, TypeOK
<1> DEFINE Fits(new) ==
             /\ Move(new) /\ new \in MR /\ IsPast(past')
             /\ past'.first = past.first /\ past'.reads = past.reads
             /\ new.resetOnPush = mr.resetOnPush /\ (Current(mr) => Current(new))
             /\ OnePerUser(mr.approvals) => OnePerUser(new.approvals)
             /\ ~past'.pushed => ~past.pushed /\ new.source = mr.source
<1>2. \E new : Fits(new)
  <2>1. ASSUME NEW h \in Heads, Push(h) PROVE \E new : Fits(new)
    <3> DEFINE left == IF mr.resetOnPush THEN {} ELSE mr.approvals
               new == [mr EXCEPT !.source = h, !.approvals = left]
    <3>1. left \in SUBSET Approval /\ (OnePerUser(mr.approvals) => OnePerUser(left))
      BY <1>1, FS_EmptySet DEF MR, OnePerUser
    <3>2. Move(new) /\ past' = [past EXCEPT !.pushed = TRUE]
      BY <2>1 DEF Push
    <3>3. left = {} \/ ~mr.resetOnPush
      OBVIOUS
    <3> HIDE DEF left
    <3>4. /\ new \in MR /\ new.resetOnPush = mr.resetOnPush /\ new.approvals = left
      BY <1>1, <3>1 DEF MR
    <3> HIDE DEF new
    <3>5. IsPast(past') /\ past'.first = past.first /\ past'.reads = past.reads /\ past'.pushed
      BY <1>1, <3>2 DEF IsPast
    <3>6. Fits(new)
      BY <3>1, <3>2, <3>3, <3>4, <3>5 DEF Current
    <3> QED
      BY <3>6
  <2>2. ASSUME NEW t \in Targets, AdvanceTarget(t) PROVE \E new : Fits(new)
    <3> DEFINE new == [mr EXCEPT !.target = t]
    <3>1. /\ new \in MR /\ new.resetOnPush = mr.resetOnPush /\ new.approvals = mr.approvals
          /\ new.source = mr.source
      BY <1>1 DEF MR
    <3>2. Move(new) /\ past' = past
      BY <2>2 DEF AdvanceTarget
    <3> HIDE DEF new
    <3>3. Fits(new)
      BY <1>1, <3>1, <3>2 DEF Current
    <3> QED
      BY <3>3
  <2>3. ASSUME NEW u \in Users, ApproveMR(u) PROVE \E new : Fits(new)
    <3> DEFINE a == [user |-> u, head |-> mr.source]
               rows == mr.approvals \union {a}
               new == [mr EXCEPT !.approvals = rows]
    <3>1. a \in Approval /\ a.user = u /\ a.head = mr.source
      BY <1>1 DEF Approval, MR
    <3>2. /\ Move(new) /\ past' = past
          /\ \A b \in mr.approvals : b.user # u
      BY <2>3 DEF ApproveMR
    <3> HIDE DEF a
    <3>3. OnePerUser(mr.approvals) => OnePerUser(rows)
      BY <3>1, <3>2, FS_AddElement DEF OnePerUser
    <3>4. rows \in SUBSET Approval
      BY <1>1, <3>1 DEF MR
    <3>5. \A b \in rows : b \in mr.approvals \/ b = a
      OBVIOUS
    <3> HIDE DEF rows
    <3>6. /\ new \in MR /\ new.resetOnPush = mr.resetOnPush /\ new.approvals = rows
          /\ new.source = mr.source
      BY <1>1, <3>4 DEF MR
    <3> HIDE DEF new
    <3>7. Fits(new)
      BY <1>1, <3>1, <3>2, <3>3, <3>5, <3>6 DEF Current
    <3> QED
      BY <3>7
  <2>4. ASSUME NEW r \in RuleSets, EditRules(r) PROVE \E new : Fits(new)
    <3> DEFINE new == [mr EXCEPT !.rules = r]
    <3>1. /\ new \in MR /\ new.resetOnPush = mr.resetOnPush /\ new.approvals = mr.approvals
          /\ new.source = mr.source
      BY <1>1 DEF MR
    <3>2. Move(new) /\ past' = past
      BY <2>4 DEF EditRules
    <3> HIDE DEF new
    <3>3. Fits(new)
      BY <1>1, <3>1, <3>2 DEF Current
    <3> QED
      BY <3>3
  <2> QED
    BY <2>1, <2>2, <2>3, <2>4 DEF ForgeMoves
<1> PICK new : Fits(new)
  BY <1>2
<1>3. UNCHANGED <<pin, call>> /\ mr' = [new EXCEPT !.moves = @ + 1]
  BY DEF Move
<1>4. /\ mr' \in MR /\ mr'.resetOnPush = new.resetOnPush /\ mr'.approvals = new.approvals
      /\ mr'.source = new.source
  BY <1>3 DEF MR
<1>5. Current(new) <=> Current(mr')
  BY <1>4 DEF Current
<1>6. Inv'
  BY <1>3, <1>4 DEF Inv, TypeOK, StageOK, IsCall
<1> QED
  BY <1>3, <1>4, <1>5, <1>6

-----------------------------------------------------------------------------
(* The steps of a call.                                                    *)
LEMMA BeginStep ==
    ASSUME Inv, NEW op \in Ops \ {"none"}, Begin(op)
    PROVE  /\ Inv' /\ call'.op = op /\ call'.out = "none" /\ UNCHANGED <<mr, pin>>
           /\ call'.at \in {"mr", "rules"} \/ (call'.at = "file" /\ pin.read)
           /\ past'.first = past.first /\ past'.reads = past.reads
<1> DEFINE c == [NoCall EXCEPT !.op = op]
           s == CASE op = "Resolve" -> "rules"
                  [] op \in {"FileAtHead", "FileAtBase"} -> MRPinned
                  [] OTHER -> "mr"
<1>1. IsCall(c) /\ c.op = op /\ c.out = "none"
  BY BeginFields
<1>2. /\ s \in Stages /\ (s = "mr" \/ (s = "rules" /\ op = "Resolve")
           \/ (s = "file" /\ pin.read /\ op \in {"FileAtHead", "FileAtBase"}))
  BY DEF MRPinned, Stages, Ops
<1>3. call' = Goto(c, s) /\ UNCHANGED <<mr, pin>>
  BY DEF Begin
<1>4. IsPast(past') /\ past'.first = past.first /\ past'.reads = past.reads
  BY DEF Begin, Inv, TypeOK, IsPast
<1> HIDE DEF c, s
<1>5. IsCall(call') /\ call'.op = op /\ call'.at = s /\ call'.out = "none"
  BY <1>1, <1>2, <1>3, GotoFields
<1>6. Inv'
  BY <1>2, <1>3, <1>4, <1>5 DEF Inv, TypeOK, StageOK
<1> QED
  BY <1>2, <1>3, <1>4, <1>5, <1>6

(* The merge request object is read: its source is the present one.        *)
LEMMA MRStep ==
    ASSUME Inv, GetMRObject
    PROVE  /\ Inv' /\ call'.op = call.op /\ call'.at = "tip" /\ call'.out = "none"
           /\ call'.info.source = mr.source /\ UNCHANGED <<mr, pin>>
           /\ past'.first = past.first /\ past'.reads = past.reads
<1> DEFINE m == IF Len(Diff[mr.source]) <= CountCap THEN Len(Diff[mr.source]) ELSE -1
<1>1. IsCall(call) /\ call.at = "mr" /\ call.out = "none" /\ call.op # "none" /\ mr.source \in Heads
  BY DEF Inv, TypeOK, StageOK, GetMRObject, Running, MR
<1>2. /\ call' = [Goto(call, "tip") EXCEPT !.info.source = mr.source, !.count = m]
      /\ UNCHANGED <<mr, pin>>
  BY DEF GetMRObject
<1> HIDE DEF m
<1>3. IsCall(Goto(call, "tip")) /\ Goto(call, "tip").at = "tip" /\ Goto(call, "tip").op = call.op
      /\ Goto(call, "tip").out = "none"
  BY <1>1, GotoFields DEF Stages
<1>4. /\ IsCall(call') /\ call'.at = "tip" /\ call'.op = call.op /\ call'.out = "none"
      /\ call'.info.source = mr.source
  <2> DEFINE g == Goto(call, "tip")
             i == [g.info EXCEPT !.source = mr.source]
  <2>1. call' = [g EXCEPT !.info = i, !.count = m]
    BY <1>2
  <2>2. IsCall(g) /\ g.at = "tip" /\ g.op = call.op /\ g.out = "none"
    BY <1>3
  <2> HIDE DEF g
  <2>3. i \in Info /\ i.source = mr.source
    BY <1>1, <2>2 DEF IsCall, Info
  <2> HIDE DEF i
  <2> QED
    BY <2>1, <2>2, <2>3 DEF IsCall
<1>5. IsPast(past') /\ past'.first = past.first /\ past'.reads = past.reads
  BY DEF GetMRObject, Inv, TypeOK, IsPast
<1>6. Inv'
  BY <1>1, <1>2, <1>4, <1>5 DEF Inv, TypeOK, StageOK
<1> QED
  BY <1>2, <1>4, <1>5, <1>6

(* The target tip completes the heads, and the first of them are the pin.  *)
LEMMA TipStep ==
    ASSUME Inv, BranchTip
    PROVE  /\ Inv' /\ call.at = "tip" /\ call'.op = call.op /\ UNCHANGED mr
           /\ call'.info.source = call.info.source /\ call'.info.read
           /\ call'.at = "file" => call.op \in {"FileAtBase", "FileAtHead"}
           /\ call'.at = "approvalState" => call.op = "Resolve"
           /\ call'.at \in {"done", "file", "diffs", "approvalState"}
           /\ call'.at = "done" => call'.out = "ok"
           /\ past'.reads = past.reads /\ past'.pushed = past.pushed
           /\ IF call.op \in {"Snapshot", "Resolve"}
              THEN pin' = pin /\ past'.first = past.first
              ELSE /\ pin' = IF pin.read THEN pin ELSE call'.info
                   /\ past'.first = IF past.first.read THEN past.first ELSE call'.info
<1> DEFINE info == [call.info EXCEPT !.target = mr.target, !.read = TRUE]
           c == [call EXCEPT !.info = info]
<1>1. /\ mr \in MR /\ pin \in Info /\ IsCall(call) /\ IsPast(past) /\ call.at = "tip"
      /\ call.out = "none" /\ call.op # "none"
  BY DEF Inv, TypeOK, StageOK, BranchTip, Running
<1>2. info \in Info /\ info.source = call.info.source /\ info.read
  BY <1>1 DEF IsCall, Info, MR
<1>3. /\ call.op = "GetMR" => call' = Return(c, "ok")
      /\ call.op = "Snapshot" => call' = Goto(c, "diffs")
      /\ call.op = "Resolve" => call' = Goto(c, "approvalState")
      /\ call.op \in {"FileAtBase", "FileAtHead"} => call' = Goto(c, "file")
  BY DEF BranchTip, MRWithAuthor, MRHeadsWithAuthor
<1>4. IF call.op \in {"Snapshot", "Resolve"}
      THEN pin' = pin /\ past' = past
      ELSE /\ pin' = IF pin.read THEN pin ELSE info
           /\ past' = [past EXCEPT !.first = IF @.read THEN @ ELSE info]
  BY DEF BranchTip, PinFirst
<1>5. UNCHANGED mr
  BY DEF BranchTip
<1> HIDE DEF info
<1>6. IsCall(c) /\ c.op = call.op /\ c.info = info /\ c.out = "none"
  BY <1>1, <1>2, TargetFields
<1> HIDE DEF c
<1> DEFINE Went(s) == /\ IsCall(call') /\ StageOK(call') /\ call'.op = call.op /\ call'.info = info
                      /\ call'.at = s /\ (s = "done" => call'.out = "ok")
<1>7. /\ call.op = "GetMR" => Went("done")
      /\ call.op = "Snapshot" => Went("diffs")
      /\ call.op = "Resolve" => Went("approvalState")
      /\ call.op \in {"FileAtBase", "FileAtHead"} => Went("file")
  <2>1. ASSUME call.op = "GetMR" PROVE Went("done")
    BY <1>3, <1>6, <2>1, ReturnFields DEF StageOK
  <2>2. ASSUME call.op = "Snapshot" PROVE Went("diffs")
    BY <1>3, <1>6, <2>2, GotoFields DEF StageOK, Stages
  <2>3. ASSUME call.op = "Resolve" PROVE Went("approvalState")
    BY <1>3, <1>6, <2>3, GotoFields DEF StageOK, Stages
  <2>4. ASSUME call.op \in {"FileAtBase", "FileAtHead"} PROVE Went("file")
    BY <1>3, <1>6, <2>4, GotoFields DEF StageOK, Stages
  <2> QED
    BY <2>1, <2>2, <2>3, <2>4
<1>8. pin' \in Info /\ IsPast(past') /\ past'.reads = past.reads /\ past'.pushed = past.pushed
  BY <1>1, <1>2, <1>4 DEF IsPast
<1>9. IF call.op \in {"Snapshot", "Resolve"}
      THEN pin' = pin /\ past'.first = past.first
      ELSE /\ pin' = IF pin.read THEN pin ELSE info
           /\ past'.first = IF past.first.read THEN past.first ELSE info
  BY <1>1, <1>4 DEF IsPast
<1>10. \E s \in {"done", "diffs", "approvalState", "file"} :
         /\ Went(s) /\ (s = "file" => call.op \in {"FileAtBase", "FileAtHead"})
         /\ s = "approvalState" => call.op = "Resolve"
  BY <1>1, <1>7 DEF IsCall, Ops
<1>11. Inv'
  BY <1>1, <1>5, <1>8, <1>10 DEF Inv, TypeOK
<1> QED
  BY <1>1, <1>2, <1>5, <1>8, <1>9, <1>10, <1>11

(* A governed file is read at the pin.                                     *)
LEMMA FileStep ==
    ASSUME Inv, FileAtRef
    PROVE  /\ Inv' /\ call.at = "file" /\ call'.at = "done" /\ call'.out = "ok" /\ UNCHANGED <<mr, pin>>
           /\ past'.first = past.first
           /\ past'.reads = past.reads \union
                 {[op |-> call.op, at |-> IF call.op = "FileAtHead" THEN pin.source ELSE pin.target]}
<1>1. IsCall(call) /\ call.at = "file" /\ IsPast(past)
  BY DEF Inv, TypeOK, FileAtRef, Running
<1>2. call' = Return(call, "ok") /\ UNCHANGED <<mr, pin>>
  BY DEF FileAtRef
<1>3. IsCall(call') /\ call'.at = "done" /\ call'.out = "ok"
  BY <1>1, <1>2, ReturnFields
<1> DEFINE r == [op |-> call.op, at |-> IF call.op = "FileAtHead" THEN pin.source ELSE pin.target]
<1>4. past' = [past EXCEPT !.reads = @ \union {r}]
  BY DEF FileAtRef
<1> HIDE DEF r
<1>5. IsPast(past') /\ past'.first = past.first /\ past'.reads = past.reads \union {r}
  BY <1>1, <1>4 DEF IsPast
<1>6. Inv'
  BY <1>2, <1>3, <1>5 DEF Inv, TypeOK, StageOK
<1> QED
  BY <1>1, <1>2, <1>3, <1>5, <1>6 DEF r

(* Requests that touch neither the pin, nor the heads, nor the evidence.   *)
Plain == \/ MRChangedFilesPage \/ ProbeProject \/ HasApprovalRulesAPI \/ RulesForbidden
         \/ ApprovalStateForbidden \/ RequestFails

(* Where the answer of hasApprovalRulesAPI leads.                          *)
LEMMA WithRulesFields ==
    ASSUME NEW has \in BOOLEAN, IsCall(call), call.op \in {"Snapshot", "Resolve"}, call.out = "none"
    PROVE  LET d == WithRules(has)
           IN /\ IsCall(d) /\ d.op = call.op
              /\ (d.at = "done" /\ d.out \in {"ok", "gap"}) \/ (d.at = "mr" /\ d.out = "none")
<1> DEFINE Good(d) == /\ IsCall(d) /\ d.op = call.op
                      /\ (d.at = "done" /\ d.out \in {"ok", "gap"}) \/ (d.at = "mr" /\ d.out = "none")
<1>1. ASSUME call.op = "Snapshot" PROVE Good(WithRules(has))
  <2> DEFINE caps == [call.caps EXCEPT !.evidence = Probed(has)]
             c == [call EXCEPT !.caps = caps]
  <2>1. WithRules(has) = Return([call EXCEPT !.caps.evidence = Probed(has)], "ok")
    BY <1>1 DEF WithRules
  <2>2. [call EXCEPT !.caps.evidence = Probed(has)] = c
    OBVIOUS
  <2> HIDE DEF caps
  <2>3. IsCall(c) /\ c.op = call.op
    BY DEF IsCall
  <2> HIDE DEF c
  <2> QED
    BY <2>1, <2>2, <2>3, ReturnFields
<1>2. ASSUME call.op = "Resolve", has PROVE Good(WithRules(has))
  <2>1. WithRules(has) = Goto(call, "mr")
    BY <1>2 DEF WithRules
  <2>2. Good(Goto(call, "mr"))
    BY GotoFields DEF Stages
  <2> QED
    BY <2>1, <2>2
<1>3. ASSUME call.op = "Resolve", ~has PROVE Good(WithRules(has))
  <2>1. WithRules(has) = Return(call, "gap")
    BY <1>3 DEF WithRules
  <2>2. Good(Return(call, "gap"))
    BY ReturnFields
  <2> QED
    BY <2>1, <2>2
<1> QED
  BY <1>1, <1>2, <1>3

(* Such a request keeps the types, and leads to no evidence.               *)
LEMMA PlainStep ==
    ASSUME Inv, Plain
    PROVE  /\ Inv' /\ UNCHANGED <<mr, pin, past>> /\ call'.op = call.op
           /\ call'.at \in {"mr", "rules", "diffs", "project", "done"}
           /\ call'.out \in {"none", "ok", "gap", "err"}
<1>1. IsCall(call) /\ call.at # "done" /\ call.out = "none" /\ call.op # "none" /\ StageOK(call)
  BY DEF Inv, TypeOK, StageOK, Plain, MRChangedFilesPage, ProbeProject, HasApprovalRulesAPI,
     RulesForbidden, ApprovalStateForbidden, RequestFails, Running
<1>2. UNCHANGED <<mr, pin, past>>
  BY DEF Plain, ReadOnly, MRChangedFilesPage, ProbeProject, HasApprovalRulesAPI,
     RulesForbidden, ApprovalStateForbidden, RequestFails
<1> DEFINE Good(d) == /\ IsCall(d) /\ StageOK(d) /\ d.op = call.op
                      /\ d.at \in {"mr", "rules", "diffs", "project", "done"}
                      /\ d.out \in {"none", "ok", "gap", "err"}
<1>3. \A out \in {"ok", "gap", "err"} : Good(Return(call, out))
  BY <1>1, ReturnFields DEF StageOK
<1>4. ASSUME call.at = "rules", NEW has \in BOOLEAN PROVE Good(WithRules(has))
  <2>1. call.op \in {"Snapshot", "Resolve"}
    BY <1>1, <1>4 DEF StageOK
  <2>2. /\ IsCall(WithRules(has)) /\ WithRules(has).op = call.op
        /\ \/ WithRules(has).at = "done" /\ WithRules(has).out \in {"ok", "gap"}
           \/ WithRules(has).at = "mr" /\ WithRules(has).out = "none"
    BY <1>1, <2>1, WithRulesFields
  <2> QED
    BY <1>1, <2>2 DEF StageOK
<1>5. ASSUME MRChangedFilesPage PROVE Good(call')
  <2> DEFINE list == Page(Diffs, call.page)
             short == Len(list) < PerPage
             n == call.entries + Len(list)
             paths == call.paths \union PathsOf(list)
             over == call.overflow \/ \E i \in DOMAIN list : list[i].overflow
             next == call.page + 1
             c == [call EXCEPT !.entries = n, !.paths = paths, !.overflow = over, !.page = next]
             whole == NoEnumerationGap(c.entries, c.count, short, c.overflow)
             g == Goto(c, "project")
  <2>1. call.at = "diffs" /\ call.op = "Snapshot"
    BY <1>1, <1>5 DEF MRChangedFilesPage, Running, StageOK
  <2>2. call' = IF short \/ call.page = MaxListPages THEN [g EXCEPT !.complete = whole] ELSE c
    BY <1>5, Zenon DEF MRChangedFilesPage
  <2> HIDE DEF n, paths, over, next, whole
  <2>3. IsCall(c) /\ c.at = "diffs" /\ c.op = "Snapshot" /\ c.out = "none"
    BY <1>1, <2>1 DEF IsCall
  <2> HIDE DEF c, short
  <2>4. IsCall(g) /\ g.at = "project" /\ g.op = "Snapshot" /\ g.out = "none"
    BY <2>3, GotoFields DEF Stages
  <2> HIDE DEF g
  <2>5. LET d == [g EXCEPT !.complete = whole]
        IN IsCall(d) /\ d.at = "project" /\ d.op = "Snapshot" /\ d.out = "none"
    BY <2>4 DEF IsCall
  <2> QED
    BY <2>1, <2>2, <2>3, <2>5 DEF StageOK
<1>6. ASSUME ProbeProject PROVE Good(call')
  <2> DEFINE g == Goto(call, "rules")
             caps == [g.caps EXCEPT !.threadsBlock = Probed(mr.threadsBlock),
                                    !.pinning = Probed(mr.trains)]
  <2>1. call.at = "project" /\ call.op = "Snapshot"
    BY <1>1, <1>6 DEF ProbeProject, Running, StageOK
  <2>2. call' = [g EXCEPT !.caps = caps]
    BY <1>6 DEF ProbeProject
  <2>3. IsCall(g) /\ g.at = "rules" /\ g.op = "Snapshot" /\ g.out = "none"
    BY <1>1, <2>1, GotoFields DEF Stages
  <2> HIDE DEF g, caps
  <2>4. IsCall(call') /\ call'.at = "rules" /\ call'.op = "Snapshot" /\ call'.out = "none"
    BY <2>2, <2>3 DEF IsCall
  <2> QED
    BY <2>1, <2>4 DEF StageOK
<1>7. ASSUME HasApprovalRulesAPI PROVE Good(call')
  <2> DEFINE next == call.page + 1
             c == [call EXCEPT !.page = next]
  <2>1. call.at = "rules"
    BY <1>7 DEF HasApprovalRulesAPI, Running
  <2> HIDE DEF c
  <2> DEFINE rules == Page(mr.rules, call.page)
             some == \E i \in DOMAIN rules : rules[i].required > 0
             many == call.page > 1
             short == Len(rules) < PerPage
  <2>2. call' = IF rules = <<>> THEN WithRules(many)
                ELSE IF some THEN WithRules(TRUE)
                ELSE IF short THEN WithRules(FALSE)
                ELSE IF call.page = MaxListPages THEN Return(call, "err") ELSE c
    BY <1>7 DEF HasApprovalRulesAPI, c
  <2>3. many \in BOOLEAN
    OBVIOUS
  <2> HIDE DEF rules, some, many, short
  <2>4. \/ \E has \in BOOLEAN : call' = WithRules(has)
        \/ call' = Return(call, "err") \/ call' = c
    BY <2>2, <2>3
  <2> HIDE DEF next
  <2>5. Good(c)
    BY <1>1, <2>1 DEF IsCall, StageOK, c
  <2> QED
    BY <1>3, <1>4, <2>1, <2>4, <2>5
<1>8. ASSUME RulesForbidden PROVE Good(call')
  BY <1>4, <1>8 DEF RulesForbidden, Running
<1>9. ASSUME ApprovalStateForbidden PROVE Good(call')
  BY <1>3, <1>9 DEF ApprovalStateForbidden
<1>10. ASSUME RequestFails PROVE Good(call')
  BY <1>3, <1>10 DEF RequestFails
<1>11. Good(call')
  BY <1>5, <1>6, <1>7, <1>8, <1>9, <1>10 DEF Plain
<1>12. Inv'
  BY <1>2, <1>11 DEF Inv, TypeOK
<1> QED
  BY <1>2, <1>11, <1>12

(* The approvals are read, and the pins are compared with the heads.       *)
LEMMA ApprovalStateStep ==
    ASSUME Inv, ApprovalState
    PROVE  /\ Inv' /\ call.at = "approvalState" /\ UNCHANGED <<mr, pin, past>>
           /\ call'.info = call.info /\ call'.op = call.op
           /\ \/ call'.at = "done" /\ call'.out = "gap"
              \/ /\ call'.at = "user" /\ call'.out = "none"
                 /\ call'.rule.approvedBy = mr.approvals
                 /\ call'.rule.expired = PinsStale(call.info)
<1>1. /\ mr \in MR /\ IsCall(call) /\ call.at = "approvalState" /\ call.op = "Resolve"
      /\ call.out = "none" /\ UNCHANGED <<mr, pin, past>>
  BY DEF Inv, TypeOK, StageOK, ApprovalState, Running, ReadOnly
<1>2. CASE Requiring = {}
  <2>1. call' = Return(call, "gap")
    BY <1>2 DEF ApprovalState
  <2>2. /\ IsCall(call') /\ call'.at = "done" /\ call'.op = call.op /\ call'.info = call.info
        /\ call'.out = "gap"
    BY <1>1, <2>1, ReturnFields
  <2>3. Inv'
    BY <1>1, <2>2 DEF Inv, TypeOK, StageOK
  <2> QED
    BY <1>1, <2>2, <2>3
<1>3. CASE Requiring # {}
  <2> DEFINE i == Min(Requiring)
             stale == PinsStale(call.info)
             rule == [approvedBy |-> mr.approvals, eligible |-> mr.rules[i].eligible,
                      required |-> mr.rules[i].required, expired |-> stale]
             g == Goto(call, "user")
  <2>1. call' = [g EXCEPT !.rule = rule]
    BY <1>3 DEF ApprovalState
  <2>2. mr.rules \in Seq([required : Nat, eligible : SUBSET Users])
    BY <1>1, GitLabAssumption DEF MR
  <2>3. i \in DOMAIN mr.rules
    <3>1. Requiring \in SUBSET Nat
      BY <2>2 DEF Requiring
    <3> QED
      BY <1>3, <3>1, MinOf DEF Requiring
  <2> HIDE DEF i
  <2>4. mr.rules[i] \in [required : Nat, eligible : SUBSET Users]
    <3>1. \A S : \A q \in Seq(S) : \A j \in DOMAIN q : q[j] \in S
      OBVIOUS
    <3> QED
      BY <2>2, <2>3, <3>1, Zenon
  <2>5. stale \in BOOLEAN
    BY DEF PinsStale
  <2> HIDE DEF stale
  <2>6. rule \in Evidence /\ rule.approvedBy = mr.approvals /\ rule.expired = stale
    BY <1>1, <2>4, <2>5 DEF Evidence, MR
  <2> HIDE DEF rule
  <2>7. IsCall(g) /\ g.at = "user" /\ g.op = call.op /\ g.info = call.info /\ g.out = "none"
    BY <1>1, GotoFields DEF Stages
  <2> HIDE DEF g
  <2>8. /\ IsCall(call') /\ call'.at = "user" /\ call'.op = call.op /\ call'.info = call.info
        /\ call'.out = "none" /\ call'.rule = rule
    BY <2>1, <2>6, <2>7, RuleFields
  <2>9. Inv'
    BY <1>1, <2>8 DEF Inv, TypeOK, StageOK
  <2> QED
    BY <1>1, <2>6, <2>8, <2>9 DEF stale
<1> QED
  BY <1>2, <1>3

(* The filters: what is left of the approvals is the evidence.             *)
LEMMA UserStep ==
    ASSUME Inv, CurrentUser
    PROVE  /\ Inv' /\ call.at = "user" /\ UNCHANGED <<mr, pin, past>> /\ call'.at = "done"
           /\ call'.op = call.op
           /\ \/ call'.out = "gap"
              \/ /\ call'.out = "evidence" /\ call'.rule.expired = call.rule.expired
                 /\ call'.rule.approvedBy \subseteq call.rule.approvedBy
                 /\ ~(Cardinality(call'.rule.approvedBy) < call'.rule.required)
                 /\ \A a \in call'.rule.approvedBy :
                       a.user \in call'.rule.eligible \ {Author, Bot}
<1>1. /\ IsCall(call) /\ call.at = "user" /\ call.rule \in Evidence /\ UNCHANGED <<mr, pin, past>>
  BY DEF Inv, TypeOK, IsCall, CurrentUser, Running, ReadOnly
<1> DEFINE eligible == FilterEligible(call.rule.eligible)
           approved == FilterApproved(call.rule.approvedBy, eligible)
           rule == [call.rule EXCEPT !.approvedBy = approved, !.eligible = eligible]
           c == [call EXCEPT !.rule = rule]
<1>2. \/ call' = Return(call, "gap")
      \/ call' = Return(c, "evidence") /\ ~(Cardinality(approved) < call.rule.required)
  BY DEF CurrentUser
<1>3. /\ approved \subseteq call.rule.approvedBy /\ eligible \subseteq call.rule.eligible
      /\ \A a \in approved : a.user \in eligible \ {Author, Bot}
  BY DEF FilterEligible, FilterApproved
<1> HIDE DEF approved, eligible
<1>4. /\ rule \in Evidence /\ rule.approvedBy = approved /\ rule.eligible = eligible
      /\ rule.required = call.rule.required /\ rule.expired = call.rule.expired
  BY <1>1, <1>3 DEF Evidence
<1> HIDE DEF rule
<1>5. IsCall(c) /\ c.rule = rule /\ c.op = call.op
  BY <1>1, <1>4, RuleFields
<1> HIDE DEF c
<1>6. /\ IsCall(call') /\ call'.at = "done" /\ call'.op = call.op
      /\ \/ call'.out = "gap"
         \/ /\ call'.out = "evidence" /\ call'.rule = rule
            /\ ~(Cardinality(approved) < call.rule.required)
  BY <1>1, <1>2, <1>5, ReturnFields
<1>7. Inv'
  BY <1>1, <1>6 DEF Inv, TypeOK, StageOK
<1> QED
  BY <1>1, <1>3, <1>4, <1>6, <1>7

(* The steps of Next, grouped.                                             *)
LEMMA NextSplit ==
    Next <=> \/ ForgeMoves \/ \E op \in Ops \ {"none"} : Begin(op)
             \/ GetMRObject \/ BranchTip \/ FileAtRef \/ Plain \/ ApprovalState \/ CurrentUser
<1>1. Ops \ {"none"} = {"GetMR", "FileAtBase", "FileAtHead", "Snapshot", "Resolve"}
  BY DEF Ops
<1> QED
  BY <1>1 DEF Next, Plain

(* Every step keeps types and stages.                                      *)
LEMMA InvNext == Inv /\ [Next]_vars => Inv'
<1> SUFFICES ASSUME Inv, [Next]_vars PROVE Inv'
  OBVIOUS
<1>1. ASSUME UNCHANGED vars PROVE Inv'
  BY <1>1 DEF vars, Inv, TypeOK, IsCall, IsPast, StageOK
<1>2. ASSUME NEW op \in Ops \ {"none"}, Begin(op) PROVE Inv'
  BY <1>2, BeginStep
<1> QED
  BY <1>1, <1>2, NextSplit, ForgeFields, MRStep, TipStep, FileStep, PlainStep,
     ApprovalStateStep, UserStep

-----------------------------------------------------------------------------
(* The pin is what the first GetMR reported, and a governed read has one.  *)
Follow ==
    /\ pin = past.first
    /\ call.at = "file" => pin.read
    /\ past.reads # {} => pin.read
    /\ ReadsFollowThePin

(* Every step keeps the reads at the pin.                                  *)
LEMMA FollowNext == ASSUME Inv, Follow, Next PROVE Follow'
<1>0. IsCall(call) /\ IsPast(past) /\ pin \in Info
  BY DEF Inv, TypeOK
<1>1. ASSUME ForgeMoves PROVE Follow'
  BY <1>1, ForgeFields DEF Follow, ReadsFollowThePin
<1>2. ASSUME NEW op \in Ops \ {"none"}, Begin(op) PROVE Follow'
  BY <1>2, BeginStep DEF Follow, ReadsFollowThePin
<1>3. ASSUME GetMRObject PROVE Follow'
  BY <1>3, MRStep DEF Follow, ReadsFollowThePin
<1>4. ASSUME BranchTip PROVE Follow'
  <2>1. /\ pin' = past'.first /\ (pin.read => pin' = pin) /\ past'.reads = past.reads
        /\ call'.at = "file" => pin'.read
    BY <1>4, TipStep DEF Follow
  <2> QED
    BY <2>1 DEF Follow, ReadsFollowThePin
<1>5. ASSUME FileAtRef PROVE Follow'
  BY <1>5, FileStep DEF Follow, ReadsFollowThePin
<1>6. ASSUME Plain PROVE Follow'
  BY <1>6, PlainStep DEF Follow, ReadsFollowThePin
<1>7. ASSUME ApprovalState PROVE Follow'
  BY <1>7, ApprovalStateStep DEF Follow, ReadsFollowThePin
<1>8. ASSUME CurrentUser PROVE Follow'
  BY <1>8, UserStep DEF Follow, ReadsFollowThePin
<1> QED
  BY <1>1, <1>2, <1>3, <1>4, <1>5, <1>6, <1>7, <1>8, NextSplit

(* Every file a process governs by is read at the heads its first GetMR    *)
(* reported, however often the merge request is read again and whatever is *)
(* pushed in between (mrPinned, rememberPin).                              *)
THEOREM ReadsFollowPin == Spec => []ReadsFollowThePin
<1>1. Init => Inv /\ Follow
  <2>1. Init => Follow
    BY DEF Init, Follow, ReadsFollowThePin, NoCall
  <2> QED
    BY <2>1, InitInv
<1>2. Inv /\ Follow /\ [Next]_vars => (Inv /\ Follow)'
  <2>1. ASSUME Inv, Follow, UNCHANGED vars PROVE Follow'
    BY <2>1 DEF vars, Follow, ReadsFollowThePin
  <2> QED
    BY <2>1, InvNext, FollowNext
<1>3. Inv /\ Follow => ReadsFollowThePin
  BY DEF Follow
<1> QED
  BY <1>1, <1>2, <1>3, PTL DEF Spec

-----------------------------------------------------------------------------
(* As many people as approvals, when nobody approves twice.                *)
LEMMA PeopleCount ==
    ASSUME NEW rows, OnePerUser(rows)
    PROVE  Cardinality({a.user : a \in rows}) = Cardinality(rows)
<1> DEFINE people == {a.user : a \in rows}
           f == [a \in rows |-> a.user]
<1>1. f \in [rows -> people] /\ \A a \in rows : f[a] = a.user
  OBVIOUS
<1>2. \A u \in people : \E a \in rows : f[a] = u
  BY <1>1
<1>3. \A a, b \in rows : f[a] = f[b] => a = b
  BY <1>1 DEF OnePerUser
<1> HIDE DEF f, people
<1>4. f \in Bijection(rows, people)
  BY <1>1, <1>2, <1>3 DEF Bijection, Injection, IsInjective, Surjection
<1>5. ExistsBijection(rows, people)
  BY <1>4 DEF ExistsBijection
<1>6. Cardinality(people) = Cardinality(rows)
  BY <1>5, FS_Bijection DEF OnePerUser
<1> QED
  BY <1>6 DEF people

(* Heads read since the last known push are the present ones; rows read    *)
(* for the present heads approve them; evidence is what is claimed of it.  *)
Reading(c) == c.at \in {"tip", "approvalState", "user"}
RowsFor(rows, head) == mr.resetOnPush => \A a \in rows : a.head = head
Evid ==
    /\ OnePerUser(mr.approvals) /\ Current(mr)
    /\ Reading(call) /\ ~past.pushed => call.info.source = mr.source
    /\ call.at = "user" =>
          /\ OnePerUser(call.rule.approvedBy)
          /\ ~past.pushed => RowsFor(call.rule.approvedBy, call.info.source)
          /\ ~call.rule.expired => call.info.source = pin.source
    /\ EvidenceIsForThePins

(* Every step keeps what evidence is made of.                              *)
LEMMA EvidNext == ASSUME Inv, Evid, Next PROVE Evid'
<1>0. IsCall(call) /\ pin \in Info /\ StageOK(call) /\ mr \in MR
  BY DEF Inv, TypeOK
<1>1. ASSUME ForgeMoves PROVE Evid'
  BY <1>1, ForgeFields DEF Evid, EvidenceIsForThePins, Reading, RowsFor
<1>2. ASSUME NEW op \in Ops \ {"none"}, Begin(op) PROVE Evid'
  BY <1>2, BeginStep DEF Evid, EvidenceIsForThePins, Reading, Current
<1>3. ASSUME GetMRObject PROVE Evid'
  BY <1>3, MRStep DEF Evid, EvidenceIsForThePins, Reading, Current
<1>4. ASSUME BranchTip PROVE Evid'
  <2>1. /\ call.at = "tip" /\ UNCHANGED mr /\ call'.info.source = call.info.source
        /\ past'.pushed = past.pushed /\ call'.at # "user"
        /\ Inv' /\ (call'.at = "done" => call'.out = "ok")
    BY <1>4, TipStep
  <2>2. call'.out # "evidence"
    BY <2>1 DEF Inv, StageOK
  <2> QED
    BY <2>1, <2>2 DEF Evid, EvidenceIsForThePins, Reading, Current
<1>5. ASSUME FileAtRef PROVE Evid'
  BY <1>5, FileStep DEF Evid, EvidenceIsForThePins, Reading, Current
<1>6. ASSUME Plain PROVE Evid'
  BY <1>6, PlainStep DEF Evid, EvidenceIsForThePins, Reading, Current
<1>7. ASSUME ApprovalState PROVE Evid'
  <2>1. /\ Inv' /\ call.at = "approvalState" /\ UNCHANGED <<mr, pin, past>>
        /\ call'.info = call.info /\ call'.out # "evidence"
        /\ call'.at = "user" => /\ call'.rule.approvedBy = mr.approvals
                                /\ call'.rule.expired = PinsStale(call.info)
        /\ call'.at \in {"done", "user"}
    BY <1>7, ApprovalStateStep
  <2>2. ~past.pushed => call.info.source = mr.source
    BY <2>1 DEF Evid, Reading
  <2>3. ~past.pushed => RowsFor(mr.approvals, call.info.source)
    BY <2>2 DEF Evid, Current, RowsFor
  <2>4. ~PinsStale(call.info) => call.info.source = pin.source
    BY DEF PinsStale
  <2> QED
    BY <2>1, <2>2, <2>3, <2>4 DEF Evid, EvidenceIsForThePins, Reading, Current, RowsFor
<1>8. ASSUME CurrentUser PROVE Evid'
  <2>1. /\ Inv' /\ call.at = "user" /\ UNCHANGED <<mr, pin, past>> /\ call'.at = "done"
        /\ call'.out = "evidence" =>
              /\ call'.rule.expired = call.rule.expired
              /\ call'.rule.approvedBy \subseteq call.rule.approvedBy
              /\ ~(Cardinality(call'.rule.approvedBy) < call'.rule.required)
              /\ \A a \in call'.rule.approvedBy :
                    a.user \in call'.rule.eligible \ {Author, Bot}
    BY <1>8, UserStep
  <2>2. /\ OnePerUser(call.rule.approvedBy)
        /\ ~past.pushed => RowsFor(call.rule.approvedBy, call.info.source)
        /\ ~call.rule.expired => call.info.source = pin.source
    BY <2>1 DEF Evid
  <2>3. ASSUME call'.out = "evidence", ~call'.rule.expired
        PROVE  EvidenceIsForThePins'
    <3> DEFINE rows == call'.rule.approvedBy
    <3>1. OnePerUser(rows)
      BY <2>1, <2>2, <2>3, FS_Subset DEF OnePerUser
    <3>2. Cardinality(rows) \in Nat /\ call'.rule.required \in Nat
      BY <2>1, <3>1, FS_CardinalityType DEF OnePerUser, Inv, TypeOK, IsCall, Evidence
    <3>3. Cardinality({a.user : a \in rows}) >= call'.rule.required
      BY <2>1, <2>3, <3>1, <3>2, PeopleCount
    <3>4. \A a \in rows : (mr.resetOnPush /\ ~past.pushed) => a.head = pin.source
      BY <2>1, <2>2, <2>3 DEF RowsFor
    <3> QED
      BY <2>1, <3>3, <3>4 DEF EvidenceIsForThePins
  <2>4. EvidenceIsForThePins'
    BY <2>3 DEF EvidenceIsForThePins
  <2> QED
    BY <2>1, <2>4 DEF Evid, Reading, Current
<1> QED
  BY <1>1, <1>2, <1>3, <1>4, <1>5, <1>6, <1>7, <1>8, NextSplit

(* Approvals become live evidence only for the pinned heads: enough people,*)
(* none of them the author or the bot, each counted once, and, where pushes*)
(* reset approvals and none came between the reads, each for the pinned    *)
(* source (Resolve, pinsStale, filterEligible, filterApproved).            *)
THEOREM EvidenceIsSound == Spec => []EvidenceIsForThePins
<1>1. Init => Inv /\ Evid
  <2>1. ASSUME Init PROVE Evid
    <3>1. mr.approvals = {} /\ call = NoCall
      BY <2>1 DEF Init
    <3> QED
      BY <3>1, FS_EmptySet
      DEF Evid, EvidenceIsForThePins, Reading, OnePerUser, Current, NoCall
  <2> QED
    BY <2>1, InitInv
<1>2. Inv /\ Evid /\ [Next]_vars => (Inv /\ Evid)'
  <2>1. ASSUME Inv, Evid, UNCHANGED vars PROVE Evid'
    BY <2>1 DEF vars, Evid, EvidenceIsForThePins, Reading, RowsFor, Current
  <2> QED
    BY <2>1, InvNext, EvidNext
<1>3. Inv /\ Evid => EvidenceIsForThePins
  BY DEF Evid
<1> QED
  BY <1>1, <1>2, <1>3, PTL DEF Spec

-----------------------------------------------------------------------------
(* The changed files.  While the source stands still, the pages read so    *)
(* far are a prefix of what the instance serves of its diff.               *)
Named(list, k, paths) == \A i \in 1..k : {list[i].old, list[i].new} \subseteq paths
Reached ==
    /\ call.page \in Nat \ {0}
    /\ ~past.pushed => /\ (call.page - 1) * PerPage <= Len(Diffs)
                       /\ call.entries = (call.page - 1) * PerPage
                       /\ Named(Diffs, (call.page - 1) * PerPage, call.paths)

AllNamed == Named(Diff[mr.source], Len(Diff[mr.source]), call.paths)
Counted == call.count \in {-1, Len(Diff[mr.source])}
Snapshotting(stages) == call.op = "Snapshot" /\ call.at \in stages
Enumerated ==
    /\ Snapshotting({"mr", "tip"}) => call.page = 1 /\ call.entries = 0
    /\ (Snapshotting({"tip", "diffs"}) /\ ~past.pushed) => Counted
    /\ call.at = "diffs" => Reached
    /\ (Snapshotting({"project", "rules"}) /\ call.complete /\ ~past.pushed) => AllNamed
    /\ EnumerationIsWhole

(* The smaller of two numbers.                                             *)
LEMMA MinOfTwo ==
    ASSUME NEW a \in Nat, NEW b \in Nat
    PROVE  /\ Min({a, b}) \in {a, b} /\ Min({a, b}) <= a /\ Min({a, b}) <= b
<1>1. \E x \in {a, b} : \A y \in {a, b} : x =< y
  <2>1. CASE a <= b
    BY <2>1
  <2>2. CASE b <= a
    BY <2>2
  <2> QED
    BY <2>1, <2>2
<1> QED
  BY <1>1 DEF Min

(* A sequence and a part of it.                                            *)
LEMMA PartOfListing ==
    ASSUME NEW T, NEW D \in Seq(T), NEW k \in Nat, NEW m \in Nat, k <= m, m <= Len(D)
    PROVE  /\ Len(SubSeq(D, k + 1, m)) = m - k
           /\ \A j \in 1..(m - k) : SubSeq(D, k + 1, m)[j] = D[k + j]
           /\ DOMAIN SubSeq(D, k + 1, m) = 1..(m - k)
           /\ SubSeq(D, k + 1, m) \in Seq(T)
OBVIOUS

(* A prefix of a sequence.                                                 *)
LEMMA PrefixOfListing ==
    ASSUME NEW T, NEW D \in Seq(T), NEW m \in Nat, m <= Len(D)
    PROVE  /\ Len(SubSeq(D, 1, m)) = m /\ SubSeq(D, 1, m) \in Seq(T)
           /\ \A i \in 1..m : SubSeq(D, 1, m)[i] = D[i]
OBVIOUS

(* A list of entries names those of each.                                  *)
LEMMA NamesOfAnEntry ==
    ASSUME NEW list, NEW j \in DOMAIN list
    PROVE  {list[j].old, list[j].new} \subseteq PathsOf(list)
<1> SUFFICES ASSUME NEW x \in {list[j].old, list[j].new} PROVE x \in PathsOf(list)
  OBVIOUS
<1>1. \E i \in DOMAIN list : x \in {list[i].old, list[i].new}
  OBVIOUS
<1> QED
  BY <1>1 DEF PathsOf

(* A part that begins where the named entries end names those after them. *)
LEMMA PartNames ==
    ASSUME NEW T, NEW D \in Seq(T), NEW k \in Nat, NEW m \in Nat, k <= m, m <= Len(D),
           NEW paths, Named(D, k, paths)
    PROVE  Named(D, m, paths \union PathsOf(SubSeq(D, k + 1, m)))
<1> SUFFICES ASSUME NEW i \in 1..m
             PROVE  {D[i].old, D[i].new} \subseteq paths \union PathsOf(SubSeq(D, k + 1, m))
  BY DEF Named
<1>1. CASE i <= k
  <2>1. i \in 1..k
    BY <1>1
  <2> QED
    BY <2>1 DEF Named
<1>2. CASE k < i
  <2>1. i - k \in 1..(m - k) /\ k + (i - k) = i
    BY <1>2
  <2>2. PICK j \in 1..(m - k) : k + j = i
    BY <2>1
  <2>3. j \in DOMAIN SubSeq(D, k + 1, m) /\ SubSeq(D, k + 1, m)[j] = D[i]
    BY <2>2, PartOfListing
  <2>4. {SubSeq(D, k + 1, m)[j].old, SubSeq(D, k + 1, m)[j].new}
           \subseteq PathsOf(SubSeq(D, k + 1, m))
    BY <2>3, NamesOfAnEntry
  <2> QED
    BY <2>3, <2>4
<1> QED
  BY <1>1, <1>2

(* The instance serves a prefix of the diff.                               *)
LEMMA DiffsArePrefix ==
    ASSUME Inv
    PROVE  \E T : /\ Diff[mr.source] \in Seq(T) /\ Diffs \in Seq(T)
                  /\ Len(Diffs) <= Len(Diff[mr.source])
                  /\ \A i \in 1..Len(Diffs) : Diffs[i] = Diff[mr.source][i]
<1>1. mr.source \in Heads
  BY DEF Inv, TypeOK, MR
<1>2. PICK T : Diff[mr.source] \in Seq(T)
  BY <1>1, GitLabAssumption
<1> PICK D \in Seq(T) : D = Diff[mr.source]
  BY <1>2
<1>3. PICK n \in Nat : n = Len(D)
  OBVIOUS
<1>4. DiffLimit \in Nat
  BY GitLabAssumption
<1>5. PICK m \in Nat : m = Min({DiffLimit, n}) /\ m <= n
  <2>1. Min({DiffLimit, n}) \in {DiffLimit, n} /\ Min({DiffLimit, n}) <= n
    BY <1>4, MinOfTwo
  <2> QED
    BY <1>4, <2>1
<1>6. Diffs = SubSeq(D, 1, m)
  BY <1>3, <1>5 DEF Diffs
<1>7. /\ Len(SubSeq(D, 1, m)) = m /\ SubSeq(D, 1, m) \in Seq(T)
      /\ \A i \in 1..m : SubSeq(D, 1, m)[i] = D[i]
  <2>1. m <= Len(D)
    BY <1>3, <1>5
  <2>2. Len(SubSeq(D, 1, m)) = m /\ SubSeq(D, 1, m) \in Seq(T)
    BY <2>1, PrefixOfListing
  <2>3. ASSUME NEW i \in 1..m PROVE SubSeq(D, 1, m)[i] = D[i]
    BY <2>1, PrefixOfListing
  <2> QED
    BY <2>2, <2>3
<1> QED
  BY <1>3, <1>5, <1>6, <1>7

(* A page goes on where the pages before it stopped.                       *)
LEMMA PageContinues ==
    ASSUME NEW T, NEW D \in Seq(T), NEW p \in Nat \ {0}, NEW k \in Nat, k = (p - 1) * PerPage,
           k <= Len(D), NEW paths, Named(D, k, paths)
    PROVE  \E m \in Nat :
              /\ Len(Page(D, p)) = m - k /\ k <= m /\ m <= Len(D)
              /\ ~(Len(Page(D, p)) < PerPage) => m = p * PerPage
              /\ Named(D, m, paths \union PathsOf(Page(D, p)))
<1>1. PerPage \in Nat \ {0} /\ p * PerPage = k + PerPage /\ p * PerPage \in Nat
  BY GitLabAssumption
<1>2. PICK n \in Nat : n = Len(D)
  OBVIOUS
<1>3. CASE k >= n
  <2>1. Page(D, p) = << >> /\ k = n
    BY <1>2, <1>3 DEF Page
  <2>2. Named(D, k, paths \union PathsOf(Page(D, p)))
    BY DEF Named
  <2>3. Len(Page(D, p)) = 0 /\ Len(Page(D, p)) = k - k
    BY <2>1
  <2>4. Len(Page(D, p)) < PerPage
    BY <1>1, <2>3
  <2> QED
    BY <2>2, <2>3, <2>4
<1>4. CASE ~(k >= n)
  <2>1. PICK q \in Nat : q = p * PerPage
    BY <1>1
  <2>2. PICK m \in {q, n} : m = Min({q, n}) /\ m <= q /\ m <= n
    <3>1. Min({q, n}) \in {q, n} /\ Min({q, n}) <= q /\ Min({q, n}) <= n
      BY MinOfTwo
    <3> QED
      BY <3>1
  <2>3. Page(D, p) = SubSeq(D, k + 1, m)
    BY <1>2, <1>4, <2>1, <2>2 DEF Page
  <2>4. m \in Nat /\ k <= m /\ m <= Len(D)
    BY <1>1, <1>2, <1>4, <2>1, <2>2
  <2>5. Len(SubSeq(D, k + 1, m)) = m - k
    BY <2>4, PartOfListing
  <2>6. Named(D, m, paths \union PathsOf(SubSeq(D, k + 1, m)))
    BY <2>4, PartNames
  <2>7. ~(Len(SubSeq(D, k + 1, m)) < PerPage) => m = p * PerPage
    BY <1>1, <2>1, <2>2, <2>4, <2>5
  <2> QED
    BY <2>3, <2>4, <2>5, <2>6, <2>7
<1> QED
  BY <1>2, <1>3, <1>4

(* What a step keeps of an enumeration.                                    *)
SameList(d, c) == d.count = c.count /\ d.entries = c.entries /\ d.paths = c.paths /\ d.complete = c.complete

(* Going on and returning keep it.                                         *)
LEMMA ListKept ==
    ASSUME NEW c, IsCall(c), NEW s, NEW out, NEW caps, NEW info, NEW n
    PROVE  /\ SameList(Goto(c, s), c) /\ Goto(c, s).page = 1
           /\ SameList(Return(c, out), c)
           /\ SameList([c EXCEPT !.caps = caps], c)
           /\ SameList([c EXCEPT !.info = info], c)
           /\ SameList([c EXCEPT !.page = n], c)
BY DEF IsCall, SameList, Goto, Return

(* Only a snapshot is bound by the invariant.                              *)
LEMMA OthersEnumerate ==
    ASSUME Inv', call'.op # "Snapshot"
    PROVE  Enumerated'
<1>1. call'.at # "diffs"
  BY DEF Inv, StageOK
<1> QED
  BY <1>1 DEF Enumerated, Snapshotting, EnumerationIsWhole

(* A call that ends without a result claims nothing.                       *)
LEMMA FailuresEnumerate ==
    ASSUME call'.at = "done", call'.out # "ok"
    PROVE  Enumerated'
BY DEF Enumerated, Snapshotting, EnumerationIsWhole

(* The merge request is read with the count of its changes.                *)
LEMMA MREnumerates ==
    ASSUME Inv, Enumerated, GetMRObject, call.op = "Snapshot"
    PROVE  Enumerated'
<1>1. /\ Inv' /\ call'.op = "Snapshot" /\ call'.at = "tip" /\ call'.out = "none" /\ UNCHANGED mr
      /\ IsCall(call) /\ call.at = "mr"
  BY MRStep DEF Inv, TypeOK, GetMRObject, Running
<1>2. call.page = 1 /\ call.entries = 0
  BY <1>1 DEF Enumerated, Snapshotting
<1>3. PICK m : m = IF Len(Diff[mr.source]) <= CountCap THEN Len(Diff[mr.source]) ELSE -1
  OBVIOUS
<1>4. m \in {-1, Len(Diff[mr.source])}
  BY <1>3
<1>5. PICK g : g = Goto(call, "tip")
  OBVIOUS
<1>6. PICK i : i = [g.info EXCEPT !.source = mr.source]
  OBVIOUS
<1>7. call' = [g EXCEPT !.info = i, !.count = m]
  BY <1>3, <1>5, <1>6 DEF GetMRObject
<1>8. IsCall(g) /\ g.entries = 0 /\ g.page = 1
  BY <1>1, <1>2, <1>5, GotoFields, ListKept DEF SameList, Stages
<1>9. call'.count = m /\ call'.page = 1 /\ call'.entries = 0
  BY <1>7, <1>8 DEF IsCall
<1> QED
  BY <1>1, <1>4, <1>9 DEF Enumerated, Snapshotting, Counted, EnumerationIsWhole

(* The enumeration begins with nothing read.                               *)
LEMMA TipEnumerates ==
    ASSUME Inv, Enumerated, BranchTip, call.op = "Snapshot"
    PROVE  Enumerated'
<1>1. /\ Inv' /\ call'.op = "Snapshot" /\ call.at = "tip" /\ UNCHANGED mr /\ past'.pushed = past.pushed
      /\ IsCall(call) /\ call.out = "none"
  BY TipStep DEF Inv, TypeOK, StageOK
<1>2. call.entries = 0 /\ (~past.pushed => Counted)
  BY <1>1 DEF Enumerated, Snapshotting
<1>3. PICK info \in Info : info = [call.info EXCEPT !.target = mr.target, !.read = TRUE]
  <2>1. [call.info EXCEPT !.target = mr.target, !.read = TRUE] \in Info
    BY <1>1 DEF IsCall, Info, Inv, TypeOK, MR
  <2> QED
    BY <2>1
<1>4. PICK c : c = [call EXCEPT !.info = info]
  OBVIOUS
<1>5. call' = Goto(c, "diffs")
  BY <1>3, <1>4 DEF BranchTip, MRWithAuthor
<1>6. IsCall(c) /\ SameList(c, call) /\ c.out = "none"
  BY <1>1, <1>4, TargetFields, ListKept
<1>7. SameList(call', c) /\ call'.page = 1 /\ call'.at = "diffs" /\ call'.out = "none"
  <2>1. call'.at = "diffs" /\ call'.out = "none"
    BY <1>5, <1>6, GotoFields DEF Stages
  <2>2. SameList(call', c) /\ call'.page = 1
    BY <1>5, <1>6, ListKept
  <2> QED
    BY <2>1, <2>2
<1>8. call'.entries = 0 /\ call'.count = call.count
  BY <1>2, <1>6, <1>7 DEF SameList
<1>9. Reached'
  <2>1. PerPage \in Nat
    BY GitLabAssumption
  <2>2. (call'.page - 1) * PerPage = 0
    BY <1>7, <2>1
  <2>3. Diffs' = Diffs
    BY <1>1 DEF Diffs
  <2>4. 0 <= Len(Diffs)
    <3>1. PICK T : Diffs \in Seq(T)
      BY DiffsArePrefix
    <3> PICK D \in Seq(T) : D = Diffs
      BY <3>1
    <3>2. 0 <= Len(D)
      OBVIOUS
    <3> QED
      BY <3>2
  <2>5. Named(Diffs', 0, call'.paths)
    BY DEF Named
  <2> QED
    BY <1>7, <1>8, <2>2, <2>3, <2>4, <2>5 DEF Reached
<1>10. ~past'.pushed => Counted'
  BY <1>1, <1>2, <1>8 DEF Counted
<1> QED
  BY <1>7, <1>9, <1>10 DEF Enumerated, Snapshotting, EnumerationIsWhole

(* A page of the diffs; the enumeration is declared complete only with     *)
(* every entry of the head named.                                          *)
LEMMA PageEnumerates ==
    ASSUME Inv, Enumerated, MRChangedFilesPage
    PROVE  Enumerated'
<1>1. /\ Inv' /\ UNCHANGED <<mr, pin, past>> /\ IsCall(call) /\ call.at = "diffs"
      /\ call.op = "Snapshot" /\ call.out = "none" /\ Reached /\ (~past.pushed => Counted)
  BY PlainStep DEF Plain, Inv, TypeOK, StageOK, MRChangedFilesPage, Running, Enumerated, Snapshotting
<1>2. PICK p \in Nat \ {0} : p = call.page
  BY <1>1 DEF Reached
<1> DEFINE list == Page(Diffs, call.page)
           short == Len(list) < PerPage
           e == call.entries + Len(list)
           ps == call.paths \union PathsOf(list)
           over == call.overflow \/ \E i \in DOMAIN list : list[i].overflow
           n == call.page + 1
           c == [call EXCEPT !.entries = e, !.paths = ps, !.overflow = over, !.page = n]
           whole == NoEnumerationGap(c.entries, c.count, short, c.overflow)
<1>3. call' = IF short \/ call.page = MaxListPages
              THEN [Goto(c, "project") EXCEPT !.complete = whole] ELSE c
  BY Zenon DEF MRChangedFilesPage
<1>4. list = Page(Diffs, p) /\ (short <=> Len(list) < PerPage)
  BY <1>2
<1>5. e = call.entries + Len(list)
  OBVIOUS
<1>6. ps = call.paths \union PathsOf(list)
  OBVIOUS
<1>7. n \in Nat \ {0} /\ n = p + 1
  BY <1>2
<1>8. whole = NoEnumerationGap(c.entries, c.count, short, c.overflow)
  OBVIOUS
<1> HIDE DEF list, short, e, ps, n, over, whole
<1>10. /\ IsCall(c) /\ c.entries = e /\ c.paths = ps /\ c.page = n /\ c.at = "diffs"
       /\ c.op = "Snapshot" /\ c.out = "none" /\ c.count = call.count /\ c.overflow = over
  BY <1>1 DEF IsCall
<1> HIDE DEF c
<1>11. whole => call.count # -1 /\ call.count = e
  BY <1>8, <1>10 DEF NoEnumerationGap
<1>12. \/ call' = [Goto(c, "project") EXCEPT !.complete = whole]
       \/ call' = c /\ ~short
  BY <1>3
<1>13. ASSUME ~past.pushed
       PROVE  \E m \in Nat : /\ e = m /\ m <= Len(Diffs) /\ Named(Diffs, m, ps)
                             /\ ~short => m = (n - 1) * PerPage
  <2>1. PICK k : k = (p - 1) * PerPage
    OBVIOUS
  <2>2. k \in Nat
    BY <2>1, GitLabAssumption
  <2>3. k <= Len(Diffs) /\ call.entries = k /\ Named(Diffs, k, call.paths)
    BY <1>1, <1>2, <1>13, <2>1 DEF Reached
  <2>4. PICK T : Diffs \in Seq(T)
    BY DiffsArePrefix
  <2>5. PICK m \in Nat :
           /\ Len(list) = m - k /\ k <= m /\ m <= Len(Diffs)
           /\ ~(Len(list) < PerPage) => m = p * PerPage
           /\ Named(Diffs, m, ps)
    BY <1>4, <1>6, <2>1, <2>2, <2>3, <2>4, PageContinues
  <2>6. e = m
    BY <1>5, <2>2, <2>3, <2>5
  <2>7. (n - 1) * PerPage = p * PerPage
    BY <1>7
  <2> QED
    BY <1>4, <2>5, <2>6, <2>7
<1>14. Diffs' = Diffs
  BY <1>1 DEF Diffs
<1>15. CASE call' = c /\ ~short
  <2>1. Reached'
    <3>1. ASSUME ~past.pushed
          PROVE  /\ (n - 1) * PerPage <= Len(Diffs) /\ e = (n - 1) * PerPage
                 /\ Named(Diffs, (n - 1) * PerPage, ps)
      BY <1>13, <1>15, <3>1
    <3> QED
      BY <1>1, <1>7, <1>10, <1>14, <1>15, <3>1 DEF Reached
  <2>2. ~past'.pushed => Counted'
    BY <1>1, <1>10, <1>15 DEF Counted
  <2> QED
    BY <1>10, <1>15, <2>1, <2>2 DEF Enumerated, Snapshotting, EnumerationIsWhole
<1>16. CASE call' = [Goto(c, "project") EXCEPT !.complete = whole]
  <2>1. PICK g : g = Goto(c, "project")
    OBVIOUS
  <2>2. IsCall(g) /\ g.at = "project" /\ g.op = "Snapshot" /\ g.out = "none" /\ g.paths = ps
    BY <1>10, <2>1, GotoFields, ListKept DEF SameList, Stages
  <2>3. /\ call'.at = "project" /\ call'.op = "Snapshot" /\ call'.out = "none" /\ call'.paths = ps
        /\ call'.complete = whole
    BY <1>16, <2>1, <2>2 DEF IsCall
  <2>4. ASSUME whole, ~past.pushed
        PROVE  Named(Diff[mr.source], Len(Diff[mr.source]), ps)
    <3>1. call.count # -1 /\ call.count = e
      BY <1>11, <2>4
    <3>2. e = Len(Diff[mr.source])
      BY <1>1, <2>4, <3>1 DEF Counted
    <3>3. PICK m \in Nat : e = m /\ m <= Len(Diffs) /\ Named(Diffs, m, ps)
      BY <1>13, <2>4
    <3>4. \A i \in 1..Len(Diffs) : Diffs[i] = Diff[mr.source][i]
      BY DiffsArePrefix
    <3>5. \A i \in 1..m : i \in 1..Len(Diffs)
      <4>1. PICK T : Diffs \in Seq(T)
        BY DiffsArePrefix
      <4>2. Len(Diffs) \in Nat
        BY <4>1
      <4> QED
        BY <3>3, <4>2
    <3>6. Named(Diff[mr.source], m, ps)
      BY <3>3, <3>4, <3>5 DEF Named
    <3> QED
      BY <3>2, <3>3, <3>6
  <2> QED
    BY <1>1, <2>3, <2>4 DEF Enumerated, Snapshotting, EnumerationIsWhole, AllNamed
<1> QED
  BY <1>12, <1>15, <1>16

(* A snapshot past its pages keeps what it has listed.                     *)
LEMMA LaterStagesKeep ==
    ASSUME Inv, Enumerated, call.at \in {"project", "rules"}, call.op = "Snapshot",
           UNCHANGED <<mr, past>>, SameList(call', call), call'.op = call.op,
           call'.at \in {"rules", "done"}, StageOK(call')
    PROVE  Enumerated'
<1>1. (call.complete /\ ~past.pushed) => AllNamed
  BY DEF Enumerated, Snapshotting
<1>2. (call'.complete /\ ~past'.pushed) => AllNamed'
  BY <1>1 DEF SameList, AllNamed
<1>3. EnumerationIsWhole'
  <2> SUFFICES ASSUME AllNamed', NEW i \in DOMAIN Diff[mr.source]
               PROVE  {Diff[mr.source][i].old, Diff[mr.source][i].new} \subseteq call'.paths
    BY <1>2 DEF EnumerationIsWhole
  <2>1. i \in 1..Len(Diff[mr.source])
    <3>1. PICK T : Diff[mr.source] \in Seq(T)
      BY DiffsArePrefix
    <3> QED
      BY <3>1
  <2> QED
    BY <2>1 DEF AllNamed, Named
<1> QED
  BY <1>2, <1>3 DEF Enumerated, Snapshotting

(* The settings and the approval rules are read after the pages.           *)
LEMMA ProbesEnumerate ==
    ASSUME Inv, Enumerated, call.op = "Snapshot", ProbeProject \/ HasApprovalRulesAPI \/ RulesForbidden
    PROVE  Enumerated'
<1>1. /\ Inv' /\ UNCHANGED <<mr, pin, past>> /\ call'.op = call.op /\ IsCall(call)
      /\ call.at \in {"project", "rules"} /\ call.out = "none" /\ StageOK(call')
  BY PlainStep DEF Plain, Inv, TypeOK, StageOK, ProbeProject, HasApprovalRulesAPI, RulesForbidden, Running
<1> DEFINE Kept(d) == SameList(d, call) /\ d.at \in {"rules", "done"}
<1>2. ASSUME NEW has \in BOOLEAN PROVE Kept(WithRules(has))
  <2>1. PICK caps : caps = [call.caps EXCEPT !.evidence = Probed(has)]
    OBVIOUS
  <2>2. PICK c : c = [call EXCEPT !.caps = caps]
    OBVIOUS
  <2>3. WithRules(has) = Return(c, "ok")
    BY <2>1, <2>2 DEF WithRules
  <2>4. IsCall(c) /\ SameList(c, call)
    BY <1>1, <2>2 DEF IsCall, SameList
  <2>5. SameList(Return(c, "ok"), c) /\ Return(c, "ok").at = "done"
    <3>1. Return(c, "ok").at = "done"
      BY <2>4, ReturnFields
    <3>2. SameList(Return(c, "ok"), c)
      BY <2>4, ListKept
    <3> QED
      BY <3>1, <3>2
  <2> QED
    BY <2>3, <2>4, <2>5 DEF SameList
<1>3. Kept(Return(call, "err"))
  BY <1>1, ReturnFields, ListKept
<1>4. ASSUME ProbeProject PROVE Kept(call')
  <2>1. PICK g : g = Goto(call, "rules")
    OBVIOUS
  <2>2. PICK caps : caps = [g.caps EXCEPT !.threadsBlock = Probed(mr.threadsBlock),
                                          !.pinning = Probed(mr.trains)]
    OBVIOUS
  <2>3. call' = [g EXCEPT !.caps = caps]
    BY <1>4, <2>1, <2>2 DEF ProbeProject
  <2>4. IsCall(g) /\ g.at = "rules"
    BY <1>1, <2>1, GotoFields DEF Stages
  <2>5. SameList(g, call)
    BY <1>1, <2>1, ListKept
  <2>6. call'.at = "rules" /\ SameList(call', g)
    BY <2>3, <2>4 DEF IsCall, SameList
  <2> QED
    BY <2>5, <2>6 DEF SameList
<1>5. ASSUME HasApprovalRulesAPI PROVE Kept(call')
  <2> DEFINE n == call.page + 1
             c == [call EXCEPT !.page = n]
             rules == Page(mr.rules, call.page)
             some == \E i \in DOMAIN rules : rules[i].required > 0
             many == call.page > 1
             short == Len(rules) < PerPage
  <2>1. call' = IF rules = <<>> THEN WithRules(many)
                ELSE IF some THEN WithRules(TRUE)
                ELSE IF short THEN WithRules(FALSE)
                ELSE IF call.page = MaxListPages THEN Return(call, "err") ELSE c
    BY <1>5 DEF HasApprovalRulesAPI
  <2>2. many \in BOOLEAN /\ call.at = "rules"
    BY <1>5 DEF HasApprovalRulesAPI, Running
  <2> HIDE DEF rules, some, many, short, n
  <2>3. Kept(c)
    BY <1>1, <2>2 DEF IsCall, SameList
  <2> HIDE DEF c, Kept
  <2>4. \/ \E has \in BOOLEAN : call' = WithRules(has)
        \/ call' = Return(call, "err") \/ call' = c
    BY <2>1, <2>2
  <2> QED
    BY <1>2, <1>3, <2>3, <2>4
<1>6. ASSUME RulesForbidden PROVE Kept(call')
  BY <1>2, <1>6 DEF RulesForbidden
<1> QED
  BY <1>1, <1>4, <1>5, <1>6, LaterStagesKeep

(* Every step keeps the enumeration whole.                                 *)
LEMMA EnumeratedNext == ASSUME Inv, Enumerated, Next PROVE Enumerated'
<1>0. Inv' /\ IsCall(call) /\ StageOK(call)
  BY InvNext DEF Inv, TypeOK
<1>1. CASE ForgeMoves
  <2>1. /\ UNCHANGED <<pin, call>> /\ (~past'.pushed => ~past.pushed /\ mr'.source = mr.source)
    BY <1>1, ForgeFields
  <2>2. call.at = "diffs" => Reached'
    BY <2>1 DEF Enumerated, Reached, Diffs
  <2> QED
    BY <2>1, <2>2 DEF Enumerated, Snapshotting, Counted, AllNamed, EnumerationIsWhole
<1>2. ASSUME NEW op \in Ops \ {"none"}, Begin(op) PROVE Enumerated'
  <2>1. CASE op # "Snapshot"
    BY <1>0, <1>2, <2>1, BeginStep, OthersEnumerate
  <2>2. CASE op = "Snapshot"
    <3>1. call' = Goto([NoCall EXCEPT !.op = "Snapshot"], "mr")
      BY <1>2, <2>2 DEF Begin
    <3>2. call'.at = "mr" /\ call'.page = 1 /\ call'.entries = 0 /\ call'.out = "none"
      BY <3>1 DEF Goto, NoCall
    <3> QED
      BY <3>2 DEF Enumerated, Snapshotting, EnumerationIsWhole
  <2> QED
    BY <2>1, <2>2
<1>3. CASE GetMRObject
  BY <1>0, <1>3, MRStep, OthersEnumerate, MREnumerates
<1>4. CASE BranchTip
  BY <1>0, <1>4, TipStep, OthersEnumerate, TipEnumerates
<1>5. CASE FileAtRef
  <2>1. call.op # "Snapshot" /\ call'.op = call.op
    BY <1>0, <1>5, ReturnFields DEF FileAtRef, Running, StageOK
  <2> QED
    BY <1>0, <2>1, OthersEnumerate
<1>6. CASE ApprovalState
  <2>1. call.op # "Snapshot" /\ call'.op = call.op
    BY <1>0, <1>6, ApprovalStateStep DEF StageOK
  <2> QED
    BY <1>0, <2>1, OthersEnumerate
<1>7. CASE CurrentUser
  <2>1. call.op # "Snapshot" /\ call'.op = call.op
    BY <1>0, <1>7, UserStep DEF StageOK
  <2> QED
    BY <1>0, <2>1, OthersEnumerate
<1>8. CASE MRChangedFilesPage
  BY <1>8, PageEnumerates
<1>9. CASE ProbeProject \/ HasApprovalRulesAPI \/ RulesForbidden
  <2>1. call'.op = call.op
    BY <1>9, PlainStep DEF Plain
  <2> QED
    BY <1>0, <1>9, <2>1, ProbesEnumerate, OthersEnumerate
<1>10. CASE ApprovalStateForbidden \/ RequestFails
  <2>1. call' = Return(call, "gap") \/ call' = Return(call, "err")
    BY <1>10 DEF ApprovalStateForbidden, RequestFails
  <2>2. call'.at = "done" /\ call'.out # "ok"
    BY <1>0, <2>1, ReturnFields
  <2> QED
    BY <2>2, FailuresEnumerate
<1> QED
  BY <1>1, <1>2, <1>3, <1>4, <1>5, <1>6, <1>7, <1>8, <1>9, <1>10, NextSplit DEF Plain

(* A changed-file list declared complete has both paths of every entry of  *)
(* the head although the instance caps its diffs and its count, for every  *)
(* diff, page size and cap, unless a push came after the MR read           *)
(* (mrChangedFiles, enumerationGap).                                       *)
THEOREM EnumerationsAreWhole == Spec => []EnumerationIsWhole
<1>1. Init => Inv /\ Enumerated
  <2>1. ASSUME Init PROVE Enumerated
    <3>1. call.op = "none" /\ call.at = "done"
      BY <2>1 DEF Init, NoCall
    <3> QED
      BY <3>1 DEF Enumerated, Snapshotting, EnumerationIsWhole
  <2> QED
    BY <2>1, InitInv
<1>2. Inv /\ Enumerated /\ [Next]_vars => (Inv /\ Enumerated)'
  <2>1. ASSUME Inv, Enumerated, UNCHANGED vars PROVE Enumerated'
    BY <2>1 DEF vars, Enumerated, Snapshotting, Counted, Reached, Diffs, AllNamed, EnumerationIsWhole
  <2> QED
    BY <2>1, InvNext, EnumeratedNext
<1>3. Inv /\ Enumerated => EnumerationIsWhole
  BY DEF Enumerated
<1> QED
  BY <1>1, <1>2, <1>3, PTL DEF Spec
==============================================================================
