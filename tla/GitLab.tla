------------------------------- MODULE GitLab -------------------------------
(***************************************************************************)
(* The reads of the GitLab adapter (internal/forge/gitlab): GetMR and the  *)
(* governed file reads that follow its pin, Snapshot with its changed-file *)
(* enumeration and capability probes, and Resolve, which turns approvals   *)
(* into evidence.  Every request is a step; pushes, approvals and edits of *)
(* the approval rules come between them.  The writes of this adapter are   *)
(* part of module Reconcile, its comment listings of module Listings.      *)
(***************************************************************************)
EXTENDS Integers, Sequences, FiniteSetsExt

CONSTANTS
    Heads, Targets, NoSHA,
    Author, Bot, Reviewers,        \* who may approve
    Diff,                          \* [Heads -> Seq([old, new, overflow])]
    DiffLimit, CountCap,           \* the instance's diff limit and changes_count cap
    RuleSets,                      \* approval rules: Seq([required, eligible])
    PerPage, MaxListPages,         \* listPerPage = diffsPerPage, maxListPages = maxDiffPages
    MaxCalls, MaxMoves             \* bounds

Users == Reviewers \union {Author, Bot}

ASSUME GitLabAssumption ==
    /\ Heads \cap Targets = {} /\ NoSHA \notin Heads \union Targets
    /\ Author # Bot /\ Reviewers \cap {Author, Bot} = {}
    /\ \A h \in Heads : Diff[h] \in Seq({Diff[h][i] : i \in DOMAIN Diff[h]})
    /\ RuleSets \subseteq Seq([required : Nat, eligible : SUBSET Users])
    /\ {PerPage, MaxListPages} \subseteq Nat \ {0}
    /\ {DiffLimit, CountCap, MaxCalls, MaxMoves} \subseteq Nat

VARIABLES
    mr,      \* the forge: the merge request, its approvals and its project's settings
    pin,     \* the client's pin cache
    call,    \* the port call in progress, or the last one
    past     \* history

vars == <<mr, pin, call, past>>

NoInfo == [source |-> NoSHA, target |-> NoSHA, read |-> FALSE]
NoEvidence == [approvedBy |-> {}, eligible |-> {}, required |-> 0, expired |-> FALSE]
Caps == [threadsBlock |-> "unknown", pinning |-> "unknown", evidence |-> "unknown"]
NoCall == [op |-> "none", at |-> "done", info |-> NoInfo, count |-> -1, page |-> 1, entries |-> 0,
           paths |-> {}, overflow |-> FALSE, complete |-> FALSE, caps |-> Caps,
           rule |-> NoEvidence, out |-> "none"]

Init ==
    /\ mr \in [source : Heads, target : Targets, approvals : {{}}, rules : RuleSets,
               threadsBlock : BOOLEAN, trains : {FALSE}, resetOnPush : BOOLEAN, moves : {0}]
    /\ pin = NoInfo
    /\ call = NoCall
    /\ past = [first |-> NoInfo, reads |-> {}, pushed |-> FALSE, calls |-> 0]

-----------------------------------------------------------------------------
Move(new) ==
    /\ mr.moves < MaxMoves
    /\ mr' = [new EXCEPT !.moves = @ + 1]
    /\ UNCHANGED <<pin, call>>

Push(h) ==
    /\ h # mr.source
    /\ Move([mr EXCEPT !.source = h, !.approvals = IF mr.resetOnPush THEN {} ELSE @])
    /\ past' = [past EXCEPT !.pushed = TRUE]

AdvanceTarget(t) == t # mr.target /\ Move([mr EXCEPT !.target = t]) /\ UNCHANGED past

(* An approval is given for the head its author sees.                      *)
ApproveMR(u) ==
    /\ \A a \in mr.approvals : a.user # u
    /\ Move([mr EXCEPT !.approvals = @ \union {[user |-> u, head |-> mr.source]}])
    /\ UNCHANGED past

EditRules(r) == r # mr.rules /\ Move([mr EXCEPT !.rules = r]) /\ UNCHANGED past

ForgeMoves ==
    \/ \E h \in Heads : Push(h)
    \/ \E t \in Targets : AdvanceTarget(t)
    \/ \E u \in Users : ApproveMR(u)
    \/ \E r \in RuleSets : EditRules(r)

-----------------------------------------------------------------------------
Running(stage) == call.at = stage
Goto(c, stage) == [c EXCEPT !.at = stage, !.page = 1]
Return(c, result) == [c EXCEPT !.at = "done", !.out = result]
ReadOnly == UNCHANGED <<mr, pin, past>>

(* mrPinned: the governed reads take the pin when there is one.            *)
MRPinned == IF pin.read THEN "file" ELSE "mr"

Begin(op) ==
    /\ Running("done") /\ past.calls < MaxCalls
    /\ op = "Resolve" => pin.read           \* the run resolves against its pins
    /\ call' = Goto([NoCall EXCEPT !.op = op],
                    CASE op = "Resolve" -> "rules"
                      [] op \in {"FileAtHead", "FileAtBase"} -> MRPinned
                      [] OTHER -> "mr")
    /\ past' = [past EXCEPT !.calls = @ + 1, !.pushed = FALSE]
    /\ UNCHANGED <<mr, pin>>

(* A request that fails, or answers what the code does not accept.         *)
RequestFails == ~Running("done") /\ call' = Return(call, "err") /\ ReadOnly

(* GET merge_requests/:iid, in GetMR, mrWithAuthor and mrHeadsWithAuthor.  *)
GetMRObject ==
    LET n == Len(Diff[mr.source])
    IN /\ Running("mr")
       /\ call' = [Goto(call, "tip") EXCEPT !.info.source = mr.source,
                                            !.count = IF n <= CountCap THEN n ELSE -1]
       /\ past' = [past EXCEPT !.pushed = FALSE]
       /\ UNCHANGED <<mr, pin>>

(* Defect: every GetMR moves the pin.                                      *)
PinLatest(info) == info

(* The first GetMR of the process writes the pin, no later one does.       *)
PinFirst(info) == IF pin.read THEN pin ELSE info

(* Snapshot and Resolve read the heads for themselves, past the pin.       *)
MRWithAuthor(c) == Goto(c, "diffs")
MRHeadsWithAuthor(c) == Goto(c, "approvalState")

BranchTip ==
    LET info == [call.info EXCEPT !.target = mr.target, !.read = TRUE]
        c == [call EXCEPT !.info = info]
    IN /\ Running("tip")
       /\ call' = CASE call.op = "GetMR" -> Return(c, "ok")
                    [] call.op = "Snapshot" -> MRWithAuthor(c)
                    [] call.op = "Resolve" -> MRHeadsWithAuthor(c)
                    [] OTHER -> Goto(c, "file")
       /\ IF call.op \in {"Snapshot", "Resolve"}
          THEN UNCHANGED <<pin, past>>
          ELSE pin' = PinFirst(info) /\ past' = [past EXCEPT !.first = IF @.read THEN @ ELSE info]
       /\ UNCHANGED mr

(* FileAtBase, FileAtHead: the raw file at the pinned SHA.                 *)
FileAtRef ==
    /\ Running("file")
    /\ call' = Return(call, "ok")
    /\ past' = [past EXCEPT !.reads = @ \union
                  {[op |-> call.op, at |-> IF call.op = "FileAtHead" THEN pin.source ELSE pin.target]}]
    /\ UNCHANGED <<mr, pin>>

-----------------------------------------------------------------------------
(* mrChangedFiles: the diffs, page by page.                                *)
PathsOf(list) == UNION {{list[i].old, list[i].new} : i \in DOMAIN list}

Page(seq, p) == IF (p - 1) * PerPage >= Len(seq) THEN <<>>
                ELSE SubSeq(seq, (p - 1) * PerPage + 1, Min({p * PerPage, Len(seq)}))
Diffs == SubSeq(Diff[mr.source], 1, Min({DiffLimit, Len(Diff[mr.source])}))

(* Defect: a short page alone proves the enumeration complete.             *)
ShortPageIsProof(entries, count, terminated, overflow) == terminated /\ ~overflow

(* enumerationGap: changes_count is absent, capped or no number at -1.     *)
NoEnumerationGap(entries, count, terminated, overflow) ==
    terminated /\ ~overflow /\ count # -1 /\ count = entries

MRChangedFilesPage ==
    LET list == Page(Diffs, call.page)
        short == Len(list) < PerPage
        c == [call EXCEPT !.entries = @ + Len(list), !.paths = @ \union PathsOf(list),
                          !.overflow = @ \/ \E i \in DOMAIN list : list[i].overflow,
                          !.page = @ + 1]
    IN /\ Running("diffs")
       /\ call' = IF short \/ call.page = MaxListPages
                  THEN [Goto(c, "project")
                        EXCEPT !.complete = NoEnumerationGap(c.entries, c.count, short, c.overflow)]
                  ELSE c
       /\ ReadOnly

(* probeCapabilities: the project's settings, then the approval rules.  A  *)
(* project that answers 404 leaves a report with missing entries, which    *)
(* NewCapabilityReport refuses.                                            *)
Probed(b) == IF b THEN "supported" ELSE "absent"

ProbeProject ==
    /\ Running("project")
    /\ call' = [Goto(call, "rules") EXCEPT !.caps.threadsBlock = Probed(mr.threadsBlock),
                                           !.caps.pinning = Probed(mr.trains)]
    /\ ReadOnly

(* With the answer of hasApprovalRulesAPI, Snapshot has its report and     *)
(* Resolve goes on or returns the Free-tier gap.                           *)
WithRules(has) ==
    CASE call.op = "Snapshot" -> Return([call EXCEPT !.caps.evidence = Probed(has)], "ok")
      [] call.op = "Resolve" /\ has -> Goto(call, "mr")
      [] call.op = "Resolve" /\ ~has -> Return(call, "gap")

(* hasApprovalRulesAPI: an empty page after full ones counts as present.   *)
HasApprovalRulesAPI ==
    LET rules == Page(mr.rules, call.page)
    IN /\ Running("rules")
       /\ call' = IF rules = <<>> THEN WithRules(call.page > 1)
                  ELSE IF \E i \in DOMAIN rules : rules[i].required > 0 THEN WithRules(TRUE)
                  ELSE IF Len(rules) < PerPage THEN WithRules(FALSE)
                  ELSE IF call.page = MaxListPages THEN Return(call, "err")
                  ELSE [call EXCEPT !.page = @ + 1]
       /\ ReadOnly

RulesForbidden == Running("rules") /\ call' = WithRules(FALSE) /\ ReadOnly   \* 403, 404

-----------------------------------------------------------------------------
(* Resolve.  The pins are compared with the heads just read, the approvals *)
(* are read after that.                                                    *)
(* Defect: the pins are compared with themselves.                          *)
NeverStale(info) == FALSE

PinsStale(info) == info.source # pin.source \/ info.target # pin.target

(* pickApprovalRule: the first rule that requires approvals.               *)
Requiring == {i \in DOMAIN mr.rules : mr.rules[i].required > 0}

FilterEligible(users) == users \ {Author, Bot}
FilterApproved(rows, eligible) == {a \in rows : a.user \in eligible \ {Author, Bot}}

ApprovalState ==
    /\ Running("approvalState")
    /\ call' = IF Requiring = {} THEN Return(call, "gap")
               ELSE LET rule == mr.rules[Min(Requiring)]
                    IN [Goto(call, "user") EXCEPT
                           !.rule = [approvedBy |-> mr.approvals, eligible |-> rule.eligible,
                                     required |-> rule.required, expired |-> PinsStale(call.info)]]
    /\ ReadOnly

ApprovalStateForbidden == Running("approvalState") /\ call' = Return(call, "gap") /\ ReadOnly

(* currentUserID, then the filters and the evidence.                       *)
CurrentUser ==
    LET eligible == FilterEligible(call.rule.eligible)
        approved == FilterApproved(call.rule.approvedBy, eligible)
    IN /\ Running("user")
       /\ call' = IF approved = {} \/ Cardinality(approved) < call.rule.required
                  THEN Return(call, "gap")
                  ELSE Return([call EXCEPT !.rule.approvedBy = approved, !.rule.eligible = eligible],
                              "evidence")
       /\ ReadOnly

Next ==
    \/ ForgeMoves
    \/ \E op \in {"GetMR", "FileAtBase", "FileAtHead", "Snapshot", "Resolve"} : Begin(op)
    \/ GetMRObject \/ BranchTip \/ FileAtRef
    \/ MRChangedFilesPage \/ ProbeProject \/ HasApprovalRulesAPI \/ RulesForbidden
    \/ ApprovalState \/ ApprovalStateForbidden \/ CurrentUser
    \/ RequestFails

Spec == Init /\ [][Next]_vars
==============================================================================
