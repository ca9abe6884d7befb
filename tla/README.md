# Verification of assent

assent decides whether a merge request may be merged by rules kept in the
repository, and publishes the decision on the forge: threads, one summary note,
an approval, a merge. It is stateless: the only storage is the forge itself,
which reviewers, pushes and other runs change at the same time. This directory
holds TLA+ modules of that machinery, the TLC runs that check them and the TLAPS
proofs of what holds for every instance.

Paths below are relative to the repository root.

## 1. Inventory

| Component | State | Operations | Hard behaviour | What makes it correct |
|---|---|---|---|---|
| Publication, `internal/forge/forge.go` | none of its own; threads, notes, approvals and the merge on the forge | `Reconcile`: summary preamble, then thread, clear-slot or approve-and-merge | one request per step while others act; crashes; lost responses; duplicates | reruns converge, one thread per finding, no merge of anything unevaluated, refusals hide nothing |
| Orchestration, `cmd/assent/run.go` | pins, snapshot, facts, decision of one process; the emitted record | `orchestrate`: `GetMR`, `Snapshot`, policy loads, facts, decide, emit, guards, `Reconcile`, exit code | several reads of moving heads in one decision; failure between any two steps | record before any write; only permitted heads are merged; self-edits and forks write nothing |
| GitLab adapter, writes, `internal/forge/gitlab/gitlab.go` | none | list, upsert, create, resolve, approve, `CurrentHeads`, `MergeCAS`; retry of reads, pages | rows shift between pages; a write lands after its call gave up; a merge guarded by the source SHA alone | a listing is not partial; nothing is posted twice without a cause; the merge is of the pinned source |
| GitLab adapter, reads, `internal/forge/gitlab` | pin cache (first read wins) | `GetMR`, `FileAtBase`, `FileAtHead`, `Snapshot`, `Resolve` | pushes, approvals and rule edits between the requests of one call; limits of the instance | reads follow the pin; an enumeration declared complete is; evidence is for the pinned heads |
| GitHub adapter, `internal/forge/github` | pin, proved content scopes, last merge state and file count, state of the merge ref; installation token | the same port; merge-ref digest, scope probe, GraphQL thread states | 404 for missing and for forbidden; a lagging merge ref; token refresh | one head is judged, absence is real, the merge is of the pinned digest |
| In-memory fake, `internal/forge/fake` | threads, notes, heads, merges | the same port, atomically | none | reference for the port |
| Decision engine, `internal/core/aggregate`, `internal/core/policy` | none | `Decide`, coverage, approval arithmetic, assert trees, profiles | many interacting dominance rules | nothing uncovered is approved; REVIEW and BLOCK dominate |
| Capabilities and arming, `internal/forge/capability.go`, `precondition.go`, `cmd/assent/run_arming.go` | none | report, precondition, freshness | unknown capability, expiry between evaluation and arming | unknown never arms |
| Provider host, `cmd/assent/provider_host.go`, `internal/provider` | facts bound so far, the pinned instant | declaration load, negotiation, http and exec calls, digest check, builtins, max-age | declarations read at the branch name, late or foreign answers, duplicated facts, links in the checkout, time that passes until arming | an unusable fact is never resolved; builtins read what governs; arming on live facts |
| Change model, `internal/change` | none | `Diff`, `DiffEntries`, `Entries`, `FoldRenames`, ceilings | types that print alike, one-sided files, duplicate identities | a decided diff tells the whole difference |
| Classification and fold, `internal/core/classify`, `cmd/assent/checkout.go` | none | path classes, checkout walk, fold of all changed files | empty and opaque files, symlinks, incomplete lists | a self-edit is always seen |
| Compare, `internal/compare`, `cmd/assent/compare.go` | records | evaluate both sides, classify, deltas, gates, exit code | kind of the case and kinds of its identities are computed apart; borrowed subjects | exit 0 hides no difference |
| Lint, adopter tests, catalogue, render, doctor, schemas | none | offline reports, text, probes | none that is concurrent | – |

The orchestration calls the adapter to read, calls the provider host and the engine,
writes the record and calls `forge.Reconcile`, which calls the adapter for every
write. The adapters and the host keep small caches for the life of the process.
Runs for the same MR are meant to be serialized by the CI `resource_group`; nothing
in the program enforces it, so the models have both: `Serialized = TRUE` and `FALSE`.

`PROJECT.json` lists the components with their status and the hazards at their
lines.

## 2. Modules

| Module | Models |
|---|---|
| `Reconcile`, `ReconcileProps`, `MCReconcile` | `forge.Reconcile` by several publishers, one atomic step per forge request; the forge; reviewers, pushes, faults |
| `Run`, `RunProps`, `MCRun` | `assent run`: extends `Reconcile` with the process around the call |
| `Gate` | the abstract merge gate: heads, records and at most one merge; `Run` implements it |
| `AssertTree`, `Decision`, `DecisionProps`, `MCDecision` | the walk of a condition tree; `aggregate.Decide`: guards, profiles, coverage loop, escalations, risk |
| `GitHub`, `GitHubProps`, `MCGitHub` | one GitHub client, its caches and a pull request that moves under it |
| `GitLab`, `GitLabProps`, `MCGitLab` | the reads of the GitLab adapter: pin, snapshot, approvals |
| `Listings`, `ListingsProps`, `MCListings` | the paged listings of both adapters, the retry policy, late writes |
| `Providers`, `ProvidersProps`, `MCProviders` | the provider host up to the arming check |
| `Change`, `ChangeProps`, `MCChange` | from two trees to the change set and its class |
| `Compare`, `CompareProps`, `MCCompare` | `assent compare`, both modes |
| `RunProofs` | the theorems about publication and the runs, in three parts |
| `DecisionProofs`, `GitHubProofs`, `GitLabProofs`, `ListingsProofs`, `ProvidersProofs`, `CompareProofs`, `ChangeProofs` | the theorems about the other components |

`X` is the component, `XProps` what it promises, `MCX` the instance TLC checks.
A definition marked "Defect" is a plausible bug of the definition after it; no
specification uses it.

`Reconcile` and `Run` treat each port call as one or two atomic steps over the
forge. `Listings`, `GitHub` and `GitLab` open those calls up, one step per request,
and show what the layer above may believe of the answers.

### Reconcile

State: `threads` and `notes` are what the forge holds, in creation order, with the
index as the forge id; `head` the source head and the target tip; `approvals` and
`merges` what was recorded. `run[p]` is one invocation: its program counter (the
forge request that comes next), its locals and its result. `disturbed` is history:
the invocations during which somebody else changed the forge. `budget` bounds the
environment.

| Action | Code |
|---|---|
| `Begin`, `Enter` | entry of `Reconcile`; an unsupported desire is refused before anything else |
| `ListBotNotes`, `UpsertLookup`, `UpsertWrite` | `reconcileSummaryPreamble`, `UpsertComment` |
| `ListBotThreads`, `Supersede` | `reconcileThread`, listing and the supersede loop |
| `StartRepair`, `RepairDuplicate`, `EndRepair` | `repairDuplicates` |
| `ReuseThread`, `CreateThread`, `RescanThreadDesired` | the other cases of `reconcileThread`, and step 9 |
| `ClearList`, `ClearResolve`, `RescanClearSlot` | `reconcileClearSlot` |
| `ArmingGate`, `ReadSource`, `ShaGuard`, `Approve` | `reconcileApproveMerge` up to the merge |
| `MergeCASAtomic` | `MergeCAS` as the port and the fake have it |
| `CasReadSource`, `CasGuard`, `MergePut` | `MergeCAS` of the GitLab adapter |
| `Fail` | a request that fails after its retries, or the death of the process |
| `ReviewerResolves`, `ReviewerReopens`, `CorruptMarker`, `Push` | the rest of the world |

Every write goes through `Respond`: it takes effect, and then its response arrives
or is lost. A lost response ends the invocation with an error, because the adapters
never retry a write.

Data that no property tells apart is left out: bodies, timestamps, warnings, marker
text (a marker is a slot and an occurrence, legible or not). `MaxInt` stands for
the largest Go `int`, which `forgeIDNum` returns for an id without a number.
A listing is one atomic read here; its pages are in `Listings`.

### Run

`job[p]` is the process: its pins (`source`, `target`), the snapshot heads, the
source head the changed-file list really described (`files`), the target tip the
facts were really read from (`factsAt`), the decision and the exit code. A commit's
content is three sets: `SelfEdit`, `Acceptable` and `Granting`; `Verdict` is the
order of the guards in `aggregate.Decide` over them. Policy and governed files are
read at pinned commits (`ReadsFollowThePin`, `OneJudgedHead`) and so need no step.

`eligible`, the arming verdict, is any Boolean. Both adapters report
`protected-pipeline-source` as unknown today, so the real program never arms; the
model keeps the merge path alive to check what the code would do once they do.

`HeadsReturn = FALSE` says that a branch is not set back to a commit it had before
while runs are under way.

### Decision

`req` is one call of `aggregate.Decide`, chosen among `Requests` and never changed;
the other variables are the locals of `cover` and the fields of `Result`.

| Action | Code |
|---|---|
| `ReservedClassBlock`, `UndecidableReview`, `EmptyRequire`, `PassGuards` | the guards of `Decide` |
| `ProfileError`, `ResolveProfile` | `CoverWithProfile`, `CoveringProfiles`, `ResolveProfile` |
| `SkipRule`, `MatchFails`, `ObserveRule`, `EnforceRule` | one turn of the rule loop of `cover`; `CoverSubject` is `coverSubject`, `Selects` `matchChanges`, `ApprovalSatisfies` `approvalSatisfies` |
| `UncoveredObligations`, `UnmatchedDeletes`, `UnmatchedEdits` | the three escalations |
| `RiskCheck` | `riskDecision` |

A glob is the set of strings it matches (an empty set is an absent list). A CEL leaf
is the outcome it has for each change, an error included. A condition tree is a
numbered set of nodes, so that its walk is a recursive function and needs no
recursive operator. The loop takes the rules in any order, which stands for every
order they can be written in. `pc = "failed"` is an error return, whose partial
result the caller drops. Findings are a set: their order and their text are left
out. A nil policy, binding or input is not a state the callers produce. `assent run`
passes no profile table, so `profile` stays `NoProfile` there; the comparison and
test entries use it.

`Run` does not call `Decision`: `Run!Verdict` keeps the order of the guards and lets
coverage say either thing about content that is acceptable, which contains every
verdict `Decision` can give.

### GitHub

`pr` is the pull request with what was written to it, `client` the caches of one
process, `call` the port call in progress, `snap` the last snapshot returned (the
caller's pins), `past` history. A digest is the pair of commits it was made of.

| Action | Code |
|---|---|
| `Begin(op)` | entry of `GetMR`, `FileAtBase`, `FileAtHead`, `FileAtRef`, `Snapshot`, `Approve`, `CreateThread`, `CurrentHeads`, `MergeCAS`; pinned operations skip the PR read (`AfterPin`) |
| `FreshPR` | `getPR` and what each caller does with it: first write of the pin, fork heads, the cached merge state and file count |
| `MergeResultDigest` | the read of `refs/pull/N/merge`, entered only while mergeability is known |
| `ContentScopeProbe`, `ContentRead` | `contentScopeOK`, then the file: a 404 is absence only behind a proved scope |
| `MRChangedFilesPage` | a page of the pull-files listing, and `changedFilesVerdict` after the last |
| `Approve`, `CreateThread`, `PutMerge` | the writes, the last with the source SHA as its guard and a response that may be lost |
| `RequestFails` | any request that fails |
| `Push`, `AdvanceBase`, `MintMergeRef`, `Block`, `DeleteFork`, `RevokeScope` | the pull request, its merge ref and the token's permission changing between two requests |

`TopSHA` says that the PR object carries a top-level `sha`, as the fixtures of the
repository have it; without it see section 4. Bounds: `MaxCalls` port calls,
`MaxMoves` changes, pages of `PerPage` and at most `MaxListPages`, `PullFilesCap`.

### GitLab

`mr` is the merge request with approvals, rules and project settings, `pin` the
client's cache, `call` the call in progress with everything it has collected.

| Action | Code |
|---|---|
| `Begin(op)` | `GetMR`, `FileAtBase`, `FileAtHead`, `Snapshot`, `Resolve`; the file reads go through `mrPinned` |
| `GetMRObject`, `BranchTip` | the two requests that give the heads; the first `GetMR` writes the pin, `Snapshot` and `Resolve` read past it |
| `FileAtRef` | a governed file at the pinned commit |
| `MRChangedFilesPage` | a page of the diffs and, after the last, `enumerationGap` |
| `ProbeProject`, `HasApprovalRulesAPI`, `RulesForbidden` | `probeCapabilities`; for `Resolve`, the Free-tier check |
| `ApprovalState`, `ApprovalStateForbidden`, `CurrentUser` | `Resolve`: `pickApprovalRule`, `pinsStale`, then `filterEligible` and `filterApproved` |
| `RequestFails` | any request that fails |
| `Push`, `AdvanceTarget`, `ApproveMR`, `EditRules` | other people; a push clears the approvals where the project says so |

The instance caps the diffs it lists (`DiffLimit`) and the count it reports
(`CountCap`). An approval remembers the head its author saw, which the program
cannot: the property compares with it.

### Listings

`board` is what the forge pages through, `call` one of `ListBotThreads`,
`UpsertComment` (over `ListBotNotes`) and GitHub's `ResolveThread`, `flight` the
creates that were given up on and have not landed.

| Action | Code |
|---|---|
| `ListBotThreads`, `ListBotNotes` | one page; the two adapters have different ideas of the last page and the same page cap |
| `ReviewThreadIndex`, `PartialGraphQL` | `reviewThreadIndex`: cursor pages with `isResolved`; an answer with errors beside data |
| `ResolveReviewThread` | the mutation behind `ResolveThread` |
| `CreateNote`, `EditNote`, `CreateTimesOut` | the write of `UpsertComment`, sent once |
| `TransientFailure`, `Refused` | `do`: a GET is tried `MaxAttempts` times, a refusal ends the call |
| `CommentPosted`, `CommentDeleted`, `MarkerCorrupted`, `ThreadToggled`, `LateWriteLands` | the board changing between two pages |

Bounds: `MaxRows`, `MaxCalls`, `MaxEvents`, `MaxFaults`. A deletion under the pages
is remembered, since no client of a paged API can see it.

### Providers

`run` is `resolveRunFacts` from the pinned instant (`asOf`) over the providers in
name order; `facts` what has been bound; `target`, `checkout` and `binary` what is
read meanwhile; `clock` runs on.

| Action | Code |
|---|---|
| `Begin`, `LoadDeclaration`, `ForgeFails`, `Resolved` | the loop of `resolveRunFacts`; a bad declaration skips the provider, a forge error ends the run |
| `CallHTTP`, `Verify`, `CallExec` | the transports; an executable runs after its digest was compared |
| `CallRepoFile`, `LoadResourceOwnerRegistry`, `CallResourceOwner` | the builtins |
| `Arm` | `controllingFactsFreshAt` at the time of arming |
| `Tick`, `TargetMoves`, `BinaryReplaced` | the world |

`ResolveFactsChecked` is the classifier, in the order of its returns. A declaration
has one output; several are classified independently of each other.

### Change

A value tree is a function from paths to nodes. A file is absent, empty, a symlink,
undecidable (whatever the YAML, JSON and HCL producers refuse) or a document.

| Action | Code |
|---|---|
| `ReadGoverned` | the two sides of the governed file, `Diff` or `FileEvent` |
| `Assemble` | the same for `assent test`: `DiffEntries` and the objects of `Entries` |
| `ShortList` | a forge that answers with an incomplete list |
| `ListCheckout`, `FoldFile`, `Folded` | `dirCheckout.ChangedFiles`, `foldCheckout` |
| `FoldSnapshot` | `foldSnapshotPaths` |

### Compare

`RunCompareDir` is the seed mode: one bundle and one gate. `LoadSuite`,
`CompareCase` (in any order of cases), `EvaluateGates` and the failures beside them
are the suite. `Classify` gives the kind of a case, `BuildComparisonRecord` the
deltas of its identities and the check that a difference has one, `ExitCodeForSuiteRun`
the first failing gate of the table.

## 3. Properties and runs

Passing runs:

| Run | Instance | Shows |
|---|---|---|
| `serial` | 1 publisher at a time, 1 slot, 2 occurrences, 2 decisions; 4 calls that set, clear, approve or are refused, with and without a summary; 1 fault, 2 reviewer acts, 1 push, 1 corrupted marker | reruns converge from whatever an earlier call left, never duplicate a thread, never fail their own rescan; receipts list exactly what was written |
| `race` | 2 overlapping publishers, 1 slot, 1 occurrence, 4 calls, 1 fault, 1 push, the GitLab `MergeCAS`; fair | repairs never close the last open thread of a finding; what is merged has the pinned source; refusals hide nothing; an approval dangles only if the heads moved; every call returns |
| `run_gate` | 3 runs in turn, 2 pushes, 1 fault, 1 reviewer act, the atomic `MergeCAS`; fair | record first, permitted heads only, no silent REVIEW, refinement of `Gate`, every run exits |
| `decision` | about 16,800 requests: five change sets, phases and ceilings, match domains, effects, outcomes; guards and match errors; thresholds 1 to 4; evidence of every quality; profile tables; condition trees of five nodes under a depth limit of 2 | no vacuous APPROVE; the verdict is a function of the enforced rules; evidence lifts reviews only; one narrowest writer; answers survive later facts |
| `github` | 2 heads, 2 bases, 3 port calls, 2 changes of the pull request, 2 pages of 2 files, a cap of 5 | one head is judged, a 404 is not taken for absence, a complete list is complete, the merge is pinned |
| `listings` | both adapters and boards, 3 rows to begin with and 5 at most, pages of 2 and at most 2, 2 calls, 3 events, 2 faults | a listing that returns is not partial; reported states were real; a second summary has a cause |
| `gitlab` | 2 heads, 2 targets, 2 reviewers, several rule sets, 3 calls, 2 moves, diff limit 2, count cap 3, pages of 2 and at most 2 | reads follow the pin, complete enumerations are whole, evidence is for the pins |
| `providers` | up to 2 providers of 5 kinds, every sort of answer, clock to 2, 1 move of the target, 1 replacement of the binary | resolved facts are vetted, builtins read what governs, the merge is armed on live facts |
| `change` | all pairs of small documents (maps, lists with and without unique identities, empty and undecidable files) at depth 3 and 4 nodes, five entry configurations, three tools | decided diffs replay to the head document, entries agree with their documents, no policy edit goes unseen |
| `compare` | pairs of profiles of two rules over two subjects, allowlists, tampered and missing bundles, in both modes | exit 0 hides no difference and drops no intervention that was not accepted by name |

Bounds. In the forge runs the interesting states need two actors and three steps of
history: a race or crash that leaves something behind, an act in between, and a run
that finds it. Three or four calls, one fault and one or two environment acts reach
each of them. Two occurrences make supersession possible, three SHAs (two contents
and the merge commit) every kind of move. In the adapter runs a page holds two rows,
so that a list ends inside a page, at its end, and beyond the page cap; two moves
let the heads change before and after any one request, and three calls put a read
before and after a call they disturb. The clock of `providers` passes every expiry
of the declared answers but the last. Each mutant of `PROJECT.json` is a defect that
these bounds catch.

Publishers, occurrences, bases and reviewers are interchangeable, hence the symmetry
sets; symmetry is not used where a liveness property is checked. Where publishers
take turns one of them is enough: a rerun by the same process and by another one
start from the same forge. Deadlock is checked in `providers` and `change`, whose
ends are explicit; elsewhere the system has stopped as it should when the budgets
are spent and nothing is under way.

Fairness is weak fairness of each process's own steps. Requests carry a client
timeout and no step waits for another publisher, so a started process always has a
next step that ends. Nothing is assumed of the environment. The adapter, provider
and compare modules are sequences of bounded steps; they have no liveness property
beyond that.

Violation runs. Each checks one property that a comment or a protocol document
states and the code does not have; `PROJECT.json` quotes the lines.

| Run | Stated | Found |
|---|---|---|
| `repair_stuck` | duplicates are repaired on the next run | if a reviewer resolved the lowest id, no later run succeeds |
| `compare_weakened` | unclassified differences are an error | a block weakened to a comment passes the suite when another delta of the case was accepted |

### Disagreements without a run

These can be reproduced by changing one constant or adding one property to a cfg.

| How | Stated | Found |
|---|---|---|
| `MergedTargetWasEvaluated` in `race` (`AtomicMerge = FALSE`) | `MergeCAS` compares every pin atomically (port.go) | on GitLab the target can move between the read and the PUT |
| `ChallengeStaysOpen` in `race` with `NumericIds = FALSE` | the canonical is the lowest id, never first seen | ids without a number have no lowest; two repairs can close both threads |
| `ResolutionMeansReviewed` in `serial` | resolved means reviewed | a thread assent resolved as stale counts when the content returns |
| `MergedWasPermitted` in `run_gate` with `HeadsReturn = TRUE` | final head = pin implies it was what was judged | not if a branch moves away and back during the run |
| `OneSidedIsChanged` in `change` | "an add/delete counts as changed" (checkout.go 88-91) | `bytes.Equal(nil, empty)` is true: an empty file that comes or goes is not in the changed set |
| `ArmedWithinMaxAge` in `providers` | controlling facts "must still be within maxAge at armTime" (run_arming.go 14-16) | the provider's own `expiresAt` is compared, which no declared maxAge bounds |
| `OneJudgedHead` in `github` with `TopSHA = FALSE` | heads of a fork come from the PR object (snapshot.go 157-179) | `MRInfo` takes the top-level `sha`; without it the reads name an empty ref, that is, whatever the default branch holds |
| `UnreadableIsNotOpen` in `listings` | "an unreadable resolution state is never reported as open" (graphql.go 64-69) | an answer with errors and partial data is used; threads missing from it count as open |

Found by reading, while modelling:

* a refused arming has already changed the MR: `Reconcile` writes the summary note
  (forge.go 383) before the arming gate, although the package comment says that a
  refusal "performs ZERO writes" (forge.go 23, 783).
* `drivingFinding` (run.go 813-823) is said to pick "the finding that drives the
  decision" and takes the first one sorted by subject and rule. With a blocking
  and a comment finding the thread of a BLOCK can carry the effect and the rule of
  the comment, and both are part of the thread's slot. `DenialIsExplained` shows
  that a finding with the right effect always exists.
* the summary preamble makes `Reconcile` rebuild the receipt with `receiptOf`
  (forge.go 402-404), which drops `Repairs`, although the protocol records each
  repair there; every `assent run` has a summary. `Succeeded` models it.
* `UpsertComment` edits the first summary note it lists; a second one is never
  removed, although the protocol wants exactly one. `ExtraSummaryHasACause` bounds
  how a second one can come about.
* no caller sets `ClearSlot` (`buildDesired`, run.go 717-788), so a thread whose
  slot is no longer desired stays open, although step 7 of the protocol resolves it.
* both adapters report `protected-pipeline-source` as unknown, so `ArmEligible` is
  always false.
* GitLab `hasApprovalRulesAPI` takes an empty page after full ones for a rule that
  requires approval; `probeCapabilities` turns a 404 of the project into an error of
  the whole snapshot, although the comment of `Snapshot` speaks of failing safe.
* a push between the PR read and the file pages goes unnoticed by both enumerations
  when the number of files stays the same; `MergedWasPermitted` shows that the run's
  second read of the heads catches it. `FileAtRef` of GitLab takes any 404 for absence.
* after the re-read of GitHub's `MergeCAS` a push away and back lets the PUT go
  through under a digest of other heads, hence the exception in `MergeIsPinned`
  (it takes seven moves and does not occur in the run).
* declarations and the owner registry are read at the target branch by NAME while
  policies are read at the pinned commit; the query id is the provider's name in
  every run; the subject of a returned fact is not compared; an HTTP status other
  than 200 with a well-formed body is believed; the digest of an executable is
  compared before it is started, not as it is started (transport.go 283);
  `controllingFactsFreshAt` holds when no fact was bound at all.
* `assent test` diffs entries, `assent run` diffs whole documents, so that the same
  change can be judged differently; `FoldRenames`, which no command calls yet, folds a deleted and an added entry
  of equal value into one rename; any sequence makes a document opaque for `Diff`.
* two newly uncovered obligations of one case have the same delta key, which ends
  the comparison with exit code 6 and not with the gate for removed obligations;
  `CombinePolicies` does not look for duplicate rule names; the exit code of a suite
  is that of the first failing gate in table order; the seed mode applies the
  widening gate alone.

## 4. Proofs

Every invariant that a passing run checks is the statement of a theorem, and so are
the action property and the refinement. Part 1 of `RunProofs` proves, for any publishers, slots, SHAs, requests and bounds:

* `TypeCorrect`: `Spec => []TypeOK`;
* `RefusalsHideNoMerge`: a refusal reported as exit 0 hides no merge, and one
  before the SHA guard no approval;
* `MergedSourceEvaluated`: with either form of `MergeCAS`, a merge was armed,
  pinned three ways and took the pinned source head;
* `MergedTargetEvaluated`: with the atomic `MergeCAS`, the pinned target tip too.

None of these is inductive. `RefusalHidesNoMerge` speaks of finished invocations,
so the invariant must say what an invocation in progress has written and what it
already checked: `Inv` is `TypeOK` and `RunOK` for each publisher, where `RunOK`
ties the program counter to the request (a thread step has a desired thread, a step
past the gate is armed with three equal, present pins), to the write history
(nothing merged while under way, an approval only at the merge steps) and to the
outcome. There is one lemma per action, resting on a few lemmas about records
(`EndedOK`, `SucceededOK`, `RespondOK`) and two about steps (`ReadStep`,
`WriteStep`). `MergeFacts` is then inductive relative to `Inv`: the merging step
compares the heads it merges.

Part 2 of `RunProofs` proves what a publication leaves behind, with no bound on
crashes, lost responses, reruns, reviewers, pushes or corrupted markers:

* `SuccessShowsDesired`: `Spec => []SettledMatchesDesired`;
* `ReceiptsAreHonest`: `Spec => []ReceiptIsHonest`;
* `DanglingApprovalsAreMoves`: `Spec => []DanglingApprovalOnlyIfMoved`;
* `SerializedMeansOneThread`, assuming `Serialized`: `Spec => []OneThreadPerKey`;
* `UndisturbedRescanSucceeds`, assuming `Serialized`:
  `Spec => []UndisturbedRunSucceeds`;
* `RacingRepairsKeepAChallenge`, assuming forge ids with numbers, no reviewers and
  one occurrence of a finding per slot: `Spec => []ChallengeStaysOpen`;
* `RacersDuplicatesAreRepaired`, assuming no spoiled markers besides:
  `Spec => []UndisturbedRunSucceeds`, with any number of racing publishers.

It first states the effect of each action on the forge and on the invocation, field
by field, so that the invariants that follow never expand an action. Each theorem
then has its own. A success is a rescan that saw what it wanted, and whoever changes
the threads afterwards disturbs the invocation, so `SettledMatchesDesired` is
inductive once paths and requests are tied. `ReceiptOK` and `HeadsOK` carry the
operations so far, and the heads compared so far, through the steps of a call.
`OneThreadPerKey` needs `OneBusy` (one invocation under way) and
`ListingCovers` (if the busy invocation's listing shows its key free, it still is):
a step only resolves threads, or posts the one its listing allows; people rename no
thread and add none. `UndisturbedRunSucceeds` builds on it: `Known` says that the
listing of an undisturbed invocation is still right about its key, and that what it
has left to resolve is all there is. For racing repairs, `ChallengeInv` says that the
oldest thread of every key is open and that nobody's list of threads to resolve
holds it: every repairer keeps the least id it listed, a stale listing has the
oldest thread too, and ids only grow. `RepairInv` rests on that: the listing of an
undisturbed invocation is the forge's, so the thread it keeps is the oldest of its key
and open, and what it has left to resolve is every other open one.

Part 3 of `RunProofs` proves, for any number of processes and pushes:

* `WritesHaveRecords`: `RunSpec => []NoWriteWithoutRecord`;
* `WritesObeyDecision`: `RunSpec => []WritesFollowDecision`;
* `ReviewsArePosted`: `RunSpec => []ReviewIsPosted`;
* `MergesArePermitted` and `RunImplementsGate`, assuming `AtomicMerge` and
  `~HeadsReturn`: `RunSpec => []MergedWasPermitted`, and `Run` implements `Gate`.

`RunInv` has one conjunct, `JobOK`, per process. It ties the stage of the process to
the program counter of its call of `Reconcile`: before the record is written there
is no call, from then on the request is the one the decision asks for, and the exit
code is that of the finished call. `History` adds the heads: if a pin is the head
now, then, with `~HeadsReturn`, the branch never left it, and what the run read for
that pin was read at it. The atomic merge compares pins and heads, so the commits
judged are the commits merged. Each step of `Run` is then a step of
`Gate` or changes none of its variables.

`DecisionProofs` proves, for every set of well-formed requests and so for every
policy, change set, evidence and rule order:

* `DecisionTypeCorrect`;
* `ApprovalsAreVouched`: `Spec => []ApproveIsVouched`;
* `CappedPacksNeverApprove`: a pack capped at observe or off approves nothing;
* `DenialsAreExplained`: a REVIEW or BLOCK has a finding, and BLOCK a blocking one;
* `AuthorityIsNarrowest`: `Spec => []OneWriterNarrowest`;
* `VerdictsAreOfEnforcedRules`: `Spec => []EnforcedRulesDecide`;
* `EvidenceLiftsNothingElse`: `Spec => []EvidenceOnlyLiftsReview`;
* `AnswersSurviveFactsHolds`: `Spec => []AnswersSurviveFacts`.

The properties speak of the end of the call, so `Inv` says at each stage what the
stages before it have established as long as the decision is still APPROVE: the
guards held (`GuardsHeld`), every rule taken so far leaves APPROVE alone
(`LoopHeld`), every escalation passed found nothing (`EscalationsHeld`). `Worst` only
ever makes a decision worse, so an APPROVE at the end has kept them all.
`CleanRuleVouches` turns "leaves APPROVE alone" into what it means for each change,
and `SatisfiedIsEndorsed` an accepted approval into enough distinct people.
`Explained` carries findings along with points, which is why a denial by the
threshold alone still has one.

`VerdictsAreOfEnforcedRules` and `EvidenceLiftsNothingElse` rest on `Tally`: at every step the sums of the loop are those
of the enforced rules it has taken. Obligations and effects are unions, and the
points are the cardinality of a set of triples (rule, change, point), so that a rule
adds the number of its firings times its points and the order of the rules is gone.
`UnmatchedEdits` looks for edits only if some required obligation is covered;
`EditsTally` shows that this condition never matters, because otherwise one is
uncovered and the review is asked for already. So the decision is `FinalDecision` of
the request, and what remains is about that function: `Alike` requests enforce the
same rules with the same outcomes, and without evidence a rule says of a subject
what it says with it or asks for the one review the evidence has settled. Findings,
firings and points can then only grow, and none of the new findings blocks.

`AnswersSurviveFactsHolds` is about two recursive functions: the walk of a condition
tree, which recurses over the depth, and `Truth`, which recurses from the children,
numbered above their parent. A definition by recursion says nothing until a function
that satisfies it is shown to exist. `WalkExists` and `HoldsExists` show it from the
deepest level, or the last node, up: were there a level from which there is no such
function, take the deepest; one exists from the level below, and a level can always be
put before it (`WalkUp`, `HoldsUp`). Then `WalkBears`: at each level and node the walk
has an error or the node's truth, by the deepest level at which this fails, and
`CombineBears` for the one step. The depth limit gives errors, which claim nothing.

The threshold is positive, as the schema demands; with a negative one a denial could
be without a finding.

`GitHubProofs` proves, for any commits, listings, page sizes and bounds, and every
order of pushes, merge-ref jobs, blocks and withdrawn permissions:

* `ClientJudgesOneHead`, assuming `TopSHA`: `Spec => []OneJudgedHead`;
* `AbsenceIsReal`: `Spec => []AbsentIsAbsent`;
* `MergesArePinned`: `Spec => []MergeIsPinned`;
* `CompleteListingsAreWhole`: `Spec => []CompleteListsAll`.

`Inv` types the caches and says which stage belongs to which operation. On top of it
there are four invariants, one for each theorem. `Judged`: the pin is the first
read, and a call past its PR read names the pin's commit at every later request.
`Probed`: a ref that is read was proved by a probe, and is revoked since if the
permission is gone. `Armed`: a merge call that has re-read the pull request carries
the pinned target, and its heads are still those of the pull request unless a move
came after. The digest compared is the cached snapshot's, and the digest step is
entered only while mergeability is known; that is why the merge ref may lag and the
digest still be of the merged source. `Listed`: the pages read so far are the first
rows of the diff, counted and with every path of a rename named, so that an answer
marked complete, whose count the pull request confirms, has no row left to read.

`GitLabProofs` proves, for any rule sets, users, diffs and bounds:

* `ReadsFollowPin`: `Spec => []ReadsFollowThePin`;
* `EvidenceIsSound`: `Spec => []EvidenceIsForThePins`;
* `EnumerationsAreWhole`: `Spec => []EnumerationIsWhole`.

`Follow` says that the pin is the first heads read and that a file is only read when
there is one. `Evid` follows the evidence through the three requests it takes:
heads read since the last push are the present ones, approvals read for the present
heads are approvals of them where pushes reset them, and rows that are not stale
were compared with the pin. That enough people approved, and not only enough rows,
rests on `PeopleCount`: nobody approves twice, so the rows map one to one to people.
`Enumerated` says that the paths collected are those of the pages read, all of one
diff: the loop ends without the mark for an incomplete list only on the last page.

`ListingsProofs` proves, for any boards, page sizes, retry budgets and loads:

* `ListingsAreWhole`: `Spec => []ListingMissesNothing`;
* `ReportedStatesAreReal`: `Spec => []ReportedStateWasReal`;
* `ExtraSummariesHaveCauses`: `Spec => []ExtraSummaryHasACause`.

`ListInv` says that the pages read cover the rows they were cut from as long as
nothing was deleted, because rows are ordered by id and join at the end only; that
the resolution states read cover the threads behind the cursor; that the states a
thread had since the call began are in the history; and that every summary beyond
the first is paid for by a create that landed late or by a racing writer.

`ProvidersProofs` proves, for any providers, replies, checkouts and clocks:

* `ResolvedFactsAreVetted`: `Spec => []ResolvedIsVetted`;
* `BuiltinsReadTheGoverningFile`: `Spec => []BuiltinsReadGovernedFiles`;
* `ArmingChecksTheClock`: `Spec => ArmedOnLiveFacts`, an action property.

`HostInv` follows one call (`CallOK`: it works for the declaration it loaded and
goes the way of its kind, an executable only after it was verified) and the facts
bound so far (`FactOK`), which are those of the providers before the present one. The
walk up the tree stops at the deepest directory with the file, so the proof of
`BuiltinsReadGovernedFiles` rests on lemmas about least and greatest numbers and on
trees being closed under parents.

`CompareProofs` proves, for any suites, rules, allowlists and gate tables:

* `PassHidesNoDifferenceHolds`: `Spec => []PassHidesNoDifference`;
* `DroppedInterventionWasAcceptedHolds`: `Spec => []DroppedInterventionWasAccepted`.

`RunsInv` says that the cases compared so far have their records, each of its pinned
bundle, and that exit 0 comes after the last of them from gates that all pass, or from
a seed that passes. The rest is about one case. `SomeKindIsRecorded`: where the
decision changes and the record could be built, it has a delta, and each of its deltas
has a kind that some gate fails on; a case with equal decisions that is no error has
the same findings (`EqualDecision`). `PassAccepts`: a gate passes such a delta only if
the allowlist names it. For a dropped intervention, `DroppedHasKind` follows its own
identity through `classifyIdentityDelta` to a delta of its own rule and subject.

`ChangeProofs` proves, for any files, trees of any depth and any entry configuration:

* `NothingElseChangedHolds`: `Spec => []NothingElseChanged`;
* `DiffTellsAllHolds`: `Spec => []DiffTellsAll`;
* `EntryChangesAreTheEntriesHolds`: `Spec => []EntryChangesAreTheEntries`.

`ChangeInv` says that the class and the opacity of the set account for the files folded
so far, or for the list of the forge, and that an assembled set is what the configured
mode computes of the two documents. The other two properties are about trees. The walk
goes down only where both sides are mappings, so the danger is a node it never
reaches: `AllVisited` takes the shortest prefix of a pointer that a decided walk
could have missed and shows that the walk has visited it. So a decided diff has
every difference (`DecidedWalk`), replaying it gives the head (`ReplayGives`), and
folding moves neither loses nor doubles a pointer (`FoldedMoves`). An entry of a map
is a subtree, which is again a tree (`SubtreeIsTree`), and an index of a list by
identity that is not refused is one to one (`IndexSize`), so an entry is named exactly
when one of its values differs.

Assumptions. Those of `Reconcile`: requests are well formed, `Nil` is none of the
values, the switches are Boolean, the bounds natural. Those of `Run`: what
`buildDesired` builds is among the requests, `Nil` is no exit code. Those of
`Decision`: requests have their fields, rules and changes are finitely many. Those of
`GitHub` and `GitLab`: the kinds of commits are disjoint, the author is not the bot,
rules are sequences of a natural number and a set of users, a diff is a sequence.
Those of `Listings`: the rows of a board are ordered by id and hold at most one
summary of assent's own. Those of `Providers`: replies are of the kinds a transport
can return, a tree that has a file has its directories. `ConditionsAssumption`: a
condition is a tree and each of its leaves comes out true, false or as an error.
`ContentsAssumption`: what a parser returns is a finite tree in which only mappings
have children (`vnode`), and so is each element of a list. `GatesAssumption`: each
kind but explanation-only is in the `failOnKinds` of a gate whose default verdict is
not pass. ADR-0018 says so of the five gates; the schema requires the five, and leaves
their kinds to whoever writes the suite, so the theorems about `assent compare` hold
for a suite with such a table and for no other. `SeedAssumption`: a directory compare
has one bundle. TLC evaluates them in every run.

Some theorems have a hypothesis besides. `MergedTargetEvaluated` assumes
`AtomicMerge`, `SerializedMeansOneThread` assumes `Serialized`, `ClientJudgesOneHead`
assumes `TopSHA`; without them the statement is false, see `MergedTargetWasEvaluated`
and `OneJudgedHead` in the table of disagreements and the duplicates that overlapping
publishers make in `race`. `MergesArePermitted` and `RunImplementsGate` assume
`AtomicMerge` and `~HeadsReturn`; TLC finds a merge that was not permitted when either
is dropped from `run_gate`. `UndisturbedRescanSucceeds` assumes `Serialized`, and
without it the property fails once somebody else acts: `repair_stuck` is the
counterexample with a reviewer, and TLC finds one in `race` with `NumericIds = FALSE`,
and one with three publishers, five runs and a spoiled marker. So
`RacersDuplicatesAreRepaired`, the same property for publishers that race, has all
three excluded. `RacingRepairsKeepAChallenge` is about publishers that race with each
other and nobody else: a reviewer may resolve the challenge, a request for another
occurrence supersedes it, and ids without a number all compare as the largest.
`MergedTargetEvaluated` and `CappedPacksNeverApprove` state properties that no passing
run lists.

Only model-checked: the liveness properties, because fairness is out of the prover's
reach. Induction over data is too, as the library's induction theorems cannot be
instantiated here; where a proof needs it, on walks, trees and counts, it argues from
the least or the greatest counterexample instead.

## 5. Plan

1. `Listings` shown to implement an abstract listing, the atomic read of `Reconcile`
   while the board stands still.
2. `Capability`: the whole report and `ArmEligible`, once an adapter can grade
   `protected-pipeline-source`.
3. GitHub's `Resolve` and the refresh of the installation token beside `GitHub`.
4. The CEL leaf rules (cost budget, text-order guard) beside `Decision`; a run for
   `drivingFinding` once findings have an order.

## 6. Not modelled

* Text and formatting: render, marker text, canonical JSON, digests as strings, the
  printed reports of compare, source positions of changes.
* Parsing of YAML, JSON, HCL and CEL, and schema validation. What a parser makes of
  a file is an input of `Change`, what a schema refuses a status of a reply.
* `internal/forge/capability.go` and `precondition.go`: constants on both adapters
  today, so that only one verdict is reachable; `Run` takes any.
* `internal/forge/github/auth.go` (the installation token and its expiry),
  `resolve.go` (approvals on GitHub) and the variants of the merge answer in
  `merge.go`: a failed request of `GitHub`.
* Globs and `ValidateRouting`, the typed projection of entries, byte and time limits
  of transports, jitter of retries.
* The offline commands lint, test (but for the change set it assembles), catalogue
  and doctor, flag parsing and adapter selection: sequential, without state.
