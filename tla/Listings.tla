------------------------------ MODULE Listings ------------------------------
(***************************************************************************)
(* The paged listings both forge adapters publish from, under the          *)
(* transport policy of their `do`: ListBotThreads (GitHub adds a GraphQL   *)
(* read of the resolution states), ListBotNotes, UpsertComment on top of   *)
(* it, and GitHub's ResolveThread.  Every page is a request of its own and *)
(* people comment, delete and resolve between two pages.  A GET is tried   *)
(* MaxAttempts times; a write is sent once, and one that times out at the  *)
(* client may still land after the call has returned.                      *)
(*                                                                         *)
(* `board` is the list the forge pages through: the discussions or review  *)
(* comments when `kind` is "threads", the notes when it is "notes".        *)
(***************************************************************************)
EXTENDS Integers, FiniteSets, SequencesExt

CONSTANTS
    PerPage, MaxListPages, MaxAttempts,   \* listPerPage, maxListPages, retry.MaxAttempts
    InitialBoards,   \* the boards a run may start on, per kind
    MaxRows, MaxCalls, MaxEvents, MaxFaults   \* bounds

ASSUME ListingAssumption ==
    /\ {PerPage, MaxListPages, MaxAttempts} \subseteq Nat \ {0}
    /\ {MaxRows, MaxCalls, MaxEvents, MaxFaults} \subseteq Nat

VARIABLES
    adapter, kind,   \* which adapter, which board: fixed
    board,           \* the forge: rows in the order they are served
    flight,          \* creates the client gave up on that have not landed
    call,            \* the port call in progress, or the last one
    past             \* history and bounds

vars == <<adapter, kind, board, flight, call, past>>

(* A row: who wrote it, whether its marker parses, whether it is resolved. *)
Row == [id : Nat, own : BOOLEAN, legible : BOOLEAN, resolved : BOOLEAN]
Ids(rows) == {rows[i].id : i \in DOMAIN rows}
ResolvedIds(rows) == {r.id : r \in {x \in rows : x.resolved}}
OpenIds(rows) == {r.id : r \in {x \in rows : ~x.resolved}}
Mine(r) == r.own /\ r.legible

(* The rows are served in the order of their ids, and assent found at most *)
(* one summary of its own when it came.                                    *)
ASSUME BoardsAssumption ==
    \A k \in {"threads", "notes"} : \A b \in InitialBoards[k] :
        /\ b \in Seq(Row) /\ \A i \in DOMAIN b : b[i].id = i
        /\ k = "notes" => Cardinality({r \in ToSet(b) : Mine(r)}) <= 1

NoCall == [op |-> "none", at |-> "done", page |-> 1, attempt |-> 1, cursor |-> 0,
           listed |-> {}, states |-> {}, indexed |-> {}, thread |-> 0, out |-> "none"]

Init ==
    /\ adapter \in {"github", "gitlab"}
    /\ kind \in {"threads", "notes"}
    /\ board \in InitialBoards[kind]
    /\ flight = 0
    /\ call = NoCall
    /\ past = [next |-> Len(board) + 1, calls |-> 0, events |-> 0, faults |-> 0,
               atStart |-> {}, wasOpen |-> {}, wasResolved |-> {}, removed |-> FALSE, partial |-> FALSE,
               late |-> 0, raced |-> 0]

-----------------------------------------------------------------------------
(* The board as people, and late writes, change it.                        *)
Append1(r) == Append(board, [r EXCEPT !.id = past.next])
OwnRow == [id |-> 0, own |-> TRUE, legible |-> TRUE, resolved |-> FALSE]
Running(stage) == call.at = stage
Busy == ~Running("done")

Event(new, p) ==
    /\ past.events < MaxEvents
    /\ board' = new
    /\ past' = [p EXCEPT !.events = @ + 1]
    /\ UNCHANGED <<adapter, kind, flight, call>>

(* Anyone may paste a well-formed marker.                                  *)
CommentPosted ==
    /\ past.next <= MaxRows
    /\ Event(Append1([OwnRow EXCEPT !.own = FALSE]),
             [past EXCEPT !.next = @ + 1, !.wasOpen = @ \union {past.next}])

(* A deletion shifts the rows the pages still to be read are cut from.     *)
CommentDeleted(i) ==
    Event(RemoveAt(board, i),
          [past EXCEPT !.removed = @ \/ (Busy /\ (Running("page") => i <= (call.page - 1) * PerPage))])

MarkerCorrupted(i) == Mine(board[i]) /\ Event([board EXCEPT ![i].legible = FALSE], past)

ThreadToggled(i) ==
    /\ kind = "threads"
    /\ Event([board EXCEPT ![i].resolved = ~@],
             IF board[i].resolved THEN [past EXCEPT !.wasOpen = @ \union {board[i].id}]
                                  ELSE [past EXCEPT !.wasResolved = @ \union {board[i].id}])

LateWriteLands ==
    /\ flight > 0 /\ past.next <= MaxRows
    /\ board' = Append1(OwnRow)
    /\ flight' = flight - 1
    /\ past' = [past EXCEPT !.next = @ + 1, !.late = @ + 1]
    /\ UNCHANGED <<adapter, kind, call>>

-----------------------------------------------------------------------------
Return(c, result) == [c EXCEPT !.at = "done", !.out = result]
Stay == UNCHANGED <<adapter, kind, board, flight>>

Begin(op, stage, id) ==
    /\ ~Busy /\ past.calls < MaxCalls
    /\ call' = [NoCall EXCEPT !.op = op, !.at = stage, !.thread = id]
    /\ past' = [past EXCEPT !.calls = @ + 1, !.removed = FALSE, !.partial = FALSE, !.atStart = Ids(board),
                   !.wasOpen = OpenIds(ToSet(board)),
                   !.wasResolved = ResolvedIds(ToSet(board))]
    /\ Stay

BeginList == Begin(IF kind = "threads" THEN "ListBotThreads" ELSE "UpsertComment", "page", 0)

BeginResolve(id) == kind = "threads" /\ adapter = "github" /\ Begin("ResolveThread", "index", id)

(* do, transient: a transport failure, a 429 or a 5xx of a GET is tried    *)
(* again until the budget is spent; the GraphQL reads are POSTs.           *)
Retryable == Running("page")

TransientFailure ==
    /\ Running("page") \/ Running("index")
    /\ past.faults < MaxFaults
    /\ past' = [past EXCEPT !.faults = @ + 1]
    /\ call' = IF Retryable /\ call.attempt < MaxAttempts
               THEN [call EXCEPT !.attempt = @ + 1]
               ELSE Return(call, "err")
    /\ Stay

(* A 403 or 404, a body that does not decode or is over the limit.         *)
Refused ==
    /\ Busy
    /\ call' = Return(call, "err")
    /\ UNCHANGED past /\ Stay

-----------------------------------------------------------------------------
(* One page of a listing.  Rows of other authors and rows whose marker     *)
(* does not parse are passed over.                                         *)
PageOf(p) ==
    LET served == (p - 1) * PerPage
    IN SubSeq(board, served + 1, IF served + PerPage <= Len(board) THEN served + PerPage ELSE Len(board))

BotRows(rows) == {r \in ToSet(rows) : Mine(r)}

(* Defect: a page with no bot row on it ends the listing.                  *)
NothingOfMine(rows) == BotRows(rows) = {} \/ Len(rows) < PerPage

GitHubLastPage(rows) == Len(rows) < PerPage
GitLabLastPage(rows) == rows = <<>> \/ Len(rows) < PerPage
LastPage(rows) == IF adapter = "github" THEN GitHubLastPage(rows) ELSE GitLabLastPage(rows)

(* Where a finished listing goes: the GitHub thread listing still owes the *)
(* resolution states (an empty one does not), UpsertComment its write.     *)
Finished(c) ==
    IF c.op = "UpsertComment" THEN [c EXCEPT !.at = "write"]
    ELSE IF adapter = "github" /\ c.listed # {} THEN [c EXCEPT !.at = "index", !.page = 1]
    ELSE Return([c EXCEPT !.states = ResolvedIds(c.listed)], "ok")

ListPage ==
    LET rows == PageOf(call.page)
        c == [call EXCEPT !.listed = @ \union BotRows(rows), !.page = @ + 1, !.attempt = 1]
    IN /\ Running("page")
       /\ call' = IF LastPage(rows) THEN Finished(c)
                  ELSE IF call.page = MaxListPages THEN Return(c, "err")
                  ELSE c
       /\ past' = IF LastPage(rows) /\ past.removed /\ kind = "notes"
                  THEN [past EXCEPT !.raced = @ + 1] ELSE past
       /\ Stay

ListBotThreads == kind = "threads" /\ ListPage
ListBotNotes == kind = "notes" /\ ListPage

(* Defect: only the first page of the review threads is read.              *)
FirstPageOnly == FALSE

(* reviewThreadIndex: cursor pages of every thread with its isResolved.    *)
After(cursor) ==
    LET later == {i \in DOMAIN board : board[i].id > cursor}
    IN IF later = {} THEN <<>> ELSE SubSeq(board, Min(later), Len(board))
IndexRows == IF Len(After(call.cursor)) <= PerPage THEN After(call.cursor)
             ELSE SubSeq(After(call.cursor), 1, PerPage)
HasNextPage == Len(After(call.cursor)) > PerPage

Indexed(c) ==
    IF c.op = "ListBotThreads" THEN Return(c, "ok")
    ELSE IF c.thread \in c.indexed THEN [c EXCEPT !.at = "mutate"]
    ELSE Return(c, "err")              \* no thread carries the comment

ReviewThreadIndex ==
    LET rows == IndexRows
        c == [call EXCEPT !.states = @ \union ResolvedIds(ToSet(rows)),
                          !.indexed = @ \union Ids(rows),
                          !.cursor = IF rows = <<>> THEN @ ELSE Last(rows).id, !.page = @ + 1]
    IN /\ Running("index")
       /\ call' = IF ~HasNextPage THEN Indexed(c)
                  ELSE IF call.page = MaxListPages THEN Return(c, "err")
                  ELSE c
       /\ UNCHANGED past /\ Stay

(* gqlDo: errors count only when the whole of `data` is null; an answer    *)
(* with errors and a null pullRequest reads as the last page of no threads.*)
PartialGraphQL ==
    /\ Running("index") /\ past.faults < MaxFaults
    /\ call' = Indexed(call)
    /\ past' = [past EXCEPT !.partial = TRUE, !.faults = @ + 1]
    /\ Stay

-----------------------------------------------------------------------------
(* ResolveThread's mutation; "already resolved" is success.                *)
ResolveReviewThread ==
    /\ Running("mutate")
    /\ \E result \in {"ok", "err"} : call' = Return(call, result)
    /\ board' = [i \in DOMAIN board |->
                    IF board[i].id = call.thread THEN [board[i] EXCEPT !.resolved = TRUE] ELSE board[i]]
    /\ past' = [past EXCEPT !.wasResolved = @ \union {call.thread}]
    /\ UNCHANGED <<adapter, kind, flight>>

(* UpsertComment: edit the first summary listed, or create one.  The POST  *)
(* takes effect, or is refused, or times out and may land later.           *)
EditNote ==
    /\ Running("write") /\ call.listed # {}
    /\ \E result \in {"ok", "err"} : call' = Return(call, result)
    /\ UNCHANGED past /\ Stay

CreateNote ==
    /\ Running("write") /\ call.listed = {} /\ past.next <= MaxRows
    /\ \E result \in {"ok", "err"} : call' = Return(call, result)
    /\ board' = Append1(OwnRow)
    /\ past' = [past EXCEPT !.next = @ + 1]
    /\ UNCHANGED <<adapter, kind, flight>>

(* Defect: a create whose response was lost is sent again.                 *)
CreateRetried ==
    /\ Running("write") /\ call.listed = {} /\ past.next <= MaxRows
    /\ past.faults < MaxFaults
    /\ board' = Append1(OwnRow)
    /\ past' = [past EXCEPT !.faults = @ + 1, !.next = @ + 1]
    /\ UNCHANGED <<adapter, kind, flight, call>>

CreateTimesOut ==
    /\ Running("write") /\ call.listed = {}
    /\ past.faults < MaxFaults
    /\ past' = [past EXCEPT !.faults = @ + 1]
    /\ call' = Return(call, "err")
    /\ flight' = flight + 1
    /\ UNCHANGED <<adapter, kind, board>>

-----------------------------------------------------------------------------
ForgeEvents ==
    \/ CommentPosted
    \/ \E i \in DOMAIN board : CommentDeleted(i) \/ MarkerCorrupted(i) \/ ThreadToggled(i)
    \/ LateWriteLands

CallSteps ==
    \/ ListBotThreads \/ ListBotNotes \/ ReviewThreadIndex \/ PartialGraphQL \/ ResolveReviewThread
    \/ EditNote \/ CreateNote \/ CreateTimesOut
    \/ TransientFailure \/ Refused

Next ==
    \/ ForgeEvents
    \/ BeginList
    \/ \E id \in Ids(board) : BeginResolve(id)
    \/ CallSteps

Spec == Init /\ [][Next]_vars
==============================================================================
