---------------------------- MODULE ListingsProps ----------------------------
(***************************************************************************)
(* What publication relies on when it reads a listing.                     *)
(***************************************************************************)
EXTENDS Listings

ListingDone == call.op = "ListBotThreads" /\ call.out = "ok"

(* A thread listing that returns is not a partial one: every bot thread    *)
(* that was there when it began and still is has been listed, unless a row *)
(* already served was deleted under the pages; and it lists the bot's own  *)
(* rows only (ListBotThreads: the page loop, its cap, the author filter).  *)
ListingMissesNothing ==
    ListingDone =>
        /\ \A r \in call.listed : r.own
        /\ ~past.removed => \A r \in ToSet(board) :
              (Mine(r) /\ r.id \in past.atStart) => \E x \in call.listed : x.id = r.id

(* The state reported with a thread is one it had during the call, read    *)
(* with it on GitLab and afterwards, through the GraphQL index, on GitHub; *)
(* a whole answer was received and no thread was deleted in between.       *)
ReportedStateWasReal ==
    (ListingDone /\ ~past.removed /\ ~past.partial) =>
        \A r \in call.listed : IF r.id \in call.states THEN r.id \in past.wasResolved
                                                     ELSE r.id \in past.wasOpen

(* A second summary note has a cause: a create that landed after its call  *)
(* had given up, or a deletion that moved the note past the pages read     *)
(* (UpsertComment; writes are sent once, reads up to MaxAttempts times).   *)
ExtraSummaryHasACause ==
    kind = "notes" =>
        Cardinality({r \in ToSet(board) : Mine(r)}) <= 1 + past.late + past.raced

(* withResolutionStates: an unreadable resolution state is never reported  *)
(* as an open thread.                                                      *)
UnreadableIsNotOpen ==
    (ListingDone /\ ~past.removed) =>
        \A r \in call.listed : r.id \notin call.states => r.id \in past.wasOpen
==============================================================================
