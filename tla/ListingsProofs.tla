--------------------------- MODULE ListingsProofs ----------------------------
(***************************************************************************)
(* What a paged listing returns while people write, delete and resolve     *)
(* between its pages, for every board, page size and number of faults.     *)
(***************************************************************************)
EXTENDS ListingsProps, TLAPS, FiniteSetTheorems, NaturalsInduction, WellFoundedInduction

-----------------------------------------------------------------------------
(* The inductive invariant.                                                *)

Operations == {"none", "ListBotThreads", "UpsertComment", "ResolveThread"}
Stages == {"page", "index", "write", "mutate", "done"}
Call == [op : Operations, at : Stages, page : Nat, attempt : Nat, cursor : Nat,
         listed : SUBSET Row, states : SUBSET Nat, indexed : SUBSET Nat, thread : Nat,
         out : {"none", "ok", "err"}]
Past == [next : Nat, calls : Nat, events : Nat, faults : Nat, atStart : SUBSET Nat,
         wasOpen : SUBSET Nat, wasResolved : SUBSET Nat, removed : BOOLEAN, partial : BOOLEAN,
         late : Nat, raced : Nat]

(* Every variable holds a value of its type, and the operations and stages *)
(* go with the kind of the board.                                          *)
TypeOK ==
    /\ adapter \in {"github", "gitlab"} /\ kind \in {"threads", "notes"}
    /\ board \in Seq(Row) /\ flight \in Nat /\ call \in Call /\ past \in Past
    /\ kind = "threads" => flight = 0 /\ call.at # "write" /\ call.op # "UpsertComment"
    /\ kind = "notes" => call.at \notin {"index", "mutate"}
                         /\ call.op \in {"none", "UpsertComment"}
    /\ call.op = "none" => call.at = "done"
    /\ call.at = "mutate" => call.op = "ResolveThread"
    /\ call.at # "done" => call.out = "none"

(* The rows are in the order of their ids, and a new id is a new one.      *)
Ordered ==
    /\ \A i, j \in DOMAIN board : i < j => board[i].id < board[j].id
    /\ \A i \in DOMAIN board : 0 < board[i].id /\ board[i].id < past.next
    /\ 0 < past.next
    /\ \A n \in past.atStart : n < past.next
    /\ call.cursor < past.next

(* Since the call began, every state of a thread is in the history.        *)
Seen(r, p) == IF r.resolved THEN r.id \in p.wasResolved ELSE r.id \in p.wasOpen
History ==
    kind = "threads" /\ call.op # "none" =>
        /\ \A i \in DOMAIN board : Seen(board[i], past)
        /\ \A r \in call.listed : Seen(r, past)

Has(rows, n) == \E r \in rows : r.id = n
Served == (call.page - 1) * PerPage

(* The pages read so far cover the rows they were cut from.                *)
Paging ==
    call.at = "page" =>
        /\ call.page > 0 /\ call.states = {} /\ call.indexed = {} /\ call.cursor = 0
        /\ ~past.removed =>
              /\ Served <= Len(board)
              /\ \A i \in 1..Served : Mine(board[i]) => Has(call.listed, board[i].id)
              /\ \A r \in call.listed : \E i \in 1..Served : board[i].id = r.id

(* A finished listing has them all.                                        *)
Whole ==
    /\ \A r \in call.listed : r.own
    /\ (call.op = "ListBotThreads" /\ call.at # "page" /\ call.out # "err" /\ ~past.removed) =>
          \A i \in DOMAIN board :
              Mine(board[i]) /\ board[i].id \in past.atStart => Has(call.listed, board[i].id)

(* The resolution states read so far are those of the threads behind the   *)
(* cursor.                                                                 *)
Indexing ==
    /\ call.op = "ListBotThreads" => call.states \subseteq past.wasResolved
    /\ (call.op = "ListBotThreads" /\ call.at = "index") =>
          /\ \A n \in call.indexed : n \in call.states \/ n \in past.wasOpen
          /\ \A i \in DOMAIN board : board[i].id <= call.cursor => board[i].id \in call.indexed
          /\ ~past.removed => \A r \in call.listed : \E i \in DOMAIN board : board[i].id = r.id

Summaries == {r \in ToSet(board) : Mine(r)}
Notes ==
    kind = "notes" =>
        /\ Cardinality(Summaries) <= 1 + past.late + past.raced
        /\ call.at = "write" /\ call.listed = {} => Cardinality(Summaries) <= past.late + past.raced

ListInv ==
    TypeOK /\ Ordered /\ History /\ Paging /\ Whole /\ Indexing /\ Notes /\ ReportedStateWasReal

-----------------------------------------------------------------------------
(* Sequences of rows.                                                      *)

(* A set of numbers has a least one.                                       *)
LEMMA Least ==
    ASSUME NEW S \in SUBSET Nat, S # {}
    PROVE  Min(S) \in S /\ \A j \in S : Min(S) <= j
<1>1. \E x \in S : \A y \in S : ~(<<y, x>> \in OpToRel(<, Nat))
  BY NatLessThanWellFounded, WFMin
<1>2. PICK x \in S : \A y \in S : ~(<<y, x>> \in OpToRel(<, Nat))
  BY <1>1
<1>3. ASSUME NEW y \in S PROVE x <= y
  <2>1. x \in Nat /\ y \in Nat /\ <<y, x>> \in Nat \X Nat
    OBVIOUS
  <2>2. ~(y < x)
    BY <1>2, <2>1 DEF OpToRel
  <2> QED
    BY <2>1, <2>2
<1> QED
  BY <1>3 DEF Min

(* Appending leaves the rows before.                                       *)
LEMMA Appended ==
    ASSUME NEW T, NEW s \in Seq(T), NEW r \in T
    PROVE  /\ Append(s, r) \in Seq(T) /\ Len(Append(s, r)) = Len(s) + 1
           /\ \A i \in 1..Len(s) : Append(s, r)[i] = s[i]
           /\ Append(s, r)[Len(s) + 1] = r
OBVIOUS

(* Removing a row moves those behind it up by one.                         *)
LEMMA Removal ==
    ASSUME NEW T, NEW s \in Seq(T), NEW i \in 1..Len(s)
    PROVE  /\ RemoveAt(s, i) \in Seq(T) /\ Len(RemoveAt(s, i)) = Len(s) - 1
           /\ \A j \in 1..Len(s) - 1 : RemoveAt(s, i)[j] = IF j < i THEN s[j] ELSE s[j + 1]
<1>1. SubSeq(s, 1, i - 1) \in Seq(T) /\ Len(SubSeq(s, 1, i - 1)) = i - 1
      /\ \A j \in 1..i - 1 : SubSeq(s, 1, i - 1)[j] = s[j]
  OBVIOUS
<1>2. SubSeq(s, i + 1, Len(s)) \in Seq(T) /\ Len(SubSeq(s, i + 1, Len(s))) = Len(s) - i
      /\ \A j \in 1..Len(s) - i : SubSeq(s, i + 1, Len(s))[j] = s[i + j]
  OBVIOUS
<1>3. ASSUME NEW a \in Seq(T), NEW b \in Seq(T), Len(a) = i - 1, Len(b) = Len(s) - i
      PROVE  /\ a \o b \in Seq(T) /\ Len(a \o b) = Len(s) - 1
             /\ \A j \in 1..Len(s) - 1 : (a \o b)[j] = IF j < i THEN a[j] ELSE b[j - i + 1]
  BY <1>3
<1>4. /\ RemoveAt(s, i) \in Seq(T) /\ Len(RemoveAt(s, i)) = Len(s) - 1
      /\ \A j \in 1..Len(s) - 1 : RemoveAt(s, i)[j] = IF j < i THEN SubSeq(s, 1, i - 1)[j]
                                                    ELSE SubSeq(s, i + 1, Len(s))[j - i + 1]
  BY <1>1, <1>2, <1>3 DEF RemoveAt
<1>5. ASSUME NEW j \in 1..Len(s) - 1 PROVE RemoveAt(s, i)[j] = IF j < i THEN s[j] ELSE s[j + 1]
  <2>1. CASE j < i
    <3>1. j \in 1..i - 1
      BY <2>1
    <3> QED
      BY <1>1, <1>4, <2>1, <3>1
  <2>2. CASE ~(j < i)
    <3>1. j - i + 1 \in 1..Len(s) - i /\ i + (j - i + 1) = j + 1
      BY <2>2
    <3> QED
      BY <1>2, <1>4, <2>2, <3>1
  <2> QED
    BY <2>1, <2>2
<1> QED
  BY <1>4, <1>5

(* The rows between two positions.                                         *)
LEMMA Cut ==
    ASSUME NEW T, NEW s \in Seq(T), NEW m \in Nat \ {0}, NEW n \in Nat, n <= Len(s), m <= n + 1
    PROVE  /\ SubSeq(s, m, n) \in Seq(T) /\ Len(SubSeq(s, m, n)) = n - m + 1
           /\ \A j \in 1..n - m + 1 : SubSeq(s, m, n)[j] = s[m + j - 1]
OBVIOUS

(* A board has finitely many rows.                                         *)
LEMMA RowsFinite ==
    ASSUME NEW T, NEW s \in Seq(T)
    PROVE  IsFiniteSet(ToSet(s))
<1> DEFINE f == [i \in 1..Len(s) |-> s[i]]
<1>1. f \in Surjection(1..Len(s), ToSet(s))
  BY DEF Surjection, ToSet
<1>2. IsFiniteSet(1..Len(s))
  BY FS_Interval
<1> HIDE DEF f
<1> QED
  BY <1>1, <1>2, FS_Surjection

(* A row on the board has a position.                                      *)
LEMMA Position ==
    ASSUME NEW T, NEW s \in Seq(T)
    PROVE  /\ DOMAIN s = 1..Len(s) /\ Len(s) \in Nat
           /\ \A r : r \in ToSet(s) <=> \E i \in 1..Len(s) : s[i] = r
BY DEF ToSet

(* Fewer summaries are not more, and a new row is one more.                *)
LEMMA Counted ==
    ASSUME NEW S, IsFiniteSet(S), NEW r, NEW U, U \subseteq S \union {r}
    PROVE  /\ Cardinality(S) \in Nat /\ Cardinality(U) \in Nat
           /\ Cardinality(U) <= Cardinality(S) + 1
           /\ U \subseteq S => Cardinality(U) <= Cardinality(S)
           /\ S = {} => Cardinality(S) = 0
<1>0. Cardinality(S) \in Nat
  BY FS_CardinalityType
<1>1. IsFiniteSet(S \union {r}) /\ Cardinality(S \union {r}) <= Cardinality(S) + 1
  <2>1. IsFiniteSet(S \union {r})
        /\ Cardinality(S \union {r}) = IF r \in S THEN Cardinality(S) ELSE Cardinality(S) + 1
    BY FS_AddElement
  <2> QED
    BY <1>0, <2>1
<1>2. IsFiniteSet(U) /\ Cardinality(U) <= Cardinality(S \union {r})
  BY <1>1, FS_Subset
<1>3. Cardinality(U) \in Nat /\ Cardinality(S \union {r}) \in Nat
  BY <1>1, <1>2, FS_CardinalityType
<1>4. U \subseteq S => Cardinality(U) <= Cardinality(S)
  BY FS_Subset
<1>5. S = {} => Cardinality(S) = 0
  BY FS_EmptySet
<1> QED
  BY <1>0, <1>1, <1>2, <1>3, <1>4, <1>5

-----------------------------------------------------------------------------
(* The board changes while the call waits.                                 *)

(* The history only grows.                                                 *)
Grows ==
    /\ past' \in Past /\ past.next <= past'.next /\ past'.atStart = past.atStart
    /\ past.wasOpen \subseteq past'.wasOpen /\ past.wasResolved \subseteq past'.wasResolved
    /\ past'.partial = past.partial /\ past'.raced = past.raced /\ past.late <= past'.late
    /\ past.removed => past'.removed
Fixed == adapter' = adapter /\ kind' = kind
Waits == Fixed /\ call' = call /\ flight' \in Nat /\ (kind = "threads" => flight' = 0)

(* The types of the fields.                                                *)
LEMMA Fields ==
    ASSUME TypeOK
    PROVE  /\ DOMAIN board = 1..Len(board) /\ Len(board) \in Nat
           /\ \A i \in 1..Len(board) : board[i] \in Row /\ board[i].id \in Nat
           /\ call.page \in Nat /\ call.cursor \in Nat /\ call.listed \subseteq Row
           /\ call.states \subseteq Nat /\ call.indexed \subseteq Nat
           /\ past.next \in Nat /\ past.late \in Nat /\ past.raced \in Nat
           /\ PerPage \in Nat /\ PerPage > 0
           /\ Served \in Int /\ (call.page > 0 => Served \in Nat)
           /\ IsFiniteSet(Summaries) /\ Cardinality(Summaries) \in Nat
<1>1. /\ DOMAIN board = 1..Len(board) /\ Len(board) \in Nat
      /\ \A i \in 1..Len(board) : board[i] \in Row
  BY DEF TypeOK
<1>2. \A r \in Row : r.id \in Nat
  BY DEF Row
<1>3. /\ call.page \in Nat /\ call.cursor \in Nat /\ call.listed \subseteq Row
      /\ call.states \subseteq Nat /\ call.indexed \subseteq Nat
  BY DEF TypeOK, Call
<1>4. past.next \in Nat /\ past.late \in Nat /\ past.raced \in Nat
  BY DEF TypeOK, Past
<1>5. PerPage \in Nat /\ PerPage > 0
  BY ListingAssumption
<1>6. Served \in Int /\ (call.page > 0 => Served \in Nat)
  BY <1>3, <1>5 DEF Served
<1>7. IsFiniteSet(Summaries)
  <2>1. IsFiniteSet(ToSet(board)) /\ Summaries \in SUBSET ToSet(board)
    BY RowsFinite DEF TypeOK, Summaries
  <2> QED
    BY <2>1, FS_Subset
<1>8. Cardinality(Summaries) \in Nat
  BY <1>7, FS_CardinalityType
<1> QED
  BY <1>1, <1>2, <1>3, <1>4, <1>5, <1>6, <1>7, <1>8

(* What a growing history keeps, whatever happens to the board.            *)
LEMMA Kept ==
    ASSUME ListInv, Waits, Grows, board' \in Seq(Row)
    PROVE  /\ TypeOK' /\ ReportedStateWasReal'
           /\ \A n \in past'.atStart : n < past'.next
           /\ call'.cursor < past'.next /\ 0 < past'.next
           /\ \A r : Seen(r, past) => Seen(r, past')
<1>1. TypeOK'
  BY DEF ListInv, TypeOK, Waits, Fixed, Grows
<1>2. ReportedStateWasReal'
  BY DEF ListInv, ReportedStateWasReal, ListingDone, Waits, Grows
<1>3. past.next \in Nat /\ past'.next \in Nat /\ call.cursor \in Nat
  BY Fields DEF ListInv, Grows, Past
<1>4. \A n \in past'.atStart : n < past'.next
  <2>1. past'.atStart \subseteq Nat
    BY DEF Grows, Past
  <2> QED
    BY <1>3, <2>1 DEF ListInv, Ordered, Grows
<1>5. call'.cursor < past'.next /\ 0 < past'.next
  BY <1>3 DEF ListInv, Ordered, Waits, Grows
<1> QED
  BY <1>1, <1>2, <1>4, <1>5 DEF Grows, Seen

(* A row is added at the end, with a new id.                               *)
LEMMA RowAdded ==
    ASSUME ListInv, Waits, Grows, NEW r \in Row, r.id = past.next,
           board' = Append(board, r), past'.next = past.next + 1,
           kind = "threads" => Seen(r, past'),
           Mine(r) => kind = "notes" /\ past'.late = past.late + 1 
    PROVE  ListInv'
<1>1. /\ board' \in Seq(Row) /\ Len(board') = Len(board) + 1 /\ DOMAIN board' = 1..Len(board) + 1
      /\ \A i \in 1..Len(board) : board'[i] = board[i]
      /\ board'[Len(board) + 1] = r
  BY Appended DEF ListInv, TypeOK
<1>2. /\ DOMAIN board = 1..Len(board) /\ Len(board) \in Nat
      /\ \A i \in 1..Len(board) : board[i].id \in Nat
      /\ past.next \in Nat
  BY Fields DEF ListInv
<1>3. \A i \in 1..Len(board) + 1 : i \in 1..Len(board) \/ i = Len(board) + 1
  BY <1>2
<1>4. ListInv /\ TypeOK' /\ ReportedStateWasReal'
  BY <1>1, Kept
<1>5. Ordered'
  <2>1. \A i, j \in DOMAIN board' : i < j => board'[i].id < board'[j].id
    <3> SUFFICES ASSUME NEW i \in 1..Len(board) + 1, NEW j \in 1..Len(board) + 1, i < j
                 PROVE  board'[i].id < board'[j].id
      BY <1>1
    <3>1. i \in 1..Len(board) /\ board[i].id < past.next /\ board'[i] = board[i]
      BY <1>1, <1>2 DEF ListInv, Ordered
    <3>2. CASE j = Len(board) + 1
      BY <1>1, <1>2, <3>1, <3>2
    <3>3. CASE j \in 1..Len(board)
      BY <1>1, <1>2, <3>1, <3>3 DEF ListInv, Ordered
    <3> QED
      BY <1>3, <3>2, <3>3
  <2>2. \A i \in DOMAIN board' : 0 < board'[i].id /\ board'[i].id < past'.next
    <3> SUFFICES ASSUME NEW i \in 1..Len(board) + 1
                 PROVE  0 < board'[i].id /\ board'[i].id < past.next + 1
      BY <1>1
    <3>1. CASE i = Len(board) + 1
      BY <1>1, <1>2, <3>1 DEF ListInv, Ordered
    <3>2. CASE i \in 1..Len(board)
      <4>1. 0 < board[i].id /\ board[i].id < past.next /\ board'[i] = board[i] /\ board[i].id \in Nat
        BY <1>1, <1>2, <3>2 DEF ListInv, Ordered
      <4> QED
        BY <1>2, <4>1
    <3> QED
      BY <1>3, <3>1, <3>2
  <2> QED
    BY <1>1, <2>1, <2>2, Kept DEF Ordered
<1>6. History'
  <2>1. ASSUME kind = "threads" /\ call.op # "none"
        PROVE  /\ \A i \in 1..Len(board) + 1 : Seen(board'[i], past')
               /\ \A x \in call.listed : Seen(x, past')
    <3>1. /\ \A i \in DOMAIN board : Seen(board[i], past)
          /\ \A x \in call.listed : Seen(x, past)
      BY <2>1 DEF ListInv, History
    <3>2. \A x : Seen(x, past) => Seen(x, past')
      BY <1>1, Kept
    <3> QED
      BY <1>1, <1>2, <1>3, <2>1, <3>1, <3>2
  <2> QED
    BY <1>1, <2>1 DEF History, Waits, Fixed
<1>7. Paging'
  <2>1. Served' = Served
    BY DEF Served, Waits
  <2>2. ASSUME call.at = "page", ~past'.removed
        PROVE  /\ Served <= Len(board) + 1
               /\ \A i \in 1..Served : Mine(board'[i]) => Has(call.listed, board'[i].id)
               /\ \A x \in call.listed : \E i \in 1..Served : board'[i].id = x.id
    <3>1. /\ Served <= Len(board) /\ call.page > 0
          /\ \A i \in 1..Served : Mine(board[i]) => Has(call.listed, board[i].id)
          /\ \A x \in call.listed : \E i \in 1..Served : board[i].id = x.id
      BY <2>2 DEF ListInv, Paging, Grows
    <3>2. Served \in Nat
      BY <3>1, Fields DEF ListInv
    <3>3. \A i \in 1..Served : board'[i] = board[i]
      BY <1>1, <1>2, <3>1, <3>2
    <3> QED
      BY <1>2, <3>1, <3>2, <3>3
  <2> QED
    BY <1>1, <2>1, <2>2 DEF Paging, ListInv, Waits, Has
<1>8. Whole' /\ Indexing'
  <2>1. past.next \notin past.atStart /\ ~(past.next <= call.cursor)
    BY <1>2, Fields DEF ListInv, Ordered
  <2>2. \A x : (\E i \in DOMAIN board : board[i].id = x) => \E i \in DOMAIN board' : board'[i].id = x
    BY <1>1, <1>2
  <2>3. Whole'
    <3>1. \A x \in call.listed : x.own
      BY DEF ListInv, Whole
    <3>2. ASSUME call.op = "ListBotThreads" /\ call.at # "page" /\ call.out # "err" /\ ~past'.removed,
                 NEW i \in 1..Len(board) + 1, Mine(board'[i]), board'[i].id \in past.atStart
          PROVE  Has(call.listed, board'[i].id)
      BY <1>1, <1>2, <1>3, <2>1, <3>2 DEF ListInv, Whole, Grows
    <3> QED
      BY <1>1, <3>1, <3>2 DEF Whole, Waits, Grows, Has
  <2>4. Indexing'
    <3>1. call.op = "ListBotThreads" => call.states \subseteq past'.wasResolved
      BY DEF ListInv, Indexing, Grows
    <3>2. ASSUME call.op = "ListBotThreads", call.at = "index"
          PROVE  /\ \A n \in call.indexed : n \in call.states \/ n \in past'.wasOpen
                 /\ \A i \in 1..Len(board) + 1 : board'[i].id <= call.cursor => board'[i].id \in call.indexed
                 /\ ~past'.removed => \A x \in call.listed : \E i \in DOMAIN board' : board'[i].id = x.id
      BY <1>1, <1>2, <1>3, <2>1, <2>2, <3>2 DEF ListInv, Indexing, Grows
    <3> QED
      BY <1>1, <3>1, <3>2 DEF Indexing, Waits
  <2> QED
    BY <2>3, <2>4
<1>9. Notes'
  <2>1. Summaries' \subseteq Summaries \union {r} /\ (~Mine(r) => Summaries' \subseteq Summaries)
    BY <1>1, <1>2, <1>3 DEF Summaries, ToSet
  <2>2. /\ Cardinality(Summaries) \in Nat /\ Cardinality(Summaries') \in Nat
        /\ Cardinality(Summaries') <= Cardinality(Summaries) + 1
        /\ ~Mine(r) => Cardinality(Summaries') <= Cardinality(Summaries)
    BY <2>1, Fields, Counted DEF ListInv
  <2>3. past.late \in Nat /\ past'.late \in Nat /\ past.raced \in Nat
    BY Fields DEF ListInv, Grows, Past
  <2>4. Cardinality(Summaries') <= Cardinality(Summaries) + past'.late - past.late
    BY <2>2, <2>3 DEF Grows
  <2>5. PICK m \in Nat, n \in Nat : m = Cardinality(Summaries) /\ n = Cardinality(Summaries')
    BY <2>2
  <2>6. n <= m + past'.late - past.late
    BY <2>4, <2>5
  <2>7. kind = "notes" => /\ m <= 1 + past.late + past.raced
                          /\ call.at = "write" /\ call.listed = {} => m <= past.late + past.raced
    BY <2>5 DEF ListInv, Notes
  <2>8. kind = "notes" => /\ n <= 1 + past'.late + past'.raced
                          /\ call.at = "write" /\ call.listed = {} => n <= past'.late + past'.raced
    BY <2>3, <2>6, <2>7 DEF Grows
  <2> QED
    BY <2>5, <2>8 DEF Notes, Waits, Fixed
<1> QED
  BY <1>4, <1>5, <1>6, <1>7, <1>8, <1>9 DEF ListInv

(* No summary was added.                                                   *)
LEMMA NoNewSummary ==
    ASSUME ListInv, Waits, Grows, Summaries' \subseteq Summaries
    PROVE  Notes'
<1>1. /\ Cardinality(Summaries) \in Nat /\ Cardinality(Summaries') \in Nat
      /\ Cardinality(Summaries') <= Cardinality(Summaries)
  BY Fields, Counted DEF ListInv
<1>2. past.late \in Nat /\ past'.late \in Nat /\ past.raced \in Nat
  BY Fields DEF ListInv, Grows, Past
<1>3. PICK m \in Nat, n \in Nat : m = Cardinality(Summaries) /\ n = Cardinality(Summaries')
  BY <1>1
<1>4. kind = "notes" => /\ m <= 1 + past.late + past.raced
                        /\ call.at = "write" /\ call.listed = {} => m <= past.late + past.raced
  BY <1>3 DEF ListInv, Notes
<1>5. n <= m
  BY <1>1, <1>3
<1>6. kind = "notes" => /\ n <= 1 + past'.late + past'.raced
                        /\ call.at = "write" /\ call.listed = {} => n <= past'.late + past'.raced
  BY <1>2, <1>4, <1>5 DEF Grows
<1> QED
  BY <1>3, <1>6 DEF Notes, Waits, Fixed

(* A row is deleted: behind the pages read, or it is in the history.       *)
LEMMA RowRemoved ==
    ASSUME ListInv, Waits, Grows, NEW i \in DOMAIN board, board' = RemoveAt(board, i),
           past'.next = past.next, past'.wasOpen = past.wasOpen,
           past'.wasResolved = past.wasResolved, past'.late = past.late,
           call.at # "done" /\ call.at # "page" => past'.removed,
           call.at = "page" /\ i <= Served => past'.removed
    PROVE  ListInv'
<1>1. /\ DOMAIN board = 1..Len(board) /\ Len(board) \in Nat
      /\ \A j \in 1..Len(board) : board[j].id \in Nat
      /\ past.next \in Nat
  BY Fields DEF ListInv
<1>2. /\ board' \in Seq(Row) /\ Len(board') = Len(board) - 1 /\ DOMAIN board' = 1..Len(board) - 1
      /\ \A j \in 1..Len(board) - 1 : board'[j] = IF j < i THEN board[j] ELSE board[j + 1]
  <2>1. board \in Seq(Row) /\ i \in 1..Len(board)
    BY <1>1 DEF ListInv, TypeOK
  <2>2. /\ RemoveAt(board, i) \in Seq(Row) /\ Len(RemoveAt(board, i)) = Len(board) - 1
        /\ \A j \in 1..Len(board) - 1 :
              RemoveAt(board, i)[j] = IF j < i THEN board[j] ELSE board[j + 1]
    BY <2>1, Removal
  <2>3. board' \in Seq(Row) /\ Len(board') = Len(board) - 1
    BY <2>2
  <2>4. DOMAIN board' = 1..Len(board) - 1
    BY <2>3
  <2> QED
    BY <2>2, <2>3, <2>4
<1>3. \A j \in 1..Len(board) - 1 : /\ j < i => j \in 1..Len(board) /\ board'[j] = board[j]
                                   /\ ~(j < i) => j + 1 \in 1..Len(board) /\ board'[j] = board[j + 1]
  BY <1>1, <1>2
<1>4. \A j \in 1..Len(board) - 1 : \E k \in 1..Len(board) : board'[j] = board[k]
  BY <1>3
<1>5. ListInv /\ TypeOK' /\ ReportedStateWasReal'
  BY <1>2, Kept
<1>6. Ordered'
  <2>1. ASSUME NEW j \in 1..Len(board) - 1, NEW k \in 1..Len(board) - 1, j < k
        PROVE  board'[j].id < board'[k].id
    <3>1. CASE k < i
      BY <1>1, <1>3, <2>1, <3>1 DEF ListInv, Ordered
    <3>2. CASE ~(k < i)
      <4>1. board'[k] = board[k + 1] /\ k + 1 \in 1..Len(board)
        BY <1>3, <3>2
      <4>2. PICK m \in 1..Len(board) : board'[j] = board[m] /\ m < k + 1
        BY <1>1, <1>3, <2>1
      <4> QED
        BY <1>1, <4>1, <4>2 DEF ListInv, Ordered
    <3> QED
      BY <3>1, <3>2
  <2>2. \A j \in 1..Len(board) - 1 : 0 < board'[j].id /\ board'[j].id < past'.next
    BY <1>1, <1>4 DEF ListInv, Ordered
  <2> QED
    BY <1>2, <2>1, <2>2, Kept DEF Ordered
<1>7. History'
  BY <1>1, <1>2, <1>4 DEF ListInv, History, Waits, Fixed, Seen
<1>8. Paging'
  <2>1. Served' = Served
    BY DEF Served, Waits
  <2>2. ASSUME call.at = "page", ~past'.removed
        PROVE  /\ Served <= Len(board) - 1
               /\ \A j \in 1..Served : Mine(board'[j]) => Has(call.listed, board'[j].id)
               /\ \A x \in call.listed : \E j \in 1..Served : board'[j].id = x.id
    <3>1. /\ Served <= Len(board) /\ call.page > 0
          /\ \A j \in 1..Served : Mine(board[j]) => Has(call.listed, board[j].id)
          /\ \A x \in call.listed : \E j \in 1..Served : board[j].id = x.id
      BY <2>2 DEF ListInv, Paging, Grows
    <3>2. Served \in Nat /\ ~(i <= Served)
      BY <2>2, <3>1, Fields DEF ListInv
    <3>3. \A j \in 1..Served : j < i /\ j \in 1..Len(board) - 1
      BY <1>1, <3>1, <3>2
    <3>4. \A j \in 1..Served : board'[j] = board[j]
      BY <1>3, <3>3
    <3>5. Served <= Len(board) - 1
      BY <1>1, <3>1, <3>2
    <3> QED
      BY <3>1, <3>4, <3>5
  <2> QED
    BY <1>2, <2>1, <2>2 DEF Paging, ListInv, Waits, Has
<1>9. Whole'
  <2>1. \A x \in call.listed : x.own
    BY DEF ListInv, Whole
  <2>2. ASSUME call.op = "ListBotThreads" /\ call.at # "page" /\ call.out # "err" /\ ~past'.removed,
               NEW j \in 1..Len(board) - 1, Mine(board'[j]), board'[j].id \in past.atStart
        PROVE  Has(call.listed, board'[j].id)
    BY <1>1, <1>4, <2>2 DEF ListInv, Whole, Grows
  <2> QED
    BY <1>2, <2>1, <2>2 DEF Whole, Waits, Grows, Has
<1>10. Indexing'
  <2>1. ASSUME call.op = "ListBotThreads", call.at = "index"
        PROVE  /\ \A n \in call.indexed : n \in call.states \/ n \in past'.wasOpen
               /\ \A j \in 1..Len(board) - 1 : board'[j].id <= call.cursor => board'[j].id \in call.indexed
    BY <1>1, <1>4, <2>1 DEF ListInv, Indexing, Grows
  <2> QED
    BY <1>2, <2>1 DEF ListInv, Indexing, Waits
<1>11. Notes'
  <2>1. Summaries' \subseteq Summaries
    BY <1>1, <1>2, <1>4 DEF Summaries, ToSet
  <2> QED
    BY <2>1, NoNewSummary
<1> QED
  BY <1>5, <1>6, <1>7, <1>8, <1>9, <1>10, <1>11 DEF ListInv

(* Rows change in place, and none becomes a summary.                       *)
Repainted(b) ==
    /\ b \in Seq(Row) /\ Len(b) = Len(board) /\ DOMAIN b = DOMAIN board
    /\ \A i \in DOMAIN board : b[i].id = board[i].id /\ (Mine(b[i]) => Mine(board[i]))
    /\ kind = "notes" => \A i \in DOMAIN board : Mine(b[i]) => b[i] = board[i]

(* What holds of the ids of a board holds of the repainted one.            *)
LEMMA RowsRepainted ==
    ASSUME ListInv, Waits, Grows, Repainted(board'), past'.next = past.next,
           kind = "threads" /\ call.op # "none" => \A i \in DOMAIN board : Seen(board'[i], past')
    PROVE  ListInv'
<1>1. /\ DOMAIN board = 1..Len(board) /\ Len(board) \in Nat
      /\ \A i \in 1..Len(board) : board'[i].id = board[i].id /\ board[i].id \in Nat
      /\ \A i \in 1..Len(board) : Mine(board'[i]) => Mine(board[i])
      /\ DOMAIN board' = 1..Len(board) /\ Len(board') = Len(board) /\ board' \in Seq(Row)
  BY Fields DEF ListInv, Repainted
<1>2. ListInv /\ TypeOK' /\ ReportedStateWasReal'
  BY <1>1, Kept
<1>3. Ordered'
  <2>1. \A i, j \in 1..Len(board) : i < j => board'[i].id < board'[j].id
    BY <1>1 DEF ListInv, Ordered
  <2>2. \A i \in 1..Len(board) : 0 < board'[i].id /\ board'[i].id < past'.next
    BY <1>1 DEF ListInv, Ordered
  <2> QED
    BY <1>1, <2>1, <2>2, Kept DEF Ordered
<1>4. History'
  BY <1>1, Kept DEF ListInv, History, Waits, Fixed
<1>5. Paging'
  <2>1. Served' = Served
    BY DEF Served, Waits
  <2>2. ASSUME call.at = "page", ~past'.removed
        PROVE  /\ Served <= Len(board)
               /\ \A j \in 1..Served : Mine(board'[j]) => Has(call.listed, board'[j].id)
               /\ \A x \in call.listed : \E j \in 1..Served : board'[j].id = x.id
    <3>1. /\ Served <= Len(board) /\ call.page > 0
          /\ \A j \in 1..Served : Mine(board[j]) => Has(call.listed, board[j].id)
          /\ \A x \in call.listed : \E j \in 1..Served : board[j].id = x.id
      BY <2>2 DEF ListInv, Paging, Grows
    <3>2. Served \in Nat
      BY <3>1, Fields DEF ListInv
    <3>3. \A j \in 1..Served : j \in 1..Len(board)
      BY <1>1, <3>1, <3>2
    <3>4. \A j \in 1..Served : board'[j].id = board[j].id /\ (Mine(board'[j]) => Mine(board[j]))
      BY <1>1, <3>3
    <3> QED
      BY <3>1, <3>4
  <2> QED
    BY <1>1, <2>1, <2>2 DEF Paging, ListInv, Waits, Has
<1>6. Whole'
  BY <1>1 DEF ListInv, Whole, Waits, Grows, Has
<1>7. Indexing'
  <2>1. ASSUME call.op = "ListBotThreads", call.at = "index"
        PROVE  /\ \A n \in call.indexed : n \in call.states \/ n \in past'.wasOpen
               /\ \A j \in 1..Len(board) : board'[j].id <= call.cursor => board'[j].id \in call.indexed
               /\ ~past'.removed => \A x \in call.listed : \E j \in DOMAIN board' : board'[j].id = x.id
    BY <1>1, <2>1 DEF ListInv, Indexing, Grows
  <2> QED
    BY <1>1, <2>1 DEF ListInv, Indexing, Waits, Grows
<1>8. Notes'
  <2>1. CASE kind = "notes"
    <3>1. Summaries' \subseteq Summaries
      BY <1>1, <2>1 DEF Summaries, ToSet, Repainted
    <3> QED
      BY <3>1, NoNewSummary
  <2>2. CASE kind # "notes"
    BY <2>2 DEF Notes, Waits, Fixed
  <2> QED
    BY <2>1, <2>2
<1> QED
  BY <1>2, <1>3, <1>4, <1>5, <1>6, <1>7, <1>8 DEF ListInv

(* Everything but the number of events is as in p.                         *)
SameHistory(q, p) ==
    /\ q.next = p.next /\ q.atStart = p.atStart /\ q.wasOpen = p.wasOpen
    /\ q.wasResolved = p.wasResolved /\ q.removed = p.removed /\ q.partial = p.partial
    /\ q.late = p.late /\ q.raced = p.raced

(* An event is counted.                                                    *)
LEMMA EventCounted ==
    ASSUME NEW p \in Past, NEW q, q = [p EXCEPT !.events = @ + 1]
    PROVE  q \in Past /\ SameHistory(q, p)
<1>1. PICK n \in Nat : n = p.events + 1
  BY DEF Past
<1>2. q = [p EXCEPT !.events = n]
  BY <1>1
<1> QED
  BY <1>2 DEF Past, SameHistory

(* The row a create adds, and the one a comment adds.                      *)
LEMMA OwnRows ==
    ASSUME NEW n
    PROVE  /\ [OwnRow EXCEPT !.id = n]
               = [id |-> n, own |-> TRUE, legible |-> TRUE, resolved |-> FALSE]
           /\ [[OwnRow EXCEPT !.own = FALSE] EXCEPT !.id = n]
               = [id |-> n, own |-> FALSE, legible |-> TRUE, resolved |-> FALSE]
<1>1. PICK t, f : t = TRUE /\ f = FALSE
  OBVIOUS
<1>2. OwnRow = [id |-> 0, own |-> t, legible |-> t, resolved |-> f]
  BY <1>1 DEF OwnRow
<1>3. [OwnRow EXCEPT !.id = n] = [id |-> n, own |-> t, legible |-> t, resolved |-> f]
  BY <1>2
<1>4. [OwnRow EXCEPT !.own = f] = [id |-> 0, own |-> f, legible |-> t, resolved |-> f]
  BY <1>2
<1>5. PICK q : q = [OwnRow EXCEPT !.own = f]
  OBVIOUS
<1>6. [q EXCEPT !.id = n] = [id |-> n, own |-> f, legible |-> t, resolved |-> f]
  <2>1. q = [id |-> 0, own |-> f, legible |-> t, resolved |-> f]
    BY <1>4, <1>5
  <2> QED
    BY <2>1
<1> QED
  BY <1>1, <1>3, <1>5, <1>6

(* A comment is posted.                                                    *)
LEMMA CommentPostedInv ==
    ASSUME ListInv, CommentPosted
    PROVE  ListInv'
<1> DEFINE r == [id |-> past.next, own |-> FALSE, legible |-> TRUE, resolved |-> FALSE]
<1>1. past \in Past /\ past.next \in Nat
  BY Fields DEF ListInv, TypeOK
<1>2. r \in Row /\ r.id = past.next /\ ~Mine(r)
  BY <1>1 DEF Row, Mine
<1>3. board' = Append(board, r)
  <2>1. r = [[OwnRow EXCEPT !.own = FALSE] EXCEPT !.id = past.next]
    BY OwnRows
  <2> QED
    BY <2>1 DEF CommentPosted, Event, Append1
<1>4. Grows /\ past'.next = past.next + 1 /\ past.next \in past'.wasOpen
  <2>0. past.next + 1 \in Nat /\ past.wasOpen \union {past.next} \in SUBSET Nat
    BY <1>1 DEF Past
  <2>1. PICK n \in Nat, w \in SUBSET Nat : n = past.next + 1 /\ w = past.wasOpen \union {past.next}
    BY <2>0
  <2>2. PICK p : p = [past EXCEPT !.next = n, !.wasOpen = w]
    OBVIOUS
  <2>3. past' = [p EXCEPT !.events = @ + 1]
    BY <2>1, <2>2 DEF CommentPosted, Event
  <2>4. /\ p \in Past /\ p.next = n /\ p.wasOpen = w /\ p.atStart = past.atStart
        /\ p.wasResolved = past.wasResolved /\ p.partial = past.partial /\ p.raced = past.raced
        /\ p.late = past.late /\ p.removed = past.removed
    BY <1>1, <2>2 DEF Past
  <2>5. past' \in Past /\ SameHistory(past', p)
    BY <2>3, <2>4, EventCounted
  <2>6. past.late \in Nat
    BY Fields DEF ListInv
  <2> QED
    BY <1>1, <2>1, <2>4, <2>5, <2>6 DEF Grows, SameHistory
<1>5. Seen(r, past')
  BY <1>4 DEF Seen
<1>6. Waits
  BY DEF CommentPosted, Event, Waits, Fixed, ListInv, TypeOK
<1> HIDE DEF r
<1> QED
  BY <1>2, <1>3, <1>4, <1>5, <1>6, RowAdded

(* A create that had timed out lands.                                      *)
LEMMA LateWriteLandsInv ==
    ASSUME ListInv, LateWriteLands
    PROVE  ListInv'
<1> DEFINE r == [id |-> past.next, own |-> TRUE, legible |-> TRUE, resolved |-> FALSE]
<1>1. past \in Past /\ past.next \in Nat
  BY Fields DEF ListInv, TypeOK
<1>2. r \in Row /\ r.id = past.next
  BY <1>1 DEF Row
<1>3. board' = Append(board, r)
  <2>1. r = [OwnRow EXCEPT !.id = past.next]
    BY OwnRows
  <2> QED
    BY <2>1 DEF LateWriteLands, Append1
<1>4. Grows /\ past'.next = past.next + 1 /\ past'.late = past.late + 1
  <2>1. PICK n \in Nat, m \in Nat : n = past.next + 1 /\ m = past.late + 1
    BY <1>1 DEF Past
  <2>2. past' = [past EXCEPT !.next = n, !.late = m]
    BY <2>1 DEF LateWriteLands
  <2>3. past' \in Past /\ past'.next = n /\ past'.late = m
    BY <1>1, <2>2 DEF Past
  <2>4. past.late \in Nat
    BY Fields DEF ListInv
  <2> QED
    BY <1>1, <2>1, <2>2, <2>3, <2>4 DEF Grows, Past
<1>5. kind = "notes" /\ Waits
  <2>1. kind = "notes" /\ flight \in Nat /\ flight > 0
    BY DEF LateWriteLands, ListInv, TypeOK
  <2> QED
    BY <2>1 DEF LateWriteLands, Waits, Fixed
<1> HIDE DEF r
<1> QED
  BY <1>2, <1>3, <1>4, <1>5, RowAdded

(* A comment is deleted.                                                   *)
LEMMA CommentDeletedInv ==
    ASSUME ListInv, NEW i \in DOMAIN board, CommentDeleted(i)
    PROVE  ListInv'
<1> DEFINE gone == Busy /\ (Running("page") => i <= Served)
<1>1. past \in Past /\ past.removed \in BOOLEAN
  BY DEF ListInv, TypeOK, Past
<1>2. past' = [[past EXCEPT !.removed = @ \/ gone] EXCEPT !.events = @ + 1]
  BY DEF CommentDeleted, Event, Served
<1> HIDE DEF gone
<1>3. PICK g \in BOOLEAN : g = (past.removed \/ gone)
  BY DEF gone
<1>4. past' = [[past EXCEPT !.removed = g] EXCEPT !.events = @ + 1]
  BY <1>2, <1>3
<1>5. /\ Grows /\ past'.next = past.next /\ past'.wasOpen = past.wasOpen
      /\ past'.wasResolved = past.wasResolved /\ past'.late = past.late /\ past'.removed = g
  <2>1. PICK p : p = [past EXCEPT !.removed = g]
    OBVIOUS
  <2>2. /\ p \in Past /\ p.next = past.next /\ p.wasOpen = past.wasOpen /\ p.atStart = past.atStart
        /\ p.wasResolved = past.wasResolved /\ p.partial = past.partial /\ p.raced = past.raced
        /\ p.late = past.late /\ p.removed = g
    BY <1>1, <2>1 DEF Past
  <2>3. past' \in Past /\ SameHistory(past', p)
    BY <1>4, <2>1, <2>2, EventCounted
  <2>4. past.late \in Nat /\ past.next \in Nat
    BY Fields DEF ListInv
  <2>5. past.removed => g
    BY <1>3
  <2> QED
    BY <2>2, <2>3, <2>4, <2>5 DEF Grows, SameHistory
<1>6. /\ call.at # "done" /\ call.at # "page" => past'.removed
      /\ call.at = "page" /\ i <= Served => past'.removed
  BY <1>3, <1>5 DEF gone, Busy, Running
<1>7. Waits /\ board' = RemoveAt(board, i)
  BY DEF CommentDeleted, Event, Waits, Fixed, ListInv, TypeOK
<1> QED
  BY <1>5, <1>6, <1>7, RowRemoved

(* A marker is corrupted.                                                  *)
LEMMA MarkerCorruptedInv ==
    ASSUME ListInv, NEW i \in DOMAIN board, MarkerCorrupted(i)
    PROVE  ListInv'
<1>1. past \in Past /\ board \in Seq(Row) /\ DOMAIN board = 1..Len(board) /\ Len(board) \in Nat
      /\ \A j \in DOMAIN board : board[j] \in Row
  BY Fields DEF ListInv, TypeOK
<1>2. past' = [past EXCEPT !.events = @ + 1]
  BY DEF MarkerCorrupted, Event
<1>3. Grows /\ past'.next = past.next /\ past'.wasOpen = past.wasOpen
      /\ past'.wasResolved = past.wasResolved
  <2>1. past' \in Past /\ SameHistory(past', past)
    BY <1>1, <1>2, EventCounted
  <2>2. past.late \in Nat /\ past.next \in Nat
    BY Fields DEF ListInv
  <2> QED
    BY <2>1, <2>2 DEF Grows, SameHistory
<1>4. board' = [board EXCEPT ![i].legible = FALSE]
  BY DEF MarkerCorrupted, Event
<1>5. PICK x : x = [board[i] EXCEPT !.legible = FALSE]
  OBVIOUS
<1>6. x \in Row /\ x.id = board[i].id /\ ~Mine(x) /\ x.resolved = board[i].resolved
  BY <1>1, <1>5 DEF Row, Mine
<1>7. /\ board' \in Seq(Row) /\ Len(board') = Len(board) /\ DOMAIN board' = DOMAIN board
      /\ \A j \in DOMAIN board : board'[j] = IF j = i THEN x ELSE board[j]
  BY <1>1, <1>4, <1>5, <1>6
<1>8. Repainted(board')
  BY <1>6, <1>7 DEF Repainted
<1>9. kind = "threads" /\ call.op # "none" => \A j \in DOMAIN board : Seen(board'[j], past')
  BY <1>3, <1>6, <1>7 DEF Seen, ListInv, History
<1>10. Waits
  BY DEF MarkerCorrupted, Event, Waits, Fixed, ListInv, TypeOK
<1> QED
  BY <1>3, <1>8, <1>9, <1>10, RowsRepainted

(* A thread is resolved or reopened.                                       *)
LEMMA ThreadToggledInv ==
    ASSUME ListInv, NEW i \in DOMAIN board, ThreadToggled(i)
    PROVE  ListInv'
<1>1. past \in Past /\ board \in Seq(Row) /\ DOMAIN board = 1..Len(board) /\ Len(board) \in Nat
      /\ \A j \in DOMAIN board : board[j] \in Row
  BY Fields DEF ListInv, TypeOK
<1>2. PICK n \in Nat : n = board[i].id
  BY <1>1, Fields DEF ListInv
<1>3. PICK p : p = IF board[i].resolved THEN [past EXCEPT !.wasOpen = @ \union {n}]
                                        ELSE [past EXCEPT !.wasResolved = @ \union {n}]
  OBVIOUS
<1>4. /\ Grows /\ past'.next = past.next
      /\ board[i].resolved => n \in past'.wasOpen
      /\ ~board[i].resolved => n \in past'.wasResolved
  <2>1. past' = [p EXCEPT !.events = @ + 1]
    BY <1>2, <1>3 DEF ThreadToggled, Event
  <2>2. PICK w \in SUBSET Nat, v \in SUBSET Nat :
           w = past.wasOpen \union {n} /\ v = past.wasResolved \union {n}
    BY <1>1 DEF Past
  <2>3. \/ p = [past EXCEPT !.wasOpen = w] /\ board[i].resolved
        \/ p = [past EXCEPT !.wasResolved = v] /\ ~board[i].resolved
    <3>1. CASE board[i].resolved
      BY <1>3, <2>2, <3>1
    <3>2. CASE ~board[i].resolved
      BY <1>3, <2>2, <3>2
    <3> QED
      BY <3>1, <3>2
  <2>4. /\ p \in Past /\ p.next = past.next /\ p.atStart = past.atStart
        /\ p.partial = past.partial /\ p.raced = past.raced
        /\ p.late = past.late /\ p.removed = past.removed
    BY <1>1, <2>3 DEF Past
  <2>5. /\ board[i].resolved => p.wasOpen = w /\ p.wasResolved = past.wasResolved
        /\ ~board[i].resolved => p.wasResolved = v /\ p.wasOpen = past.wasOpen
    BY <1>1, <2>3 DEF Past
  <2>6. past' \in Past /\ SameHistory(past', p)
    BY <2>1, <2>4, EventCounted
  <2>7. past.late \in Nat /\ past.next \in Nat
    BY Fields DEF ListInv
  <2> QED
    BY <2>2, <2>4, <2>5, <2>6, <2>7 DEF Grows, SameHistory
<1>5. board' = [board EXCEPT ![i].resolved = ~@]
  BY DEF ThreadToggled, Event
<1>6. PICK x : x = [board[i] EXCEPT !.resolved = ~@]
  OBVIOUS
<1>7. x \in Row /\ x.id = n /\ (Mine(x) => Mine(board[i])) /\ x.resolved = ~board[i].resolved
  BY <1>1, <1>2, <1>6 DEF Row, Mine
<1>8. /\ board' \in Seq(Row) /\ Len(board') = Len(board) /\ DOMAIN board' = DOMAIN board
      /\ \A j \in DOMAIN board : board'[j] = IF j = i THEN x ELSE board[j]
  BY <1>1, <1>5, <1>6, <1>7
<1>9. Waits /\ kind = "threads"
  BY DEF ThreadToggled, Event, Waits, Fixed, ListInv, TypeOK
<1>10. Repainted(board')
  BY <1>2, <1>7, <1>8, <1>9 DEF Repainted
<1>11. Seen(x, past')
  BY <1>4, <1>7 DEF Seen
<1>12. call.op # "none" => \A j \in DOMAIN board : Seen(board'[j], past')
  <2>1. \A y : Seen(y, past) => Seen(y, past')
    BY <1>4 DEF Grows, Seen
  <2> QED
    BY <1>8, <1>9, <1>11, <2>1 DEF ListInv, History
<1> QED
  BY <1>4, <1>9, <1>10, <1>12, RowsRepainted

-----------------------------------------------------------------------------
(* The call takes a step.                                                  *)

SameCall(d, c) ==
    /\ d.op = c.op /\ d.cursor = c.cursor /\ d.listed = c.listed
    /\ d.states = c.states /\ d.indexed = c.indexed /\ d.thread = c.thread

(* A call that returns keeps what it has read.                             *)
LEMMA Returned ==
    ASSUME NEW c \in Call, NEW x \in {"none", "ok", "err"}, NEW d, d = Return(c, x)
    PROVE  d \in Call /\ d.at = "done" /\ d.out = x /\ SameCall(d, c) /\ d.page = c.page
<1>1. d = [c EXCEPT !.at = "done", !.out = x]
  BY DEF Return
<1>2. "done" \in Stages
  BY DEF Stages
<1>3. d \in Call
  BY <1>1, <1>2 DEF Call
<1> QED
  BY <1>1, <1>3 DEF Call, SameCall

(* A fault is counted.                                                     *)
LEMMA FaultCounted ==
    ASSUME NEW p \in Past, NEW q, q = [p EXCEPT !.faults = @ + 1]
    PROVE  q \in Past /\ SameHistory(q, p)
<1>1. PICK n \in Nat : n = p.faults + 1
  BY DEF Past
<1>2. q = [p EXCEPT !.faults = n]
  BY <1>1
<1> QED
  BY <1>2 DEF Past, SameHistory

(* The board and its bounds stand still.                                   *)
Still == Fixed /\ board' = board /\ past' \in Past /\ SameHistory(past', past)

(* What standing still keeps.                                              *)
LEMMA StillKeeps ==
    ASSUME ListInv, Still, call'.cursor = call.cursor
    PROVE  /\ Ordered' /\ Summaries' = Summaries
           /\ \A r : Seen(r, past') <=> Seen(r, past)
BY DEF ListInv, Still, Fixed, SameHistory, Ordered, Summaries, Seen

(* A call fails, or ends without reporting a listing of threads.           *)
LEMMA CallEnds ==
    ASSUME ListInv, Still, flight' \in Nat, kind = "threads" => flight' = 0,
           NEW x \in {"ok", "err"}, call' = Return(call, x), call.at # "done",
           call.op = "ListBotThreads" => x = "err"
    PROVE  ListInv'
<1>1. /\ call' \in Call /\ call'.at = "done" /\ call'.out = x /\ SameCall(call', call)
  BY Returned DEF ListInv, TypeOK
<1>2. TypeOK'
  BY <1>1 DEF ListInv, TypeOK, Still, Fixed, SameCall
<1>3. Ordered' /\ Summaries' = Summaries /\ \A r : Seen(r, past') <=> Seen(r, past)
  BY <1>1, StillKeeps DEF SameCall
<1>4. History'
  BY <1>1, <1>3 DEF ListInv, History, Still, Fixed, SameCall
<1>5. Paging'
  BY <1>1 DEF Paging
<1>6. Whole'
  BY <1>1 DEF ListInv, Whole, SameCall
<1>7. Indexing'
  BY <1>1 DEF ListInv, Indexing, SameCall, Still, SameHistory
<1>8. Notes'
  BY <1>1, <1>3 DEF ListInv, Notes, Still, Fixed, SameHistory
<1>9. ReportedStateWasReal'
  BY <1>1 DEF ReportedStateWasReal, ListingDone, SameCall
<1> QED
  BY <1>2, <1>3, <1>4, <1>5, <1>6, <1>7, <1>8, <1>9 DEF ListInv

(* A read is tried again.                                                  *)
LEMMA CallRetries ==
    ASSUME ListInv, Still, flight' = flight, call' = [call EXCEPT !.attempt = @ + 1]
    PROVE  ListInv'
<1>1. /\ call' \in Call /\ SameCall(call', call) /\ call'.at = call.at /\ call'.page = call.page
      /\ call'.out = call.out
  <2>1. call \in Call /\ call.attempt + 1 \in Nat
    BY DEF ListInv, TypeOK, Call
  <2>2. PICK n \in Nat : n = call.attempt + 1
    BY <2>1
  <2>3. call' = [call EXCEPT !.attempt = n]
    BY <2>2
  <2> QED
    BY <2>1, <2>3 DEF Call, SameCall
<1>2. TypeOK'
  BY <1>1 DEF ListInv, TypeOK, Still, Fixed, SameCall
<1>3. Ordered' /\ Summaries' = Summaries /\ \A r : Seen(r, past') <=> Seen(r, past)
  BY <1>1, StillKeeps DEF SameCall
<1>4. History'
  BY <1>1, <1>3 DEF ListInv, History, Still, Fixed, SameCall
<1>5. Paging'
  BY <1>1 DEF ListInv, Paging, Served, SameCall, Still, SameHistory
<1>6. Whole'
  BY <1>1 DEF ListInv, Whole, SameCall, Still, SameHistory
<1>7. Indexing'
  BY <1>1 DEF ListInv, Indexing, SameCall, Still, SameHistory
<1>8. Notes'
  BY <1>1, <1>3 DEF ListInv, Notes, Still, Fixed, SameHistory, SameCall
<1>9. ReportedStateWasReal'
  BY <1>1 DEF ListInv, ReportedStateWasReal, ListingDone, SameCall, Still, SameHistory
<1> QED
  BY <1>2, <1>3, <1>4, <1>5, <1>6, <1>7, <1>8, <1>9 DEF ListInv

(* The steps that only fail, retry or edit.                                *)
LEMMA PlainStepsInv ==
    ASSUME ListInv, Refused \/ EditNote \/ CreateTimesOut \/ TransientFailure
    PROVE  ListInv'
<1>1. /\ past \in Past /\ flight \in Nat /\ (kind = "threads" => flight = 0)
      /\ call.at = "write" => kind = "notes" /\ call.op # "ListBotThreads"
  BY DEF ListInv, TypeOK
<1>2. past' = past => past' \in Past /\ SameHistory(past', past)
  BY <1>1 DEF SameHistory
<1>3. past' = [past EXCEPT !.faults = @ + 1] => past' \in Past /\ SameHistory(past', past)
  BY <1>1, FaultCounted
<1>4. CASE Refused
  BY <1>1, <1>2, <1>4, CallEnds DEF Refused, Busy, Running, Still, Fixed, Stay
<1>5. CASE EditNote
  BY <1>1, <1>2, <1>5, CallEnds DEF EditNote, Running, Still, Fixed, Stay
<1>6. CASE CreateTimesOut
  BY <1>1, <1>3, <1>6, CallEnds DEF CreateTimesOut, Running, Still, Fixed
<1>7. CASE TransientFailure
  <2>1. Still /\ flight' = flight /\ call.at # "done"
    BY <1>3, <1>7 DEF TransientFailure, Running, Still, Fixed, Stay
  <2>2. call' = [call EXCEPT !.attempt = @ + 1] \/ call' = Return(call, "err")
    BY <1>7 DEF TransientFailure
  <2> QED
    BY <1>1, <2>1, <2>2, CallEnds, CallRetries
<1> QED
  BY <1>4, <1>5, <1>6, <1>7

(* The ids on the board are numbers, and every row has a state.            *)
LEMMA StatesOfBoard ==
    ASSUME TypeOK
    PROVE  /\ Ids(board) \subseteq Nat
           /\ OpenIds(ToSet(board)) \subseteq Nat /\ ResolvedIds(ToSet(board)) \subseteq Nat
           /\ \A i \in DOMAIN board : /\ board[i].id \in Ids(board)
                                      /\ board[i].resolved => board[i].id \in ResolvedIds(ToSet(board))
                                      /\ ~board[i].resolved => board[i].id \in OpenIds(ToSet(board))
<1>1. \A i \in DOMAIN board : board[i].id \in Nat
  BY Fields
<1>2. \A r \in ToSet(board) : \E i \in DOMAIN board : r = board[i]
  BY DEF ToSet
<1>3. \A i \in DOMAIN board : board[i] \in ToSet(board)
  BY DEF ToSet
<1> QED
  BY <1>1, <1>2, <1>3 DEF Ids, OpenIds, ResolvedIds

(* A call begins, and the history with it.                                 *)
LEMMA BeginInv ==
    ASSUME ListInv, NEW op \in Operations, NEW stage \in {"page", "index"}, NEW id \in Nat,
           Begin(op, stage, id), op # "none",
           kind = "threads" => op # "UpsertComment",
           kind = "notes" => op = "UpsertComment" /\ stage = "page",
           op = "ListBotThreads" => stage = "page"
    PROVE  ListInv'
<1>1. /\ adapter' = adapter /\ kind' = kind /\ board' = board /\ flight' = flight
  BY DEF Begin, Stay
<1>2. /\ call' \in Call /\ call'.op = op /\ call'.at = stage /\ call'.page = 1 /\ call'.cursor = 0
      /\ call'.listed = {} /\ call'.states = {} /\ call'.indexed = {} /\ call'.out = "none"
  <2>1. call' = [op |-> op, at |-> stage, page |-> 1, attempt |-> 1, cursor |-> 0, listed |-> {},
                 states |-> {}, indexed |-> {}, thread |-> id, out |-> "none"]
    BY DEF Begin, NoCall
  <2>2. stage \in Stages
    BY DEF Stages
  <2> QED
    BY <2>1, <2>2 DEF Call
<1>3. /\ past' \in Past /\ past'.next = past.next /\ past'.late = past.late /\ past'.raced = past.raced
      /\ past'.atStart = Ids(board) /\ past'.wasOpen = OpenIds(ToSet(board))
      /\ past'.wasResolved = ResolvedIds(ToSet(board)) /\ ~past'.removed
  <2>1. past \in Past /\ past.calls + 1 \in Nat
    BY DEF ListInv, TypeOK, Past
  <2>2. /\ Ids(board) \in SUBSET Nat /\ OpenIds(ToSet(board)) \in SUBSET Nat
        /\ ResolvedIds(ToSet(board)) \in SUBSET Nat
    BY StatesOfBoard DEF ListInv
  <2>3. PICK n \in Nat, f \in BOOLEAN, a \in SUBSET Nat, w \in SUBSET Nat, v \in SUBSET Nat :
           /\ n = past.calls + 1 /\ f = FALSE /\ a = Ids(board) /\ w = OpenIds(ToSet(board))
           /\ v = ResolvedIds(ToSet(board))
    BY <2>1, <2>2
  <2>4. past' = [past EXCEPT !.calls = n, !.removed = f, !.partial = f, !.atStart = a,
                    !.wasOpen = w, !.wasResolved = v]
    BY <2>3 DEF Begin
  <2>5. /\ past' \in Past /\ past'.next = past.next /\ past'.late = past.late
        /\ past'.raced = past.raced /\ past'.atStart = a /\ past'.wasOpen = w
        /\ past'.wasResolved = v /\ past'.removed = f
    BY <2>1, <2>4 DEF Past
  <2> QED
    BY <2>3, <2>5
<1>4. TypeOK'
  BY <1>1, <1>2, <1>3 DEF ListInv, TypeOK
<1>5. Ordered'
  <2>1. \A n \in Ids(board) : n < past.next
    BY DEF ListInv, Ordered, Ids
  <2> QED
    BY <1>1, <1>2, <1>3, <2>1 DEF ListInv, Ordered
<1>6. History'
  BY <1>1, <1>2, <1>3, StatesOfBoard DEF ListInv, History, Seen
<1>7. Paging'
  <2>1. Served' = 0
    BY <1>2, ListingAssumption DEF Served
  <2>2. Len(board) \in Nat
    BY Fields DEF ListInv
  <2> QED
    BY <1>1, <1>2, <2>1, <2>2 DEF Paging
<1>8. Whole' /\ Indexing' /\ ReportedStateWasReal'
  BY <1>1, <1>2, <1>3 DEF Whole, Indexing, ReportedStateWasReal, ListingDone
<1>9. Notes'
  BY <1>1, <1>2, <1>3 DEF ListInv, Notes, Summaries
<1> QED
  BY <1>4, <1>5, <1>6, <1>7, <1>8, <1>9 DEF ListInv

(* UpsertComment creates its note: the listing found none.                 *)
LEMMA CreateNoteInv ==
    ASSUME ListInv, CreateNote
    PROVE  ListInv'
<1> DEFINE r == [id |-> past.next, own |-> TRUE, legible |-> TRUE, resolved |-> FALSE]
<1>1. past \in Past /\ past.next \in Nat /\ past.late \in Nat /\ past.raced \in Nat
  BY Fields DEF ListInv, TypeOK
<1>2. kind = "notes" /\ call.at = "write" /\ call.listed = {} /\ call.op # "ListBotThreads"
  BY DEF CreateNote, Running, ListInv, TypeOK
<1>3. r \in Row /\ r.id = past.next
  BY <1>1 DEF Row
<1>4. board' = Append(board, r)
  <2>1. r = [OwnRow EXCEPT !.id = past.next]
    BY OwnRows
  <2> QED
    BY <2>1 DEF CreateNote, Append1
<1> HIDE DEF r
<1>5. /\ board' \in Seq(Row) /\ DOMAIN board' = 1..Len(board) + 1
      /\ \A i \in 1..Len(board) : board'[i] = board[i]
      /\ board'[Len(board) + 1] = r
  BY <1>3, <1>4, Appended DEF ListInv, TypeOK
<1>6. /\ DOMAIN board = 1..Len(board) /\ Len(board) \in Nat
      /\ \A i \in 1..Len(board) : board[i].id \in Nat
      /\ \A i \in 1..Len(board) + 1 : i \in 1..Len(board) \/ i = Len(board) + 1
  <2>1. /\ DOMAIN board = 1..Len(board) /\ Len(board) \in Nat
        /\ \A i \in 1..Len(board) : board[i].id \in Nat
    BY Fields DEF ListInv
  <2>2. \A i \in 1..Len(board) + 1 : i \in 1..Len(board) \/ i = Len(board) + 1
    BY <2>1
  <2> QED
    BY <2>1, <2>2
<1>7. /\ past' \in Past /\ past'.next = past.next + 1 /\ past'.late = past.late
      /\ past'.raced = past.raced /\ past'.atStart = past.atStart
  <2>1. PICK n \in Nat : n = past.next + 1
    BY <1>1
  <2>2. past' = [past EXCEPT !.next = n]
    BY <2>1 DEF CreateNote
  <2> QED
    BY <1>1, <2>1, <2>2 DEF Past
<1>8. adapter' = adapter /\ kind' = kind /\ flight' = flight
  BY DEF CreateNote
<1>9. PICK x \in {"ok", "err"} : call' = Return(call, x)
  BY DEF CreateNote
<1>10. call' \in Call /\ call'.at = "done" /\ SameCall(call', call)
  BY <1>9, Returned DEF ListInv, TypeOK
<1>11. TypeOK'
  BY <1>2, <1>5, <1>7, <1>8, <1>10 DEF ListInv, TypeOK, SameCall
<1>12. Ordered'
  <2>1. ASSUME NEW i \in 1..Len(board) + 1, NEW j \in 1..Len(board) + 1, i < j
        PROVE  board'[i].id < board'[j].id
    <3>1. i \in 1..Len(board) /\ board[i].id < past.next /\ board'[i] = board[i]
      BY <1>5, <1>6, <2>1 DEF ListInv, Ordered
    <3>2. CASE j = Len(board) + 1
      BY <1>3, <1>5, <1>6, <3>1, <3>2
    <3>3. CASE j \in 1..Len(board)
      BY <1>5, <1>6, <2>1, <3>1, <3>3 DEF ListInv, Ordered
    <3> QED
      BY <1>6, <3>2, <3>3
  <2>2. ASSUME NEW i \in 1..Len(board) + 1
        PROVE  0 < board'[i].id /\ board'[i].id < past.next + 1
    <3>1. CASE i = Len(board) + 1
      BY <1>1, <1>3, <1>5, <3>1 DEF ListInv, Ordered
    <3>2. CASE i \in 1..Len(board)
      <4>1. 0 < board[i].id /\ board[i].id < past.next /\ board'[i] = board[i] /\ board[i].id \in Nat
        BY <1>5, <1>6, <3>2 DEF ListInv, Ordered
      <4> QED
        BY <1>1, <4>1
    <3> QED
      BY <1>6, <3>1, <3>2
  <2>3. /\ 0 < past'.next /\ call'.cursor < past'.next
        /\ \A n \in past'.atStart : n < past'.next
    <3>1. call.cursor \in Nat /\ past.atStart \subseteq Nat
      BY <1>1, Fields DEF ListInv, Past
    <3> QED
      BY <1>1, <1>7, <1>10, <3>1 DEF ListInv, Ordered, SameCall
  <2> QED
    BY <1>5, <1>7, <2>1, <2>2, <2>3 DEF Ordered
<1>13. History' /\ Paging' /\ Indexing' /\ ReportedStateWasReal'
  BY <1>2, <1>8, <1>10 DEF History, Paging, Indexing, ReportedStateWasReal, ListingDone, SameCall
<1>14. Whole'
  BY <1>2, <1>10 DEF Whole, SameCall
<1>15. Notes'
  <2>1. Summaries' \subseteq Summaries \union {r}
    BY <1>5, <1>6 DEF Summaries, ToSet
  <2>2. /\ Cardinality(Summaries) \in Nat /\ Cardinality(Summaries') \in Nat
        /\ Cardinality(Summaries') <= Cardinality(Summaries) + 1
    BY <2>1, Fields, Counted DEF ListInv
  <2>3. PICK m \in Nat, n \in Nat : m = Cardinality(Summaries) /\ n = Cardinality(Summaries')
    BY <2>2
  <2>4. m <= past.late + past.raced
    BY <1>2, <2>3 DEF ListInv, Notes
  <2>5. n <= 1 + past'.late + past'.raced
    BY <1>1, <1>7, <2>2, <2>3, <2>4
  <2> QED
    BY <1>10, <2>3, <2>5 DEF Notes
<1> QED
  BY <1>11, <1>12, <1>13, <1>14, <1>15 DEF ListInv

(* ResolveThread resolves its thread.                                      *)
LEMMA ResolveReviewThreadInv ==
    ASSUME ListInv, ResolveReviewThread
    PROVE  ListInv'
<1>1. /\ past \in Past /\ call \in Call /\ call.thread \in Nat /\ call.op = "ResolveThread"
      /\ kind = "threads" /\ call.at = "mutate"
  BY DEF ResolveReviewThread, Running, ListInv, TypeOK, Call
<1>2. /\ past' \in Past /\ past'.next = past.next /\ past'.atStart = past.atStart
      /\ past'.wasOpen = past.wasOpen /\ past'.wasResolved = past.wasResolved \union {call.thread}
      /\ past'.late = past.late /\ past'.raced = past.raced
  <2>1. past.wasResolved \union {call.thread} \in SUBSET Nat
    BY <1>1 DEF Past
  <2>2. PICK w \in SUBSET Nat : w = past.wasResolved \union {call.thread}
    BY <2>1
  <2>3. past' = [past EXCEPT !.wasResolved = w]
    BY <2>2 DEF ResolveReviewThread
  <2> QED
    BY <1>1, <2>2, <2>3 DEF Past
<1>3. PICK x \in {"ok", "err"} : call' = Return(call, x)
  BY DEF ResolveReviewThread
<1>4. call' \in Call /\ call'.at = "done" /\ SameCall(call', call)
  BY <1>1, <1>3, Returned
<1>5. adapter' = adapter /\ kind' = kind /\ flight' = flight
  BY DEF ResolveReviewThread
<1>6. /\ DOMAIN board = 1..Len(board) /\ Len(board) \in Nat
      /\ \A i \in 1..Len(board) : board[i] \in Row
  BY Fields DEF ListInv
<1>7. \A r \in Row : [r EXCEPT !.resolved = TRUE] \in Row /\ [r EXCEPT !.resolved = TRUE].id = r.id
                     /\ [r EXCEPT !.resolved = TRUE].resolved
  BY DEF Row
<1>8. /\ board' \in Seq(Row) /\ DOMAIN board' = 1..Len(board)
      /\ \A i \in 1..Len(board) : /\ board'[i].id = board[i].id
                                  /\ \/ board'[i] = board[i]
                                     \/ board[i].id = call.thread /\ board'[i].resolved
  <2>1. board' = [i \in 1..Len(board) |-> IF board[i].id = call.thread
                                          THEN [board[i] EXCEPT !.resolved = TRUE] ELSE board[i]]
    BY <1>6 DEF ResolveReviewThread
  <2>2. \A i \in 1..Len(board) : board'[i] \in Row
    BY <1>6, <1>7, <2>1
  <2>3. board' \in Seq(Row)
    BY <1>6, <2>1, <2>2
  <2> QED
    BY <1>6, <1>7, <2>1, <2>3
<1>9. TypeOK'
  BY <1>1, <1>2, <1>4, <1>5, <1>8 DEF ListInv, TypeOK, SameCall
<1>10. Ordered'
  BY <1>2, <1>4, <1>6, <1>8 DEF ListInv, Ordered, SameCall
<1>11. History'
  <2>1. \A r : Seen(r, past) => Seen(r, past')
    BY <1>2 DEF Seen
  <2>2. \A i \in 1..Len(board) : Seen(board'[i], past')
    BY <1>1, <1>2, <1>6, <1>8, <2>1 DEF ListInv, History, Seen
  <2> QED
    BY <1>1, <1>4, <1>8, <2>1, <2>2 DEF ListInv, History, SameCall
<1>12. Paging' /\ Indexing' /\ ReportedStateWasReal' /\ Whole' /\ Notes'
  BY <1>1, <1>4, <1>5 DEF ListInv, Paging, Indexing, ReportedStateWasReal, ListingDone, SameCall, Whole, Notes
<1> QED
  BY <1>9, <1>10, <1>11, <1>12 DEF ListInv

-----------------------------------------------------------------------------
(* A page of the listing.                                                  *)

(* A page holds the rows behind those served, as many as fit.              *)
LEMMA PageRows ==
    ASSUME TypeOK, call.page > 0
    PROVE  /\ PageOf(call.page) \in Seq(Row)
           /\ \A k \in 1..Len(PageOf(call.page)) :
                 Served + k \in 1..Len(board) /\ PageOf(call.page)[k] = board[Served + k]
           /\ Served <= Len(board) =>
                 Len(PageOf(call.page)) = IF Served + PerPage <= Len(board) THEN PerPage
                                                                           ELSE Len(board) - Served
<1>1. Len(board) \in Nat /\ Served \in Nat /\ PerPage \in Nat /\ PerPage > 0 /\ board \in Seq(Row)
  BY Fields DEF TypeOK
<1>2. PICK s \in Nat, m \in Int : s = Served /\ m = IF s + PerPage <= Len(board) THEN s + PerPage ELSE Len(board)
  BY <1>1
<1>3. PageOf(call.page) = SubSeq(board, s + 1, m)
  BY <1>2 DEF PageOf, Served
<1>4. m \in Nat /\ m <= Len(board)
  BY <1>1, <1>2
<1>5. CASE s <= Len(board)
  <2>1. s + 1 \in Nat \ {0} /\ s + 1 <= m + 1 /\ m - (s + 1) + 1 = m - s
    BY <1>1, <1>2, <1>5
  <2>2. /\ SubSeq(board, s + 1, m) \in Seq(Row) /\ Len(SubSeq(board, s + 1, m)) = m - (s + 1) + 1
        /\ \A j \in 1..m - (s + 1) + 1 : SubSeq(board, s + 1, m)[j] = board[s + 1 + j - 1]
    BY <1>1, <1>4, <2>1, Cut
  <2>3. \A j \in 1..m - s : s + 1 + j - 1 = s + j /\ s + j \in 1..Len(board)
    BY <1>1, <1>4
  <2>4. m - s = IF s + PerPage <= Len(board) THEN PerPage ELSE Len(board) - s
    BY <1>1, <1>2
  <2> QED
    BY <1>2, <1>3, <2>1, <2>2, <2>3, <2>4
<1>6. CASE ~(s <= Len(board))
  <2>1. m = Len(board) /\ s + 1 > m
    BY <1>1, <1>2, <1>6
  <2>2. SubSeq(board, s + 1, m) \in Seq(Row) /\ Len(SubSeq(board, s + 1, m)) = 0
    BY <1>1, <2>1
  <2> QED
    BY <1>2, <1>3, <1>6, <2>2
<1> QED
  BY <1>5, <1>6

(* What reading one page establishes.                                      *)
PageRead(listed) ==
    /\ \A r \in listed : r \in Row /\ r.own
    /\ kind = "threads" /\ call.op # "none" => \A r \in listed : Seen(r, past)
    /\ ~past.removed =>
          /\ \A i \in 1..Len(board) :
                i <= Served + PerPage /\ Mine(board[i]) => Has(listed, board[i].id)
          /\ \A r \in listed : \E i \in 1..Len(board) : i <= Served + PerPage /\ board[i].id = r.id

(* The rows of a page continue those of the pages before.                  *)
LEMMA PageContinues ==
    ASSUME ListInv, call.at = "page",
           NEW listed, listed = call.listed \union BotRows(PageOf(call.page))
    PROVE  PageRead(listed) /\ PageOf(call.page) \in Seq(Row)
<1>1. TypeOK /\ call.page > 0
  BY DEF ListInv, Paging
<1>2. Len(board) \in Nat /\ Served \in Nat /\ PerPage \in Nat /\ PerPage > 0
  BY <1>1, Fields
<1>3. /\ call.listed \subseteq Row /\ \A i \in 1..Len(board) : board[i] \in Row
      /\ DOMAIN board = 1..Len(board)
  BY <1>1, Fields
<1>4. PICK rows : rows = PageOf(call.page)
  OBVIOUS
<1>5. /\ rows \in Seq(Row)
      /\ \A k \in 1..Len(rows) : Served + k \in 1..Len(board) /\ rows[k] = board[Served + k]
      /\ Served <= Len(board) =>
            Len(rows) = IF Served + PerPage <= Len(board) THEN PerPage ELSE Len(board) - Served
  BY <1>1, <1>4, PageRows
<1>6. PICK s \in Nat, l \in Nat : s = Served /\ l = Len(rows)
  <2>1. Len(rows) \in Nat
    BY <1>5
  <2> QED
    BY <1>2, <2>1
<1>7. /\ \A k \in 1..l : s + k \in 1..Len(board) /\ rows[k] = board[s + k]
      /\ s <= Len(board) => l = IF s + PerPage <= Len(board) THEN PerPage ELSE Len(board) - s
  BY <1>5, <1>6
<1>8. \A r : r \in BotRows(rows) <=> Mine(r) /\ \E k \in 1..l : rows[k] = r
  <2>1. DOMAIN rows = 1..l
    BY <1>5, <1>6
  <2> QED
    BY <2>1 DEF BotRows, ToSet
<1>9. \A r \in BotRows(rows) : Mine(r) /\ \E k \in 1..l : s + k \in 1..Len(board) /\ r = board[s + k]
  BY <1>7, <1>8
<1>10. \A r \in listed : r \in call.listed \/ r \in BotRows(rows)
  BY <1>4
<1>11. \A r \in listed : r \in Row /\ r.own
  BY <1>3, <1>9, <1>10 DEF ListInv, Whole, Mine
<1>12. kind = "threads" /\ call.op # "none" => \A r \in listed : Seen(r, past)
  BY <1>3, <1>9, <1>10 DEF ListInv, History
<1>13. ASSUME ~past.removed
       PROVE  /\ \A i \in 1..Len(board) :
                    i <= s + PerPage /\ Mine(board[i]) => Has(listed, board[i].id)
              /\ \A r \in listed : \E i \in 1..Len(board) : i <= s + PerPage /\ board[i].id = r.id
  <2>1. /\ s <= Len(board)
        /\ \A i \in 1..s : Mine(board[i]) => Has(call.listed, board[i].id)
        /\ \A r \in call.listed : \E i \in 1..s : board[i].id = r.id
    BY <1>6, <1>13 DEF ListInv, Paging
  <2>2. l <= PerPage /\ (s + PerPage <= Len(board) => l = PerPage)
        /\ (~(s + PerPage <= Len(board)) => l = Len(board) - s)
    BY <1>2, <1>7, <2>1
  <2>3. ASSUME NEW i \in 1..Len(board), i <= s + PerPage, Mine(board[i])
        PROVE  Has(listed, board[i].id)
    <3>1. CASE i \in 1..s
      BY <2>1, <2>3, <3>1 DEF Has
    <3>2. CASE i \notin 1..s
      <4>1. i - s \in 1..l /\ s + (i - s) = i
        BY <1>2, <2>2, <2>3, <3>2
      <4>2. rows[i - s] = board[i]
        BY <1>7, <4>1
      <4>3. board[i] \in BotRows(rows)
        BY <1>8, <2>3, <4>1, <4>2
      <4> QED
        BY <1>4, <4>3 DEF Has
    <3> QED
      BY <3>1, <3>2
  <2>4. ASSUME NEW r \in listed
        PROVE  \E i \in 1..Len(board) : i <= s + PerPage /\ board[i].id = r.id
    <3>1. CASE r \in call.listed
      <4>1. PICK i \in 1..s : board[i].id = r.id
        BY <2>1, <3>1
      <4>2. i \in 1..Len(board) /\ i <= s + PerPage
        BY <1>2, <2>1
      <4> QED
        BY <4>1, <4>2
    <3>2. CASE r \in BotRows(rows)
      <4>1. PICK k \in 1..l : s + k \in 1..Len(board) /\ r = board[s + k]
        BY <1>9, <3>2
      <4>2. s + k <= s + PerPage
        BY <1>2, <2>2
      <4> QED
        BY <4>1, <4>2
    <3> QED
      BY <1>10, <3>1, <3>2
  <2> QED
    BY <2>3, <2>4
<1> QED
  BY <1>4, <1>5, <1>6, <1>11, <1>12, <1>13 DEF PageRead

(* A page that is not full is the last one.                                *)
LEMMA LastIsShort ==
    ASSUME ListInv, call.at = "page", ~past.removed
    PROVE  /\ LastPage(PageOf(call.page)) => ~(Served + PerPage <= Len(board))
           /\ ~LastPage(PageOf(call.page)) => Served + PerPage <= Len(board)
<1>1. TypeOK /\ call.page > 0 /\ Served <= Len(board)
  BY DEF ListInv, Paging
<1>2. Len(board) \in Nat /\ Served \in Nat /\ PerPage \in Nat /\ PerPage > 0
  BY <1>1, Fields
<1>3. PICK rows, l : rows = PageOf(call.page) /\ l = Len(rows)
  OBVIOUS
<1>4. rows \in Seq(Row) /\ l = IF Served + PerPage <= Len(board) THEN PerPage ELSE Len(board) - Served
  BY <1>1, <1>3, PageRows
<1>5. rows = <<>> => l = 0
  BY <1>3
<1>6. l \in Nat
  BY <1>1, <1>2, <1>4
<1>7. LastPage(rows) <=> l < PerPage
  BY <1>2, <1>3, <1>5, <1>6 DEF LastPage, GitHubLastPage, GitLabLastPage
<1>8. l < PerPage <=> ~(Served + PerPage <= Len(board))
  BY <1>1, <1>2, <1>4
<1> QED
  BY <1>3, <1>7, <1>8

(* What a step that reads a page does to the call: it goes on, fails,      *)
(* passes its listing on, or returns it.                                   *)
Reads(d, listed) ==
    /\ d \in Call /\ d.op = call.op /\ d.listed = listed /\ d.indexed = {} /\ d.cursor = 0
    /\ \/ ~LastPage(PageOf(call.page)) /\ d.at = "page" /\ d.page = call.page + 1
          /\ d.states = {} /\ d.out = "none"
       \/ d.at = "done" /\ d.out = "err" /\ d.states = {}
       \/ LastPage(PageOf(call.page)) /\ call.op = "UpsertComment" /\ d.at = "write"
          /\ d.out = "none" /\ d.states = {}
       \/ LastPage(PageOf(call.page)) /\ call.op # "UpsertComment" /\ d.at = "index"
          /\ d.out = "none" /\ d.states = {}
       \/ LastPage(PageOf(call.page)) /\ call.op # "UpsertComment" /\ d.at = "done"
          /\ d.out = "ok" /\ d.states = ResolvedIds(listed)

(* ListPage does that.                                                     *)
LEMMA ListPageReads ==
    ASSUME ListInv, ListPage,
           NEW listed, listed = call.listed \union BotRows(PageOf(call.page))
    PROVE  call.at = "page" /\ Reads(call', listed)
<1>1. call.at = "page"
  BY DEF ListPage, Running
<1>2. /\ call \in Call /\ call.page + 1 \in Nat /\ call.states = {} /\ call.indexed = {}
      /\ call.cursor = 0 /\ call.out = "none"
  BY <1>1 DEF ListInv, TypeOK, Call, Paging
<1>3. listed \in SUBSET Row /\ ResolvedIds(listed) \in SUBSET Nat
  <2>1. listed \in SUBSET Row
    BY <1>1, PageContinues DEF PageRead
  <2>2. \A r \in Row : r.id \in Nat
    BY DEF Row
  <2> QED
    BY <2>1, <2>2 DEF ResolvedIds
<1> PICK n \in Nat : n = call.page + 1
  BY <1>2
<1>4. PICK c : c = [call EXCEPT !.listed = listed, !.page = n, !.attempt = 1]
  OBVIOUS
<1>5. /\ c \in Call /\ c.op = call.op /\ c.listed = listed /\ c.indexed = {} /\ c.cursor = 0
      /\ c.at = "page" /\ c.page = n /\ c.states = {} /\ c.out = "none"
  BY <1>1, <1>2, <1>3, <1>4 DEF Call
<1>6. call' = IF LastPage(PageOf(call.page)) THEN Finished(c)
              ELSE IF call.page = MaxListPages THEN Return(c, "err") ELSE c
  BY <1>4 DEF ListPage
<1>7. PICK d : d = Return(c, "err")
  OBVIOUS
<1>8. d \in Call /\ d.at = "done" /\ d.out = "err" /\ SameCall(d, c)
  BY <1>5, <1>7, Returned
<1>9. CASE ~LastPage(PageOf(call.page))
  BY <1>1, <1>4, <1>5, <1>6, <1>7, <1>8, <1>9 DEF Reads, SameCall
<1>10. CASE LastPage(PageOf(call.page)) /\ c.op = "UpsertComment"
  <2>1. call' = [c EXCEPT !.at = "write"]
    BY <1>6, <1>10 DEF Finished
  <2>2. "write" \in Stages
    BY DEF Stages
  <2>3. /\ call' \in Call /\ call'.op = c.op /\ call'.listed = c.listed /\ call'.indexed = c.indexed
        /\ call'.cursor = c.cursor /\ call'.at = "write" /\ call'.states = c.states
        /\ call'.out = c.out
    BY <1>5, <2>1, <2>2 DEF Call
  <2> QED
    BY <1>1, <1>5, <1>10, <2>3 DEF Reads
<1>11. CASE LastPage(PageOf(call.page)) /\ c.op # "UpsertComment"
  <2>1. \/ call' = [c EXCEPT !.at = "index", !.page = 1]
        \/ call' = Return([c EXCEPT !.states = ResolvedIds(c.listed)], "ok")
    BY <1>6, <1>11 DEF Finished
  <2>2. CASE call' = [c EXCEPT !.at = "index", !.page = 1]
    <3>1. "index" \in Stages
      BY DEF Stages
    <3>2. /\ call' \in Call /\ call'.op = c.op /\ call'.listed = c.listed /\ call'.indexed = c.indexed
          /\ call'.cursor = c.cursor /\ call'.at = "index" /\ call'.states = c.states
          /\ call'.out = c.out
      BY <1>5, <2>2, <3>1 DEF Call
    <3> QED
      BY <1>1, <1>5, <1>11, <3>2 DEF Reads
  <2>3. CASE call' = Return([c EXCEPT !.states = ResolvedIds(c.listed)], "ok")
    <3>0. PICK st \in SUBSET Nat : st = ResolvedIds(listed)
      BY <1>3
    <3>1. PICK e : st = ResolvedIds(listed) /\ e = [c EXCEPT !.states = st]
      BY <3>0
    <3>2. e \in Call /\ e.op = c.op /\ e.listed = c.listed /\ e.indexed = c.indexed
          /\ e.cursor = c.cursor /\ e.states = st
      BY <1>5, <3>1 DEF Call
    <3>3. call' \in Call /\ call'.at = "done" /\ call'.out = "ok" /\ SameCall(call', e)
      BY <1>5, <2>3, <3>1, <3>2, Returned
    <3> QED
      BY <1>1, <1>5, <1>11, <3>1, <3>2, <3>3 DEF Reads, SameCall
  <2> QED
    BY <2>1, <2>2, <2>3
<1> QED
  BY <1>9, <1>10, <1>11

(* The history of a page: a listing of notes under which a row moved is    *)
(* counted.                                                                *)
LEMMA ListPageHistory ==
    ASSUME ListInv, ListPage
    PROVE  /\ adapter' = adapter /\ kind' = kind /\ board' = board /\ flight' = flight
           /\ past' \in Past /\ past'.next = past.next /\ past'.atStart = past.atStart
           /\ past'.wasOpen = past.wasOpen /\ past'.wasResolved = past.wasResolved
           /\ past'.removed = past.removed /\ past'.partial = past.partial
           /\ past'.late = past.late /\ past.raced <= past'.raced
           /\ LastPage(PageOf(call.page)) /\ past.removed /\ kind = "notes" =>
                 past'.raced = past.raced + 1
<1>1. past \in Past /\ past.raced \in Nat /\ past.raced + 1 \in Nat
  BY DEF ListInv, TypeOK, Past
<1>2. PICK n \in Nat : n = past.raced + 1
  BY <1>1
<1>3. past' = IF LastPage(PageOf(call.page)) /\ past.removed /\ kind = "notes"
              THEN [past EXCEPT !.raced = n] ELSE past
  BY <1>2 DEF ListPage
<1>4. adapter' = adapter /\ kind' = kind /\ board' = board /\ flight' = flight
  BY DEF ListPage, Stay
<1>5. CASE LastPage(PageOf(call.page)) /\ past.removed /\ kind = "notes"
  <2>1. past' = [past EXCEPT !.raced = n]
    BY <1>3, <1>5
  <2>2. /\ past' \in Past /\ past'.next = past.next /\ past'.atStart = past.atStart
        /\ past'.wasOpen = past.wasOpen /\ past'.wasResolved = past.wasResolved
        /\ past'.removed = past.removed /\ past'.partial = past.partial
        /\ past'.late = past.late /\ past'.raced = n
    BY <1>1, <2>1 DEF Past
  <2> QED
    BY <1>1, <1>2, <1>4, <2>2
<1>6. CASE ~(LastPage(PageOf(call.page)) /\ past.removed /\ kind = "notes")
  <2>1. past' = past
    BY <1>3, <1>6
  <2> QED
    BY <1>1, <1>4, <1>6, <2>1
<1> QED
  BY <1>5, <1>6

(* A page of a listing keeps the invariant.                                *)
LEMMA ListPageInv ==
    ASSUME ListInv, ListPage
    PROVE  ListInv'
<1>1. PICK listed : listed = call.listed \union BotRows(PageOf(call.page))
  OBVIOUS
<1>2. call.at = "page" /\ Reads(call', listed)
  BY <1>1, ListPageReads
<1>3. PageRead(listed)
  BY <1>1, <1>2, PageContinues
<1>4. /\ adapter' = adapter /\ kind' = kind /\ board' = board /\ flight' = flight
      /\ past' \in Past /\ past'.next = past.next /\ past'.atStart = past.atStart
      /\ past'.wasOpen = past.wasOpen /\ past'.wasResolved = past.wasResolved
      /\ past'.removed = past.removed /\ past'.partial = past.partial
      /\ past'.late = past.late /\ past.raced <= past'.raced
  BY ListPageHistory
<1>5. /\ DOMAIN board = 1..Len(board) /\ Len(board) \in Nat /\ Served \in Nat
      /\ PerPage \in Nat /\ PerPage > 0
      /\ past.late \in Nat /\ past.raced \in Nat /\ past'.raced \in Nat
  <2>1. call.page > 0
    BY <1>2 DEF ListInv, Paging
  <2> QED
    BY <1>4, <2>1, Fields DEF ListInv, Past
<1>6. /\ \A i \in 1..Len(board) : board[i].id \in Nat
      /\ \A i \in 1..Len(board) : 0 < board[i].id
  BY <1>5, Fields DEF ListInv, Ordered
<1>7. /\ call' \in Call /\ call'.op = call.op /\ call'.listed = listed /\ call'.indexed = {}
      /\ call'.cursor = 0
  BY <1>2 DEF Reads
<1>8. ~past.removed =>
         /\ LastPage(PageOf(call.page)) => ~(Served + PerPage <= Len(board))
         /\ ~LastPage(PageOf(call.page)) => Served + PerPage <= Len(board)
  BY <1>2, LastIsShort
<1>9. /\ call'.at = "page" => ~LastPage(PageOf(call.page)) /\ call'.page = call.page + 1
                              /\ call'.states = {} /\ call'.out = "none"
      /\ call'.at = "write" => LastPage(PageOf(call.page)) /\ call.op = "UpsertComment"
      /\ call'.at = "index" => LastPage(PageOf(call.page)) /\ call.op # "UpsertComment"
                               /\ call'.states = {}
      /\ call'.at # "mutate"
      /\ call'.at # "done" => call'.out = "none"
      /\ call'.out # "err" /\ call'.at # "page" => LastPage(PageOf(call.page))
      /\ call'.out = "ok" => LastPage(PageOf(call.page)) /\ call'.states = ResolvedIds(listed)
      /\ call'.states = {} \/ call'.states = ResolvedIds(listed)
  BY <1>2 DEF Reads
<1>10. TypeOK'
  BY <1>2, <1>4, <1>7, <1>9 DEF ListInv, TypeOK
<1>11. Ordered'
  BY <1>4, <1>7 DEF ListInv, Ordered
<1>12. History'
  <2>1. \A r : Seen(r, past') <=> Seen(r, past)
    BY <1>4 DEF Seen
  <2> QED
    BY <1>3, <1>4, <1>7, <2>1 DEF ListInv, History, PageRead
<1>13. Paging'
  <2>1. ASSUME call'.at = "page"
        PROVE  Served' = Served + PerPage /\ call'.page > 0
    <3>1. call.page \in Nat /\ call'.page = call.page + 1
      BY <1>9, <2>1, Fields DEF ListInv
    <3>2. (call.page + 1 - 1) * PerPage = (call.page - 1) * PerPage + PerPage
      BY <1>5, <3>1
    <3> QED
      BY <3>1, <3>2 DEF Served
  <2>2. ASSUME call'.at = "page", ~past.removed
        PROVE  /\ Served + PerPage <= Len(board)
               /\ \A i \in 1..Served + PerPage : Mine(board[i]) => Has(listed, board[i].id)
               /\ \A r \in listed : \E i \in 1..Served + PerPage : board[i].id = r.id
    <3>1. Served + PerPage <= Len(board)
      BY <1>8, <1>9, <2>2
    <3>2. /\ \A i \in 1..Served + PerPage : i \in 1..Len(board) /\ i <= Served + PerPage
          /\ \A i \in 1..Len(board) : i <= Served + PerPage => i \in 1..Served + PerPage
      BY <1>5, <3>1
    <3> QED
      BY <1>3, <2>2, <3>1, <3>2 DEF PageRead
  <2>3. PICK s : s = Served + PerPage
    OBVIOUS
  <2>4. call'.at = "page" /\ ~past.removed =>
               /\ s <= Len(board)
               /\ \A i \in 1..s : Mine(board[i]) => Has(listed, board[i].id)
               /\ \A r \in listed : \E i \in 1..s : board[i].id = r.id
    BY <2>2, <2>3
  <2>5. call'.at = "page" => Served' = s /\ call'.page > 0
    BY <2>1, <2>3
  <2> QED
    BY <1>4, <1>7, <1>9, <2>4, <2>5 DEF Paging, Has
<1>14. ~past.removed /\ LastPage(PageOf(call.page)) =>
          /\ \A i \in 1..Len(board) : Mine(board[i]) => Has(listed, board[i].id)
          /\ \A r \in listed : \E i \in 1..Len(board) : board[i].id = r.id
  <2> SUFFICES ASSUME ~past.removed, LastPage(PageOf(call.page))
               PROVE  /\ \A i \in 1..Len(board) : Mine(board[i]) => Has(listed, board[i].id)
                      /\ \A r \in listed : \E i \in 1..Len(board) : board[i].id = r.id
    OBVIOUS
  <2>1. \A i \in 1..Len(board) : i <= Served + PerPage
    BY <1>5, <1>8
  <2> QED
    BY <1>3, <2>1 DEF PageRead
<1>15. Whole'
  BY <1>3, <1>4, <1>5, <1>7, <1>9, <1>14 DEF Whole, PageRead, Has
<1>16. kind = "threads" /\ call.op # "none" =>
          /\ ResolvedIds(listed) \subseteq past.wasResolved
          /\ \A r \in listed : IF r.id \in ResolvedIds(listed) THEN r.id \in past.wasResolved
                                                              ELSE r.id \in past.wasOpen
  BY <1>3 DEF PageRead, Seen, ResolvedIds
<1>17. call.op = "ListBotThreads" => kind = "threads"
  BY DEF ListInv, TypeOK
<1>18. Indexing'
  <2>1. call.op = "ListBotThreads" => call'.states \subseteq past'.wasResolved
    BY <1>4, <1>9, <1>16, <1>17
  <2>2. \A i \in 1..Len(board) : ~(board[i].id <= 0)
    BY <1>6
  <2> QED
    BY <1>4, <1>5, <1>7, <1>9, <1>14, <2>1, <2>2 DEF Indexing
<1>19. ReportedStateWasReal'
  BY <1>4, <1>7, <1>9, <1>16, <1>17 DEF ReportedStateWasReal, ListingDone
<1>20. Notes'
  <2>1. Summaries' = Summaries /\ Cardinality(Summaries) \in Nat
    BY <1>4, Fields DEF Summaries, ListInv
  <2>2. PICK m \in Nat : m = Cardinality(Summaries)
    BY <2>1
  <2>3. kind = "notes" => m <= 1 + past.late + past.raced
    BY <2>2 DEF ListInv, Notes
  <2>4. kind = "notes" => m <= 1 + past.late + past'.raced
    BY <1>4, <1>5, <2>3
  <2>5. ASSUME kind = "notes", call'.at = "write", listed = {}
        PROVE  m <= past.late + past'.raced
    <3>1. CASE past.removed
      <4>1. past'.raced = past.raced + 1
        BY <1>9, <2>5, <3>1, ListPageHistory
      <4> QED
        BY <1>5, <2>3, <2>5, <4>1
    <3>2. CASE ~past.removed
      <4>1. \A i \in 1..Len(board) : ~Mine(board[i])
        BY <1>9, <1>14, <2>5, <3>2 DEF Has
      <4>2. Summaries = {}
        BY <1>5, <4>1 DEF Summaries, ToSet
      <4>3. m = 0
        BY <2>2, <4>2, FS_EmptySet
      <4> QED
        BY <1>5, <4>3
    <3> QED
      BY <3>1, <3>2
  <2> QED
    BY <1>4, <1>7, <2>1, <2>2, <2>4, <2>5 DEF Notes
<1> QED
  BY <1>10, <1>11, <1>12, <1>13, <1>15, <1>18, <1>19, <1>20 DEF ListInv

-----------------------------------------------------------------------------
(* The resolution states.                                                  *)

(* A page of the index holds the rows behind the cursor, as many as fit.   *)
LEMMA IndexPage ==
    ASSUME ListInv, NEW rows, rows = IndexRows
    PROVE  /\ rows \in Seq(Row)
           /\ \A k \in 1..Len(rows) : \E i \in 1..Len(board) : rows[k] = board[i]
           /\ rows # <<>> => Len(rows) > 0
           /\ \A i \in 1..Len(board) :
                 \/ board[i].id <= call.cursor
                 \/ \E k \in 1..Len(rows) : rows[k] = board[i]
                 \/ HasNextPage /\ Len(rows) > 0 /\ board[i].id > rows[Len(rows)].id
<1>1. /\ DOMAIN board = 1..Len(board) /\ Len(board) \in Nat
      /\ \A i \in 1..Len(board) : board[i].id \in Nat
  BY Fields DEF ListInv
<1>2. call.cursor \in Nat /\ PerPage \in Nat /\ PerPage > 0
  BY Fields DEF ListInv
<1>3. board \in Seq(Row)
  BY DEF ListInv, TypeOK
<1>4. PICK later : later = {i \in DOMAIN board : board[i].id > call.cursor}
  OBVIOUS
<1>5. PICK a : a = After(call.cursor)
  OBVIOUS
<1>6. CASE later = {}
  <2>1. a = <<>>
    BY <1>4, <1>5, <1>6 DEF After
  <2>2. Len(a) = 0
    BY <2>1
  <2>3. rows = <<>>
    BY <1>2, <1>5, <2>1, <2>2 DEF IndexRows
  <2>4. \A i \in 1..Len(board) : board[i].id <= call.cursor
    BY <1>1, <1>2, <1>4, <1>6
  <2> QED
    BY <2>3, <2>4
<1>7. CASE later # {}
  <2>1. later \in SUBSET Nat
    BY <1>1, <1>4
  <2>2. PICK m : m = Min(later)
    OBVIOUS
  <2>3. m \in later /\ \A j \in later : m <= j
    BY <1>7, <2>1, <2>2, Least
  <2>4. m \in 1..Len(board)
    BY <1>1, <1>4, <2>3
  <2>5. a = SubSeq(board, m, Len(board))
    BY <1>4, <1>5, <1>7, <2>2 DEF After
  <2>6. /\ a \in Seq(Row) /\ Len(a) = Len(board) - m + 1
        /\ \A k \in 1..Len(board) - m + 1 : a[k] = board[m + k - 1]
    BY <1>1, <1>3, <2>4, <2>5, Cut
  <2>7. PICK l : l = IF Len(a) <= PerPage THEN Len(a) ELSE PerPage
    OBVIOUS
  <2>8. PICK n \in Nat : n = Len(a)
    BY <2>6
  <2>9. n = Len(board) - m + 1 /\ \A k \in 1..n : a[k] = board[m + k - 1]
    BY <2>6, <2>8
  <2>10. l \in Nat /\ l > 0 /\ l <= n /\ (l = n \/ (l = PerPage /\ n > PerPage))
    BY <1>1, <1>2, <2>4, <2>7, <2>8, <2>9
  <2>11. rows \in Seq(Row) /\ Len(rows) = l /\ \A k \in 1..l : rows[k] = a[k]
    <3>1. CASE Len(a) <= PerPage
      <4>1. rows = a /\ l = n
        BY <1>5, <2>7, <2>8, <3>1 DEF IndexRows
      <4> QED
        BY <2>6, <2>8, <4>1
    <3>2. CASE ~(Len(a) <= PerPage)
      <4>1. rows = SubSeq(a, 1, PerPage) /\ l = PerPage
        BY <1>5, <2>7, <3>2 DEF IndexRows
      <4>2. PerPage <= Len(a) /\ 1 <= PerPage + 1 /\ PerPage - 1 + 1 = PerPage
        BY <1>2, <2>8, <3>2
      <4>3. /\ SubSeq(a, 1, PerPage) \in Seq(Row) /\ Len(SubSeq(a, 1, PerPage)) = PerPage - 1 + 1
            /\ \A k \in 1..PerPage - 1 + 1 : SubSeq(a, 1, PerPage)[k] = a[1 + k - 1]
        BY <1>2, <2>6, <4>2, Cut
      <4>4. \A k \in 1..PerPage : 1 + k - 1 = k
        BY <1>2
      <4> QED
        BY <4>1, <4>2, <4>3, <4>4
    <3> QED
      BY <3>1, <3>2
  <2>12. \A k \in 1..l : k \in 1..n /\ m + k - 1 \in 1..Len(board)
    BY <1>1, <2>4, <2>9, <2>10
  <2>13. \A k \in 1..l : rows[k] = board[m + k - 1]
    BY <2>9, <2>11, <2>12
  <2>14. ASSUME NEW i \in 1..Len(board), ~(board[i].id <= call.cursor)
         PROVE  \/ \E k \in 1..l : rows[k] = board[i]
                \/ HasNextPage /\ l > 0 /\ board[i].id > rows[l].id
    <3>1. i \in later /\ m <= i
      BY <1>1, <1>2, <1>4, <2>3, <2>14
    <3>2. CASE i - m + 1 \in 1..l
      <4>1. m + (i - m + 1) - 1 = i
        BY <1>1, <2>4
      <4> QED
        BY <2>13, <3>2, <4>1
    <3>3. CASE i - m + 1 \notin 1..l
      <4>1. m + l - 1 < i /\ l # n /\ l \in 1..l
        BY <1>1, <2>4, <2>9, <2>10, <3>1, <3>3
      <4>2. m + l - 1 \in 1..Len(board) /\ rows[l] = board[m + l - 1]
        BY <2>12, <2>13, <4>1
      <4>3. board[m + l - 1].id < board[i].id
        BY <1>1, <4>1, <4>2 DEF ListInv, Ordered
      <4>4. HasNextPage
        BY <1>5, <2>8, <2>10, <4>1 DEF HasNextPage
      <4>5. board[i].id > board[m + l - 1].id
        BY <1>1, <4>2, <4>3
      <4> QED
        BY <2>10, <4>2, <4>4, <4>5
    <3> QED
      BY <3>2, <3>3
  <2>15. \A k \in 1..l : \E i \in 1..Len(board) : rows[k] = board[i]
    BY <2>12, <2>13
  <2> QED
    BY <2>10, <2>11, <2>14, <2>15
<1> QED
  BY <1>6, <1>7

(* Where the index goes when it has been read.                             *)
LEMMA IndexedIs ==
    ASSUME NEW c \in Call, c.op # "none", NEW d, d = Indexed(c)
    PROVE  /\ d \in Call /\ SameCall(d, c)
           /\ \/ d.at = "done" /\ d.out = "ok" /\ c.op = "ListBotThreads"
              \/ d.at = "done" /\ d.out = "err"
              \/ d.at = "mutate" /\ d.out = c.out /\ c.op # "ListBotThreads"
<1>1. CASE c.op = "ListBotThreads"
  BY <1>1, Returned DEF Indexed
<1>2. CASE c.op # "ListBotThreads" /\ c.thread \in c.indexed
  <2>1. d = [c EXCEPT !.at = "mutate"] /\ "mutate" \in Stages
    BY <1>2 DEF Indexed, Stages
  <2>2. d \in Call /\ d.at = "mutate" /\ d.out = c.out /\ SameCall(d, c)
    BY <2>1 DEF Call, SameCall
  <2> QED
    BY <1>2, <2>2
<1>3. CASE c.op # "ListBotThreads" /\ c.thread \notin c.indexed
  BY <1>3, Returned DEF Indexed
<1> QED
  BY <1>1, <1>2, <1>3

(* What a step of the index does to the call, with the states, ids and     *)
(* cursor it now has.                                                      *)
Indexes(d, states, indexed, cursor, more) ==
    /\ d \in Call /\ d.op = call.op /\ d.listed = call.listed
    /\ d.states = states /\ d.indexed = indexed /\ d.cursor = cursor
    /\ \/ d.at = "index" /\ d.out = "none" /\ more
       \/ d.at = "done" /\ d.out = "ok" /\ call.op = "ListBotThreads" /\ ~more
       \/ d.at = "done" /\ d.out = "err"
       \/ d.at = "mutate" /\ d.out = "none" /\ call.op # "ListBotThreads"

(* ReviewThreadIndex does that.                                            *)
LEMMA IndexSteps ==
    ASSUME ListInv, ReviewThreadIndex, NEW rows, rows = IndexRows
    PROVE  /\ call.at = "index"
           /\ Indexes(call', call.states \union ResolvedIds(ToSet(rows)),
                      call.indexed \union Ids(rows),
                      IF rows = <<>> THEN call.cursor ELSE rows[Len(rows)].id, HasNextPage)
<1>1. call.at = "index" /\ call \in Call /\ call.op # "none" /\ call.out = "none"
  BY DEF ReviewThreadIndex, Running, ListInv, TypeOK
<1>2. /\ rows \in Seq(Row) /\ (rows # <<>> => Len(rows) > 0)
  BY IndexPage
<1>3. \A k \in DOMAIN rows : rows[k].id \in Nat
  <2>1. \A r \in Row : r.id \in Nat
    BY DEF Row
  <2> QED
    BY <1>2, <2>1
<1>4. /\ call.states \union ResolvedIds(ToSet(rows)) \in SUBSET Nat
      /\ call.indexed \union Ids(rows) \in SUBSET Nat
  BY <1>1, <1>3 DEF Call, ResolvedIds, ToSet, Ids
<1>5. (IF rows = <<>> THEN call.cursor ELSE rows[Len(rows)].id) \in Nat /\ call.page + 1 \in Nat
  <2>1. rows # <<>> => Len(rows) \in DOMAIN rows
    BY <1>2
  <2>2. call.cursor \in Nat /\ call.page \in Nat
    BY <1>1 DEF Call
  <2> QED
    BY <1>3, <2>1, <2>2
<1>6. PICK st \in SUBSET Nat, ix \in SUBSET Nat, cu \in Nat, n \in Nat :
         /\ st = call.states \union ResolvedIds(ToSet(rows)) /\ ix = call.indexed \union Ids(rows)
         /\ cu = (IF rows = <<>> THEN call.cursor ELSE rows[Len(rows)].id) /\ n = call.page + 1
  BY <1>4, <1>5
<1>7. PICK c : c = [call EXCEPT !.states = st, !.indexed = ix, !.cursor = cu, !.page = n]
  OBVIOUS
<1>8. /\ c \in Call /\ c.op = call.op /\ c.listed = call.listed /\ c.states = st /\ c.indexed = ix
      /\ c.cursor = cu /\ c.at = call.at /\ c.out = call.out
  BY <1>1, <1>7 DEF Call
<1>9. call' = IF ~HasNextPage THEN Indexed(c)
              ELSE IF call.page = MaxListPages THEN Return(c, "err") ELSE c
  BY <1>6, <1>7 DEF ReviewThreadIndex, Last
<1>10. CASE ~HasNextPage
  <2>1. PICK d : d = Indexed(c)
    OBVIOUS
  <2>2. /\ d \in Call /\ SameCall(d, c)
        /\ \/ d.at = "done" /\ d.out = "ok" /\ c.op = "ListBotThreads"
           \/ d.at = "done" /\ d.out = "err"
           \/ d.at = "mutate" /\ d.out = c.out /\ c.op # "ListBotThreads"
    BY <1>1, <1>8, <2>1, IndexedIs
  <2>3. call' = d
    BY <1>9, <1>10, <2>1
  <2> QED
    BY <1>1, <1>6, <1>8, <1>10, <2>2, <2>3 DEF Indexes, SameCall
<1>11. CASE HasNextPage
  <2>1. PICK d : d = Return(c, "err")
    OBVIOUS
  <2>2. d \in Call /\ d.at = "done" /\ d.out = "err" /\ SameCall(d, c)
    BY <1>8, <2>1, Returned
  <2>3. call' = d \/ call' = c
    BY <1>9, <1>11, <2>1
  <2> QED
    BY <1>1, <1>6, <1>8, <1>11, <2>2, <2>3 DEF Indexes, SameCall
<1> QED
  BY <1>10, <1>11

(* A page of the index keeps the invariant.                                *)
LEMMA ReviewThreadIndexInv ==
    ASSUME ListInv, ReviewThreadIndex
    PROVE  ListInv'
<1>1. PICK rows : rows = IndexRows
  OBVIOUS
<1>2. PICK st, ix, cu :
         /\ st = call.states \union ResolvedIds(ToSet(rows)) /\ ix = call.indexed \union Ids(rows)
         /\ cu = (IF rows = <<>> THEN call.cursor ELSE rows[Len(rows)].id)
  OBVIOUS
<1>3. call.at = "index" /\ Indexes(call', st, ix, cu, HasNextPage)
  BY <1>1, <1>2, IndexSteps
<1>4. /\ adapter' = adapter /\ kind' = kind /\ board' = board /\ flight' = flight /\ past' = past
  BY DEF ReviewThreadIndex, Stay
<1>5. /\ DOMAIN board = 1..Len(board) /\ Len(board) \in Nat
      /\ \A i \in 1..Len(board) : board[i].id \in Nat
      /\ call.cursor \in Nat
  BY Fields DEF ListInv
<1>6. /\ rows \in Seq(Row) /\ (rows # <<>> => Len(rows) > 0)
      /\ \A k \in 1..Len(rows) : \E i \in 1..Len(board) : rows[k] = board[i]
  BY <1>1, IndexPage
<1>7. \A i \in 1..Len(board) :
         \/ board[i].id <= call.cursor
         \/ \E k \in 1..Len(rows) : rows[k] = board[i]
         \/ HasNextPage /\ Len(rows) > 0 /\ board[i].id > rows[Len(rows)].id
  BY <1>1, IndexPage
<1>8. /\ call' \in Call /\ call'.op = call.op /\ call'.listed = call.listed
      /\ call'.states = st /\ call'.indexed = ix /\ call'.cursor = cu
      /\ call'.at \in {"index", "done", "mutate"}
      /\ call'.at = "mutate" => call.op # "ListBotThreads"
      /\ call'.at # "done" => call'.out = "none"
      /\ call'.out = "ok" => ~HasNextPage
  BY <1>3 DEF Indexes
<1>9. kind = "threads" /\ call.op # "none" /\ call.op # "UpsertComment"
  BY <1>3 DEF ListInv, TypeOK
<1>10. DOMAIN rows = 1..Len(rows) /\ (rows # <<>> => Len(rows) \in 1..Len(rows))
  BY <1>6
<1>11. TypeOK'
  <2>1. call.op \in Operations
    BY DEF ListInv, TypeOK, Call
  <2>2. call'.at = "mutate" => call'.op = "ResolveThread"
    BY <1>8, <1>9, <2>1 DEF Operations
  <2> QED
    BY <1>4, <1>8, <1>9, <2>2 DEF ListInv, TypeOK
<1>12. Ordered'
  <2>1. cu < past.next
    <3>1. CASE rows = <<>>
      BY <1>2, <3>1 DEF ListInv, Ordered
    <3>2. CASE rows # <<>>
      <4>1. PICK i \in 1..Len(board) : rows[Len(rows)] = board[i]
        BY <1>6, <1>10, <3>2
      <4> QED
        BY <1>2, <1>5, <3>2, <4>1 DEF ListInv, Ordered
    <3> QED
      BY <3>1, <3>2
  <2> QED
    BY <1>4, <1>8, <2>1 DEF ListInv, Ordered
<1>13. History'
  BY <1>4, <1>8 DEF ListInv, History
<1>14. Paging' /\ Notes'
  BY <1>4, <1>8, <1>9 DEF Paging, Notes
<1>15. Whole'
  BY <1>3, <1>4, <1>8 DEF ListInv, Whole, TypeOK
<1>16. \A k \in 1..Len(rows) : Seen(rows[k], past)
  BY <1>5, <1>6, <1>9 DEF ListInv, History
<1>17. /\ \A n \in Ids(rows) : n \in ResolvedIds(ToSet(rows)) \/ n \in past.wasOpen
       /\ ResolvedIds(ToSet(rows)) \subseteq past.wasResolved
       /\ \A k \in 1..Len(rows) : rows[k].id \in Ids(rows)
  BY <1>10, <1>16 DEF Ids, ResolvedIds, ToSet, Seen
<1>18. ASSUME call.op = "ListBotThreads"
       PROVE  /\ st \subseteq past.wasResolved
              /\ \A n \in ix : n \in st \/ n \in past.wasOpen
              /\ \A i \in 1..Len(board) :
                    board[i].id <= cu \/ ~HasNextPage => board[i].id \in ix
  <2>1. /\ call.states \subseteq past.wasResolved
        /\ \A n \in call.indexed : n \in call.states \/ n \in past.wasOpen
        /\ \A i \in 1..Len(board) : board[i].id <= call.cursor => board[i].id \in call.indexed
    BY <1>3, <1>5, <1>18 DEF ListInv, Indexing
  <2>2. ASSUME NEW i \in 1..Len(board), board[i].id <= cu \/ ~HasNextPage
        PROVE  board[i].id \in ix
    <3>1. CASE board[i].id <= call.cursor
      BY <1>2, <2>1, <3>1
    <3>2. CASE \E k \in 1..Len(rows) : rows[k] = board[i]
      BY <1>2, <1>17, <3>2
    <3>3. CASE HasNextPage /\ Len(rows) > 0 /\ board[i].id > rows[Len(rows)].id
      <4>1. rows # <<>> /\ cu = rows[Len(rows)].id
        BY <1>2, <3>3
      <4>2. PICK j \in 1..Len(board) : rows[Len(rows)] = board[j]
        BY <1>6, <1>10, <4>1
      <4>3. ~(board[i].id <= cu)
        BY <1>5, <3>3, <4>1, <4>2
      <4> QED
        BY <2>2, <3>3, <4>3
    <3> QED
      BY <1>7, <3>1, <3>2, <3>3
  <2> QED
    BY <1>2, <1>17, <2>1, <2>2
<1>19. ASSUME call.op = "ListBotThreads", ~past.removed
       PROVE  \A r \in call.listed : \E i \in 1..Len(board) : board[i].id = r.id
  BY <1>3, <1>5, <1>19 DEF ListInv, Indexing
<1>20. Indexing'
  BY <1>4, <1>5, <1>8, <1>18, <1>19 DEF Indexing
<1>21. ReportedStateWasReal'
  <2>1. ASSUME ListingDone', ~past.removed, NEW r \in call.listed
        PROVE  IF r.id \in st THEN r.id \in past.wasResolved ELSE r.id \in past.wasOpen
    <3>1. call.op = "ListBotThreads" /\ ~HasNextPage
      BY <1>8, <2>1 DEF ListingDone
    <3>2. PICK i \in 1..Len(board) : board[i].id = r.id
      BY <1>19, <2>1, <3>1
    <3>3. r.id \in ix
      BY <1>18, <3>1, <3>2
    <3> QED
      BY <1>18, <3>1, <3>3
  <2> QED
    BY <1>4, <1>8, <2>1 DEF ReportedStateWasReal
<1> QED
  BY <1>11, <1>12, <1>13, <1>14, <1>15, <1>20, <1>21 DEF ListInv

(* An answer in which the threads are null ends the index.                 *)
LEMMA PartialGraphQLInv ==
    ASSUME ListInv, PartialGraphQL
    PROVE  ListInv'
<1>1. /\ call.at = "index" /\ call \in Call /\ call.op # "none" /\ call.op # "UpsertComment"
      /\ call.out = "none" /\ kind = "threads" /\ past \in Past /\ call.op \in Operations
  BY DEF PartialGraphQL, Running, ListInv, TypeOK, Call
<1>2. /\ call' \in Call /\ SameCall(call', call)
      /\ \/ call'.at = "done" /\ call'.out = "ok" /\ call.op = "ListBotThreads"
         \/ call'.at = "done" /\ call'.out = "err"
         \/ call'.at = "mutate" /\ call'.out = call.out /\ call.op # "ListBotThreads"
  <2>1. PICK d : d = Indexed(call)
    OBVIOUS
  <2>2. call' = d
    BY <2>1 DEF PartialGraphQL
  <2> QED
    BY <1>1, <2>1, <2>2, IndexedIs
<1>3. /\ past' \in Past /\ past'.next = past.next /\ past'.atStart = past.atStart
      /\ past'.wasOpen = past.wasOpen /\ past'.wasResolved = past.wasResolved
      /\ past'.removed = past.removed /\ past'.partial
  <2>1. past.faults + 1 \in Nat
    BY <1>1 DEF Past
  <2>2. PICK n \in Nat, t \in BOOLEAN : n = past.faults + 1 /\ t = TRUE
    BY <2>1
  <2>3. past' = [past EXCEPT !.partial = t, !.faults = n]
    BY <2>2 DEF PartialGraphQL
  <2>4. /\ past' \in Past /\ past'.next = past.next /\ past'.atStart = past.atStart
        /\ past'.wasOpen = past.wasOpen /\ past'.wasResolved = past.wasResolved
        /\ past'.removed = past.removed /\ past'.partial = t
    BY <1>1, <2>3 DEF Past
  <2> QED
    BY <2>2, <2>4
<1>4. adapter' = adapter /\ kind' = kind /\ board' = board /\ flight' = flight
  BY DEF PartialGraphQL, Stay
<1>5. TypeOK'
  <2>1. call'.at = "mutate" => call'.op = "ResolveThread"
    BY <1>1, <1>2 DEF Operations, SameCall
  <2> QED
    BY <1>1, <1>2, <1>3, <1>4, <2>1 DEF ListInv, TypeOK, SameCall
<1>6. Ordered'
  BY <1>2, <1>3, <1>4 DEF ListInv, Ordered, SameCall
<1>7. History'
  BY <1>2, <1>3, <1>4 DEF ListInv, History, Seen, SameCall
<1>8. Paging' /\ Notes' /\ ReportedStateWasReal'
  BY <1>1, <1>2, <1>3, <1>4 DEF Paging, Notes, ReportedStateWasReal
<1>9. Whole'
  BY <1>1, <1>2, <1>3, <1>4 DEF ListInv, Whole, SameCall
<1>10. Indexing'
  BY <1>1, <1>2, <1>3, <1>4 DEF ListInv, Indexing, SameCall
<1> QED
  BY <1>5, <1>6, <1>7, <1>8, <1>9, <1>10 DEF ListInv

-----------------------------------------------------------------------------
(* The theorems.                                                           *)

(* The invariant holds on every board a run may start on.                  *)
LEMMA ListInit == Init => ListInv
<1> SUFFICES ASSUME Init PROVE ListInv
  OBVIOUS
<1>1. /\ adapter \in {"github", "gitlab"} /\ kind \in {"threads", "notes"} /\ flight = 0
      /\ board \in InitialBoards[kind] /\ call = NoCall
  BY DEF Init
<1>2. board \in Seq(Row) /\ \A i \in DOMAIN board : board[i].id = i
  BY <1>1, BoardsAssumption
<1>3. kind = "notes" => Cardinality(Summaries) <= 1
  BY <1>1, BoardsAssumption DEF Summaries
<1>4. DOMAIN board = 1..Len(board) /\ Len(board) \in Nat
  BY <1>2
<1>5. /\ call \in Call /\ call.op = "none" /\ call.at = "done" /\ call.cursor = 0
      /\ call.listed = {} /\ call.out = "none"
  <2>1. "none" \in Operations /\ "done" \in Stages
    BY DEF Operations, Stages
  <2> QED
    BY <1>1, <2>1 DEF NoCall, Call
<1>6. /\ past \in Past /\ past.next = Len(board) + 1 /\ past.late = 0 /\ past.raced = 0
      /\ past.atStart = {}
  <2>0. Len(board) + 1 \in Nat
    BY <1>4
  <2>1. PICK n \in Nat, f \in BOOLEAN : n = Len(board) + 1 /\ f = FALSE
    BY <2>0
  <2>2. past = [next |-> n, calls |-> 0, events |-> 0, faults |-> 0, atStart |-> {},
                wasOpen |-> {}, wasResolved |-> {}, removed |-> f, partial |-> f,
                late |-> 0, raced |-> 0]
    BY <2>1 DEF Init
  <2> QED
    BY <2>1, <2>2 DEF Past
<1>7. TypeOK
  BY <1>1, <1>2, <1>5, <1>6 DEF TypeOK
<1>8. Ordered
  BY <1>2, <1>4, <1>5, <1>6 DEF Ordered
<1>9. Notes
  <2>1. Cardinality(Summaries) \in Nat
    BY <1>7, Fields
  <2> QED
    BY <1>3, <1>5, <1>6, <2>1 DEF Notes
<1>10. History /\ Paging /\ Whole /\ Indexing /\ ReportedStateWasReal
  BY <1>5 DEF History, Paging, Whole, Indexing, ReportedStateWasReal, ListingDone
<1> QED
  BY <1>7, <1>8, <1>9, <1>10 DEF ListInv

(* Every step keeps it.                                                    *)
LEMMA ListNext == ListInv /\ [Next]_vars => ListInv'
<1> SUFFICES ASSUME ListInv, [Next]_vars PROVE ListInv'
  OBVIOUS
<1>1. CASE ForgeEvents
  BY <1>1, CommentPostedInv, CommentDeletedInv, MarkerCorruptedInv, ThreadToggledInv,
     LateWriteLandsInv DEF ForgeEvents
<1>2. CASE BeginList
  <2>1. CASE kind = "threads"
    <3>1. Begin("ListBotThreads", "page", 0)
      BY <1>2, <2>1 DEF BeginList
    <3> QED
      BY <2>1, <3>1, BeginInv DEF Operations
  <2>2. CASE kind # "threads"
    <3>1. Begin("UpsertComment", "page", 0) /\ kind = "notes"
      BY <1>2, <2>2 DEF BeginList, ListInv, TypeOK
    <3> QED
      BY <3>1, BeginInv DEF Operations
  <2> QED
    BY <2>1, <2>2
<1>3. ASSUME NEW id \in Ids(board), BeginResolve(id) PROVE ListInv'
  <2>1. id \in Nat
    BY StatesOfBoard DEF ListInv
  <2>2. kind = "threads" /\ Begin("ResolveThread", "index", id)
    BY <1>3 DEF BeginResolve
  <2> QED
    BY <2>1, <2>2, BeginInv DEF Operations
<1>4. CASE CallSteps
  BY <1>4, ListPageInv, ReviewThreadIndexInv, PartialGraphQLInv, ResolveReviewThreadInv,
     CreateNoteInv, PlainStepsInv DEF CallSteps, ListBotThreads, ListBotNotes
<1>5. CASE UNCHANGED vars
  BY <1>5 DEF vars, ListInv, TypeOK, Ordered, History, Seen, Paging, Served, Has, Whole, Indexing,
     Notes, Summaries, ReportedStateWasReal, ListingDone
<1> QED
  BY <1>1, <1>2, <1>3, <1>4, <1>5 DEF Next

(* It holds in every behaviour.                                            *)
LEMMA ListHolds == Spec => []ListInv
BY ListInit, ListNext, PTL DEF Spec

(* A thread listing that returns misses no bot thread that was there all    *)
(* along and lists the bot's own rows only, for every board, page size and  *)
(* page cap and whatever is posted, corrupted, deleted ahead of the pages   *)
(* or tried again between them (ListBotThreads: the page loop, its cap, the *)
(* author filter).                                                          *)
THEOREM ListingsAreWhole == Spec => []ListingMissesNothing
<1>1. ListInv => ListingMissesNothing
  <2> SUFFICES ASSUME ListInv, ListingDone PROVE
          /\ \A r \in call.listed : r.own
          /\ ~past.removed => \A r \in ToSet(board) :
                (Mine(r) /\ r.id \in past.atStart) => \E x \in call.listed : x.id = r.id
    BY DEF ListingMissesNothing
  <2>1. call.op = "ListBotThreads" /\ call.at # "page" /\ call.out # "err"
    BY DEF ListInv, TypeOK, ListingDone
  <2>2. \A r \in ToSet(board) : \E i \in DOMAIN board : r = board[i]
    BY DEF ToSet
  <2> QED
    BY <2>1, <2>2 DEF ListInv, Whole, Has
<1> QED
  BY <1>1, ListHolds, PTL

(* The state reported with a thread is one it had during the call, although *)
(* GitHub reads it in later pages by cursor, unless a thread was deleted or *)
(* an answer lacked its data (reviewThreadIndex, withResolutionStates).     *)
THEOREM ReportedStatesAreReal == Spec => []ReportedStateWasReal
<1>1. ListInv => ReportedStateWasReal
  BY DEF ListInv
<1> QED
  BY <1>1, ListHolds, PTL

(* There are never more summaries than one for each create that landed      *)
(* late, one for each listing a deletion moved, and one: neither retried    *)
(* reads nor failing writes add any (UpsertComment, ListBotNotes).          *)
THEOREM ExtraSummariesHaveCauses == Spec => []ExtraSummaryHasACause
<1>1. ListInv => ExtraSummaryHasACause
  BY DEF ListInv, Notes, Summaries, ExtraSummaryHasACause
<1> QED
  BY <1>1, ListHolds, PTL
==============================================================================
