------------------------------- MODULE Paging -------------------------------
(***************************************************************************)
(* Reading a listing page by page, as GET /violations and GET /vehicles    *)
(* offer it.  A request for a page is two statements, the page and then    *)
(* the count of all rows, and between any two statements rows come and go. *)
(*                                                                         *)
(* One caller walks through the listing: page after page until the answers *)
(* say that the last one is reached, asking again for a page that failed.  *)
(*                                                                         *)
(* The rows are those the caller's listing is about.  They are ordered by  *)
(* created_at, newest first, and nothing orders rows of the same           *)
(* created_at: each statement is free to return them as it likes.          *)
(***************************************************************************)
EXTENDS FiniteSets, FiniteSetsExt, Tables, PageOffset

CONSTANTS
    Ids,          \* the rows there may be
    Stamps,       \* the values of created_at
    PageTexts, SizeTexts,  \* page and page_size of a request, as numbers
    DefaultSize, MaxSize   \* 20 and 100 in the code

\* There are fewer rows than numbers an offset can be.
ASSUME PagingAssumption ==
    /\ IsFiniteSet(Ids) /\ Stamps \subseteq Nat
    /\ PageTexts \subseteq Int /\ SizeTexts \subseteq Int
    /\ MaxSize \in Nat \ {0} /\ DefaultSize \in 1..MaxSize
    /\ Cardinality(Ids) < Half

VARIABLES
    rows,   \* id -> created_at
    page, size,  \* the page asked for, and how many rows it may have
    pc,
    slice,  \* the rows read for the page
    first,  \* history: the page the walk began with
    seen,   \* history: the rows the caller has been shown
    due     \* history: the rows the walk has to show, see Owed

vars == <<rows, page, size, pc, slice, first, seen, due>>
walk == <<page, size, pc, slice, first, seen>>

Services == {"violations", "vehicles"}

TypeOK ==
    /\ DOMAIN rows \subseteq Ids /\ rows \in [DOMAIN rows -> Stamps]
    /\ page \in Nat \ {0} /\ first \in 1..page
    /\ size \in 1..MaxSize
    /\ pc \in {"idle", "ListPage", "Count", "done"}
    /\ slice \subseteq Ids /\ seen \subseteq Ids /\ due \subseteq DOMAIN rows

\* Whatever rows there are, and no walk yet.
Init ==
    /\ \E ids \in SUBSET Ids : rows \in [ids -> Stamps]
    /\ page = 1 /\ size = DefaultSize /\ pc = "idle"
    /\ slice = {} /\ first = 1 /\ seen = {} /\ due = {}

-----------------------------------------------------------------------------

\* (mutant) page 0 is asked for as it is
PageNumberUnchecked(text) == text

\* What is not a number has become 0.
PageNumber(text) == IF text < 1 THEN 1 ELSE text

\* (mutant) a page may be as large as the caller likes
PageSizeUnbounded(service, text) == IF text < 1 THEN DefaultSize ELSE text

\* The services agree but for what is too large.
PageSize(service, text) ==
    IF text < 1 THEN DefaultSize
    ELSE IF text <= MaxSize THEN text
    ELSE IF service = "vehicles" THEN MaxSize ELSE DefaultSize

Offset == OffsetOf(page, size)

Newer(v)    == {w \in DOMAIN rows : rows[w] > rows[v]}
Unshared(v) == \A w \in DOMAIN rows : rows[w] = rows[v] => w = v

\* The rows a walk from a page on owes its caller when it begins: those
\* that are there, not before that page, with a created_at of their own.
Owed(from, length) ==
    {v \in DOMAIN rows :
        Unshared(v) /\ Cardinality(Newer(v)) >= (from - 1) * length}

\* The request with the first page of the walk.
Ask(service, pageText, sizeText) ==
    /\ pc = "idle"
    /\ page' = PageNumber(pageText)
    /\ size' = PageSize(service, sizeText)
    /\ first' = page'
    /\ due' = Owed(page', size')
    /\ pc' = "ListPage"
    /\ UNCHANGED <<rows, slice, seen>>

\* No row of later is newer than one of sooner.
Before(sooner, later) ==
    \A v \in sooner, w \in later : rows[v] >= rows[w]

\* (mutant) ORDER BY has lost its DESC
SlicesAscending ==
    {some \in SUBSET DOMAIN rows :
       \E skipped \in SUBSET (DOMAIN rows \ some) :
          LET n == Cardinality(DOMAIN rows) IN
          /\ Cardinality(skipped) = Min({Offset, n})
          /\ Cardinality(some) = Min({size, n - Min({Offset, n})})
          /\ Before(DOMAIN rows \ skipped, skipped)
          /\ Before(DOMAIN rows \ (skipped \cup some), some)}

\* What ORDER BY created_at DESC, OFFSET and LIMIT may return.
Slices ==
    {some \in SUBSET DOMAIN rows :
       \E skipped \in SUBSET (DOMAIN rows \ some) :
          LET n == Cardinality(DOMAIN rows) IN
          /\ Cardinality(skipped) = Min({Offset, n})
          /\ Cardinality(some) = Min({size, n - Min({Offset, n})})
          /\ Before(skipped, DOMAIN rows \ skipped)
          /\ Before(some, DOMAIN rows \ (skipped \cup some))}

\* A negative offset is refused, always.
ListPage ==
    /\ pc = "ListPage"
    /\ Offset >= 0
    /\ \E some \in Slices : slice' = some
    /\ pc' = "Count"
    /\ UNCHANGED <<rows, page, size, first, seen, due>>

\* page >= page_count in the violations' answer; the vehicles' has only
\* the total.
IsLast(total) == page * size >= total

\* The count is read and the answer sent.
Count ==
    /\ pc = "Count"
    /\ seen' = seen \cup slice
    /\ slice' = {}
    /\ LET total == Cardinality(DOMAIN rows) IN
       \/ IsLast(total) /\ pc' = "done" /\ UNCHANGED page
       \/ ~IsLast(total) /\ pc' = "ListPage" /\ page' = page + 1
    /\ UNCHANGED <<rows, size, first, due>>

\* Either statement fails, the answer is 500 or lost, and the caller asks
\* for the same page again.
Retry ==
    /\ pc \in {"ListPage", "Count"}
    /\ pc' = "ListPage"
    /\ slice' = {}
    /\ UNCHANGED <<rows, page, size, first, seen, due>>

\* A row comes to be in the listing: new, or as old as the plate that has
\* become the caller's.  It takes a created_at it shares from the owed.
AddRow(v, stamp) ==
    /\ v \notin DOMAIN rows
    /\ rows' = Insert(rows, v, stamp)
    /\ due' = {w \in due : rows[w] # stamp}
    /\ UNCHANGED walk

\* A vehicle is deleted, and with it goes its row or the violations of its
\* plate.  All older rows move up, across the edge of a page perhaps: they
\* are owed no longer.
RemoveRow(v) ==
    /\ v \in DOMAIN rows
    /\ rows' = Delete(rows, v)
    /\ due' = {w \in due : rows[w] > rows[v]}
    /\ UNCHANGED walk

Next ==
    \/ \E s \in Services, p \in PageTexts, n \in SizeTexts : Ask(s, p, n)
    \/ ListPage \/ Count \/ Retry
    \/ \E v \in Ids, t \in Stamps : AddRow(v, t)
    \/ \E v \in Ids : RemoveRow(v)

Spec == Init /\ [][Next]_vars

-----------------------------------------------------------------------------
(* Properties.                                                             *)

\* When the answers say that the walk is over, it has shown every row there
\* was when it began, whatever has been inserted meanwhile and whatever
\* older rows have been removed, though page and count are two statements
\* and each page is a request of its own.  Excepted are rows that share
\* their created_at, and rows that moved up because a newer one was removed.
WalkFindsAll == pc = "done" => due \subseteq seen

\* The offset of a page is the number it stands for, although it is cut to
\* 32 bits, on every page that a walk reaches which began with an offset
\* that fits.
OffsetsAreExact ==
    (first - 1) * size < Half =>
        /\ Offset >= 0
        /\ Offset = (page - 1) * size

\* Why a walk finds all: a row that is owed and not shown yet has its place
\* on the page that is asked for or after it, and once that page is read, on
\* what was read or after it.  And no page beyond the first is asked for
\* unless its offset is that of a row there may be.
Beyond(v, n) == Cardinality(Newer(v)) >= n * size

PagingInv ==
    /\ TypeOK
    /\ pc # "done" =>
          \A v \in due \ seen :
              /\ Beyond(v, page - 1)
              /\ pc = "Count" => v \in slice \/ Beyond(v, page)
    /\ \A v \in due : Unshared(v)
    /\ pc # "Count" => slice = {}
    /\ page > first => (page - 1) * size < Cardinality(Ids)
    /\ WalkFindsAll

=============================================================================
