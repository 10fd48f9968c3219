------------------------------- MODULE Paging -------------------------------
(***************************************************************************)
(* Keyset pagination (core/pagination.py): walk_pages over each of the      *)
(* three implementations of a page, for every table of a few rows.          *)
(***************************************************************************)
EXTENDS Naturals, Sequences, SequencesExt, FiniteSets

CONSTANTS
    CreatedAt,   \* timestamps
    Id,          \* ids
    PageLimit,   \* the page sizes that the run looks at
    MaxPages     \* max_pages

ASSUME PagingAssumption ==
    /\ CreatedAt \subseteq Nat /\ Id \subseteq Nat /\ IsFiniteSet(Id)
    /\ PageLimit \subseteq Nat \ {0}

VARIABLES
    pager,       \* the implementation: "page", "inclusive" or "composite"
    listing,     \* the rows, in descending order
    pageLimit,   \* limit
    cursor,      \* <<>> for None, else <<the cursor>>
    delivered,   \* `seen' of walk_pages
    pages        \* pages fetched; the walk is over when walking is FALSE

VARIABLE walking

pagingVars == <<pager, listing, pageLimit, cursor, delivered, pages, walking>>

Row == [created_at : CreatedAt, id : Id]

\* The order of tuples.
Precedes(a, b) ==
    a.created_at > b.created_at \/ (a.created_at = b.created_at /\ a.id > b.id)

\* The preconditions: page and page_inclusive are promised the order of
\* created_at only, with the ties in any order; page_composite the whole key.
InOrder(a, b) == IF pager = "composite" THEN Precedes(a, b) ELSE a.created_at >= b.created_at

\* The tables: an id names one row.
Listings ==
    {rs \in BoundedSeq(Row, Cardinality(Id)) :
        \A i, j \in DOMAIN rs : i < j => rs[i].id # rs[j].id /\ InOrder(rs[i], rs[j])}

PagingInit ==
    /\ pager \in {"page", "inclusive", "composite"}
    /\ listing \in Listings
    /\ pageLimit \in PageLimit
    /\ cursor = <<>> /\ delivered = <<>> /\ pages = 0 /\ walking = TRUE

\* Mutant: the composite cursor compares one column.
After_FirstColumn(row) == row.created_at < cursor[1].created_at

\* The WHERE clause, for a cursor that is there.
After(row) ==
    CASE pager = "page" -> row.created_at < cursor[1].created_at
      [] pager = "inclusive" -> row.created_at <= cursor[1].created_at
      [] pager = "composite" -> Precedes(cursor[1], row)

\* The rows that pass it, in their order: all of them when there is no cursor.
Rest ==
    LET kept == {i \in DOMAIN listing : cursor # <<>> => After(listing[i])}
        nth(n) == CHOOSE i \in kept : Cardinality({j \in kept : j <= i}) = n
    IN  [n \in 1..Cardinality(kept) |-> listing[nth(n)]]

\* The page, and the cursor for the next one: the last row, if the page is full.
NextPage == SubSeq(Rest, 1, IF Len(Rest) < pageLimit THEN Len(Rest) ELSE pageLimit)

nextPage ==
    /\ walking /\ pages < MaxPages
    /\ delivered' = delivered \o NextPage
    /\ cursor' = IF Len(NextPage) = pageLimit THEN <<Last(NextPage)>> ELSE <<>>
    /\ walking' = (Len(NextPage) = pageLimit)
    /\ pages' = pages + 1
    /\ UNCHANGED <<pager, listing, pageLimit>>

PagingNext == nextPage

PagingSpec == PagingInit /\ [][PagingNext]_pagingVars

-----------------------------------------------------------------------------
(* Properties. *)

\* "Walking the pages until next_cursor is None must yield every input row
\* exactly once": the composite cursor always has the rows so far, in order,
\* and ends with all of them, within one page more than they fill. The cursor
\* `<' never repeats a row and terminates, and loses only rows that share their
\* timestamp with one that it delivered; `<=' loses nothing, if it terminates.
WalkIsComplete ==
    LET shown == {delivered[i] : i \in DOMAIN delivered}
        missing == {listing[i] : i \in DOMAIN listing} \ shown
    IN  /\ pager = "composite" =>
              /\ IsPrefix(delivered, listing)
              /\ ~walking => delivered = listing
        /\ pager = "page" =>
              /\ Cardinality(shown) = Len(delivered)
              /\ ~walking => \A row \in missing : \E s \in shown : s.created_at = row.created_at
        /\ pager # "inclusive" => pageLimit * (pages - 1) <= Len(listing)
        /\ pager = "inclusive" /\ ~walking => missing = {}
=============================================================================
