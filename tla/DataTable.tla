----------------------------- MODULE DataTable -----------------------------
(***************************************************************************)
(* The table of every list page (src/web/src/components/DataTable.tsx): a  *)
(* filter, a sort and pages over rows that change under it.  A table is    *)
(* the component's own state:                                              *)
(*   matches    the names that contain the text of the search box (all of  *)
(*              them contain the empty text)                               *)
(*   sortKey    the column sorted by, or NoKey                             *)
(*   ascending  the direction                                              *)
(*   page       the page shown, from 1                                     *)
(* Rows are records with a field name, the search accessor of every page.  *)
(***************************************************************************)
EXTENDS Arrays

CONSTANTS Names, PageSize, NoKey

\* A table in memory has finitely many rows.
ASSUME DataTableAssumption == IsFiniteSet(Names) /\ PageSize \in Nat \ {0}

TableOf(Keys) == [matches: SUBSET Names, sortKey: Keys \cup {NoKey},
                  ascending: BOOLEAN, page: Nat \ {0}]

FreshTable == [matches |-> Names, sortKey |-> NoKey, ascending |-> TRUE, page |-> 1]

Found(table, rows) == filter(rows, LAMBDA r : r.name \in table.matches)

(* What a sort compares: String() of the element a column's accessor       *)
(* returns.  Every accessor of every page returns an element and not a     *)
(* string, so the text is the same for all rows ("[object Object]", or 0   *)
(* for a numeric column).                                                  *)
CellRank(row, key) == 0

\* Array.prototype.sort is stable.
Sorted(table, rows) ==
    LET rank(i) == CellRank(rows[i], table.sortKey)
        Before(i, j) ==
            \/ IF table.ascending THEN rank(i) < rank(j) ELSE rank(j) < rank(i)
            \/ rank(i) = rank(j) /\ i < j
        order == SortedBy(DOMAIN rows, Before)
    IN  IF table.sortKey = NoKey THEN rows
        ELSE [i \in DOMAIN rows |-> rows[order[i]]]

Filtered(table, rows) == Sorted(table, Found(table, rows))

TotalPages(table, rows) == (Len(Filtered(table, rows)) + PageSize - 1) \div PageSize

Paged(table, rows) ==
    LET all  == Filtered(table, rows)
        last == IF table.page * PageSize < Len(all) THEN table.page * PageSize ELSE Len(all)
    IN  SubSeq(all, (table.page - 1) * PageSize + 1, last)

\* The body is the message "No data found." when the page has no row.
ShowsNoData(table, rows) == Paged(table, rows) = <<>>

\* The pager is shown, and its two buttons are enabled.
HasPager(table, rows) == TotalPages(table, rows) > 1
CanPrev(table, rows) == HasPager(table, rows) /\ table.page > 1

\* Faulty variant: one page too many.
CanNextPastEnd(table, rows) == HasPager(table, rows) /\ table.page <= TotalPages(table, rows)

CanNext(table, rows) == HasPager(table, rows) /\ table.page < TotalPages(table, rows)

Searched(table, matches) == [table EXCEPT !.matches = matches, !.page = 1]

handleSort(table, key) ==
    IF table.sortKey = key
    THEN [table EXCEPT !.ascending = ~@, !.page = 1]
    ELSE [table EXCEPT !.sortKey = key, !.ascending = TRUE, !.page = 1]

ToPrev(table) == [table EXCEPT !.page = @ - 1]
ToNext(table) == [table EXCEPT !.page = @ + 1]
=============================================================================
