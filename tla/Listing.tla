------------------------------ MODULE Listing ------------------------------
(***************************************************************************)
(* The table every page lists its rows in (client, DataTable): a filter    *)
(* per column with the values that occur in it, a search, a sort order and  *)
(* pages.  Rows, order and page are computed anew in each render; that a   *)
(* filter, a search or new rows lead back to the first page is an effect,  *)
(* which runs after a render that still has the old page.                  *)
(***************************************************************************)
EXTENDS Integers, Sequences, FiniteSets

CONSTANTS
  Columns,          \* columns that can be filtered and sorted by
  Lists,            \* what the page may be given: sequences of rows
  CellOf,           \* row -> column -> its value, NoCell when there is none
  Terms, Words,     \* what may be searched for; row -> the terms it contains
  PageSize,         \* rows on a page
  NoCell            \* no value, no filter, no search, no order

ASSUME ListingAssumption ==
  /\ Lists \subseteq Seq(DOMAIN CellOf) /\ PageSize \in Nat \ {0}
  /\ NoCell \notin Int /\ NoCell \notin Columns \X {"asc", "desc"}
  /\ \A r \in DOMAIN CellOf : \A c \in Columns : CellOf[r][c] \in Int \cup {NoCell}

VARIABLES
  rows, view,       \* given by the page: rows, and "ready", "loading", "error"
  filters, query,   \* the filter of each column, the search
  order, page,      \* column and direction, the page asked for
  dirty             \* the effect has not run since filter, search or rows changed
listingVars == <<rows, view, filters, query, order, page, dirty>>

ListingTypeOK ==
  /\ rows \in Lists /\ view \in {"ready", "loading", "error"} /\ dirty \in BOOLEAN
  /\ query \in Terms \cup {NoCell} /\ page >= 1
  /\ \A c \in Columns : filters[c] = NoCell \/ \E r \in DOMAIN CellOf : filters[c] = CellOf[r][c]
  /\ order = NoCell \/ order \in Columns \X {"asc", "desc"}

(***************************************************************************)
(* A render.                                                               *)
(***************************************************************************)
FilterOptions(c) == {CellOf[rows[i]][c] : i \in DOMAIN rows} \ {NoCell}
VisibleFilterColumns == {c \in Columns : Cardinality(FilterOptions(c)) > 1}
Passes(r) ==
  /\ \A c \in Columns : filters[c] # NoCell => CellOf[r][c] = filters[c]
  /\ query # NoCell => query \in Words[r]
Matching == {i \in DOMAIN rows : Passes(rows[i])}
(* A row without a value comes last in either direction; rows that the     *)
(* order does not tell apart stay as they were given.                      *)
Precedes(r, s) ==
  LET a == CellOf[r][order[1]]  b == CellOf[s][order[1]] IN
  /\ order # NoCell /\ a # NoCell
  /\ b = NoCell \/ IF order[2] = "asc" THEN a < b ELSE a > b
Ahead(i, j) == Precedes(rows[i], rows[j]) \/ (~Precedes(rows[j], rows[i]) /\ i < j)
Rank(i) == Cardinality({j \in Matching : Ahead(j, i)})

TotalPages == IF Matching = {} THEN 1 ELSE (Cardinality(Matching) + PageSize - 1) \div PageSize
LeftToTheEffect == page   \* broken variant: the page is what was asked for
SafePage == IF page <= TotalPages THEN page ELSE TotalPages
PageOf(n) == {i \in Matching : (n - 1) * PageSize <= Rank(i) /\ Rank(i) < n * PageSize}
Paginated == PageOf(SafePage)

(***************************************************************************)
(* What the operator does, on what the last render shows him.              *)
(***************************************************************************)
Shown == view = "ready" /\ rows # <<>>
HandleFilterChange(c, v) ==
  /\ Shown /\ c \in VisibleFilterColumns /\ v \in FilterOptions(c) \cup {NoCell}
  /\ filters' = [filters EXCEPT ![c] = v] /\ dirty' = TRUE
  /\ UNCHANGED <<rows, view, query, order, page>>
(* The button is one of the filters: it goes when none of them is shown.   *)
ClearFilters ==
  /\ Shown /\ VisibleFilterColumns # {} /\ \E c \in Columns : filters[c] # NoCell
  /\ filters' = [c \in Columns |-> NoCell] /\ dirty' = TRUE
  /\ UNCHANGED <<rows, view, query, order, page>>
Search(t) ==
  /\ Shown /\ t # query /\ query' = t /\ dirty' = TRUE
  /\ UNCHANGED <<rows, view, filters, order, page>>

NextOrder(c) ==
  IF order = NoCell \/ order[1] # c THEN <<c, "asc">>
  ELSE IF order[2] = "asc" THEN <<c, "desc">> ELSE NoCell
HandleSort(c) ==
  /\ Shown /\ Matching # {} /\ order' = NextOrder(c) /\ page' = 1
  /\ UNCHANGED <<rows, view, filters, query, dirty>>
Turns == {SafePage - 1, SafePage + 1} \cup 1..TotalPages
HandlePageChange(n) ==
  /\ Shown /\ TotalPages > 1 /\ n \in Turns \cap 1..TotalPages /\ page' = n
  /\ UNCHANGED <<rows, view, filters, query, order, dirty>>
BackToFirst ==
  /\ dirty /\ dirty' = FALSE /\ page' = 1
  /\ UNCHANGED <<rows, view, filters, query, order>>

(* The page loads its rows again, and gets others, or an error, with which *)
(* some pages keep the rows they had; most hand over a new array each time *)
(* they are rendered themselves.                                           *)
Reload ==
  /\ view # "loading" /\ view' = "loading"
  /\ UNCHANGED <<rows, filters, query, order, page, dirty>>
Arrive(s) ==
  /\ view = "loading" /\ view' \in {"ready", "error"} /\ rows' = s /\ dirty' = TRUE
  /\ UNCHANGED <<filters, query, order, page>>
RenderPage ==
  /\ Shown /\ dirty' = TRUE
  /\ UNCHANGED <<rows, view, filters, query, order, page>>

ListingInit ==
  /\ rows \in Lists /\ view = "ready" /\ filters = [c \in Columns |-> NoCell] /\ query = NoCell
  /\ order = NoCell /\ page = 1 /\ dirty = TRUE
ListingNext ==
  \/ \E c \in Columns : HandleSort(c) \/ \E v \in {CellOf[r][c] : r \in DOMAIN CellOf} \cup {NoCell} : HandleFilterChange(c, v)
  \/ ClearFilters \/ (\E t \in Terms \cup {NoCell} : Search(t))
  \/ (\E n \in Turns : HandlePageChange(n)) \/ BackToFirst
  \/ Reload \/ RenderPage \/ \E s \in Lists : Arrive(s)
ListingSpec == ListingInit /\ [][ListingNext]_listingVars

(***************************************************************************)
(* Property.                                                               *)
(***************************************************************************)
(* A table never looks empty while rows match: also in the render between  *)
(* a change and the effect that resets the page, the page shown has rows   *)
(* on it, and every row that matches is on one of the pages the buttons    *)
(* lead to, in whatever order the table is sorted (DataTable.jsx:52-98).   *)
RowsReachable == Shown /\ Matching # {} =>
  /\ Paginated # {}
  /\ \A i \in Matching : \E n \in 1..TotalPages : i \in PageOf(n)
=============================================================================
