---------------------------- MODULE ScanPlanning ----------------------------
(***************************************************************************)
(* What a scan of an attached table takes over from DuckDB while a query   *)
(* is planned (src/src/cpp/rust_bridge_scan_planning.cpp): one equality    *)
(* filter, which DuckDB then no longer evaluates, and, for an ascending    *)
(* order by row metadata with a LIMIT, the order and the LIMIT, which      *)
(* DuckDB applies again to what comes back.                                *)
(*                                                                         *)
(* The planner is external.  It offers the filters that are left, any      *)
(* number of times, then the first key of ORDER BY.  The scan cannot see   *)
(* whether there are more keys: it relies on the row limit, which the      *)
(* planner gives with a key only if that key is the whole order and no     *)
(* filter is left to be evaluated above the scan (RowLimitGiven).          *)
(***************************************************************************)
EXTENDS Integers, FiniteSets, Sequences

CONSTANTS
  Rows,         \* the rows of the table
  UserColumns,  \* columns of the document with single values
  ListColumns,  \* columns of the document with lists
  MetaColumns,  \* createdAt and updatedAt, columns of the attached table
  RowId,        \* the virtual column rowid
  Cell,         \* what the document holds, per row and column
  Null,         \* no value
  Odd,          \* a value that is not of its column's type
  Unwritable,   \* a constant that cannot be written into a query
  None          \* no filter or column

Columns == UserColumns \cup ListColumns \cup MetaColumns
Values == Nat \cup {Null, Unwritable}

(* column = value, column <> value.                                        *)
Conditions == [op : {"equal", "unequal"}, column : Columns \cup {RowId}, value : Values]

(* A key of ORDER BY.                                                      *)
Keys == [column : Columns \cup {RowId}, descending : BOOLEAN]

Ascending(c) == [column |-> c, descending |-> FALSE]

(* limit = 0 is no LIMIT.                                                  *)
Queries == [filters : SUBSET Conditions, order : Seq(Keys), limit : Nat]

ASSUME PlanningAssumption ==
  /\ IsFiniteSet(Rows)
  /\ \A c \in MetaColumns : c \notin UserColumns \cup ListColumns
  /\ \A c \in ListColumns : c \notin UserColumns
  /\ None \notin Columns /\ RowId \notin Columns \cup {None}
  /\ Null \notin Nat /\ Odd \notin Nat /\ Unwritable \notin Nat
  /\ Odd # Null /\ Unwritable # Null /\ Odd # Unwritable
  /\ None \notin Conditions
  /\ Cell \in [Rows -> [Columns \cup {RowId} -> Nat \cup {Null, Odd}]]
  /\ \A r \in Rows, c \in MetaColumns : Cell[r][c] \in Nat

VARIABLES
  query,    \* what the user asked for
  filters,  \* the filters DuckDB still evaluates
  bound     \* RustBridgeScanBindData: what is pushed

planVars == <<query, filters, bound>>

NothingPushed == [query |-> None, sortBy |-> None, limit |-> 0]
-----------------------------------------------------------------------------
(* Columns and their capabilities.                                         *)

(* Mutant: every column can be filtered.                                   *)
CanFilterAny(c) == c \in Columns

(* RUST_EXT_COLUMN_FILTER_EQUALITY.                                        *)
CanFilterEquality(c) == c \in UserColumns

(* RUST_EXT_COLUMN_SORT_ASC.                                               *)
CanSortBy(c) == c \in MetaColumns

(* What DuckDB is shown of a cell: a text that cannot be cast is NULL.     *)
Shown(r, c) == IF Cell[r][c] = Odd THEN Null ELSE Cell[r][c]

Holds(f, r) ==
  LET shown == Shown(r, f.column)
  IN  /\ shown # Null /\ f.value # Null
      /\ IF f.op = "equal" THEN shown = f.value ELSE shown # f.value

Satisfying(rows, conditions) == {r \in rows : \A f \in conditions : Holds(f, r)}

(* The rows endpoint is external: a query compares what the cell holds     *)
(* with the constant; of columns with lists and of metadata it knows       *)
(* nothing.                                                                *)
Listed(pushed) ==
  IF pushed = None THEN Rows
  ELSE {r \in Rows : pushed.column \in UserColumns /\ Cell[r][pushed.column] = pushed.value}
-----------------------------------------------------------------------------
(* The bind data DuckDB goes on with may be a copy.                        *)

(* Mutant: the filter, which DuckDB no longer has, is not copied.          *)
CopyWithoutQuery(b) == [query |-> None, sortBy |-> b.sortBy, limit |-> b.limit]

Copy(b) == [query |-> b.query, sortBy |-> b.sortBy, limit |-> b.limit]

Bind(q) ==
  /\ query' = q
  /\ filters' = q.filters
  /\ bound' = NothingPushed

(* TryExtractRustBridgeEqualityFilter and build_equality_query.            *)
Extractable(f) ==
  /\ f.op = "equal"
  /\ f.column # RowId
  /\ CanFilterEquality(f.column)
  /\ f.value \notin {Null, Unwritable}

(* Mutant: the next extractable filter replaces the one that is pushed.    *)
PushdownAgain ==
  /\ \E f \in filters :
       /\ Extractable(f)
       /\ bound' = [bound EXCEPT !.query = f]
       /\ filters' = filters \ {f}
  /\ UNCHANGED query

(* RustBridgeScanPushdownComplexFilter: the first filter that can be       *)
(* extracted, in whatever order they come, is taken away from DuckDB.      *)
PushdownFilter ==
  /\ bound.query = None
  /\ \E f \in filters :
       /\ Extractable(f)
       /\ bound' = [bound EXCEPT !.query = f]
       /\ filters' = filters \ {f}
  /\ UNCHANGED query

(* The callback leaves everything alone if a filter is pushed or none of   *)
(* those it is offered can be.                                             *)
NoPushdown ==
  /\ bound.query # None \/ \A f \in filters : ~Extractable(f)
  /\ UNCHANGED planVars

(* External: what DuckDB's planner passes as row_limit.                    *)
RowLimitGiven == query.limit > 0 /\ filters = {} /\ Len(query.order) = 1

(* Mutant: a descending order is pushed like an ascending one.             *)
TakesAnyOrder ==
  RowLimitGiven /\ CanSortBy(query.order[1].column)

TakesOrder ==
  /\ RowLimitGiven
  /\ ~query.order[1].descending
  /\ CanSortBy(query.order[1].column)

(* RustBridgeScanSetScanOrder.                                             *)
SetScanOrder ==
  /\ bound' = IF TakesOrder
              THEN [bound EXCEPT !.sortBy = query.order[1].column, !.limit = query.limit]
              ELSE bound
  /\ UNCHANGED <<query, filters>>
-----------------------------------------------------------------------------
(* The answers to a query.                                                 *)

KeyPrecedes(r, s, key) ==
  LET first == Shown(r, key.column)
      second == Shown(s, key.column)
  IN  /\ first # Null /\ second # Null
      /\ IF key.descending THEN first > second ELSE first < second

(* r comes before s: some key says so and those before it do not tell.     *)
Precedes(r, s, order) ==
  \E i \in 1..Len(order) :
    /\ KeyPrecedes(r, s, order[i])
    /\ \A j \in 1..(i - 1) : Shown(r, order[j].column) = Shown(s, order[j].column)

(* The order in which a scan lists the rows.                               *)
PushedOrder(b) == IF b.sortBy = None THEN <<>> ELSE <<Ascending(b.sortBy)>>

(* Set a answers a query with this order and limit over the rows of from.  *)
(* Rows without a value may come first or last.                            *)
Answers(a, from, q) ==
  /\ a \subseteq from
  /\ IF q.limit = 0 \/ Cardinality(from) <= q.limit
     THEN a = from
     ELSE /\ Cardinality(a) = q.limit
          /\ \A r \in from \ a, s \in a : ~Precedes(r, s, q.order)
=============================================================================
