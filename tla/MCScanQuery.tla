---------------------------- MODULE MCScanQuery ----------------------------
(***************************************************************************)
(* TLC instance of ScanQuery: three rows with ties in every column, a value *)
(* that is missing and one that cannot be shown.                           *)
(***************************************************************************)
EXTENDS ScanQuery, TLC

CONSTANTS plain, list, created

MCRows == 1..3

MCCell ==
  [r \in MCRows |->
     (plain :> <<1, Odd, 1>>[r]) @@ (list :> <<1, 2, Null>>[r])
       @@ (created :> <<2, 1, 2>>[r]) @@ (RowId :> r)]

Condition(op, c, v) == [op |-> op, column |-> c, value |-> v]

(* A filter of each kind: pushed, two that could be, and those that cannot *)
(* be pushed for their operator, column or constant.                       *)
MCConditions ==
  {Condition("equal", plain, 1), Condition("equal", plain, 2), Condition("unequal", plain, 1),
   Condition("equal", plain, Null), Condition("equal", plain, Unwritable),
   Condition("equal", list, 1), Condition("equal", created, 2), Condition("equal", RowId, 1)}

Key(c, d) == [column |-> c, descending |-> d]

(* No order, one key, and ties of the first key broken by the row id.      *)
MCOrders ==
  {<<>>} \cup {<<Key(c, d)>> : c \in {plain, created}, d \in BOOLEAN}
         \cup {<<Key(created, FALSE), Key(RowId, d)>> : d \in BOOLEAN}

MCAsked ==
  {[filters |-> fs, order |-> o, limit |-> n] :
     fs \in {s \in SUBSET MCConditions : Cardinality(s) <= 2}, o \in MCOrders, n \in {0, 1, 2}}
=============================================================================
