-------------------------- MODULE ScanQueryProofs --------------------------
(***************************************************************************)
(* Proofs about ScanQuery, for every table, set of queries and number of   *)
(* allocations.                                                            *)
(***************************************************************************)
EXTENDS ScanQuery, FiniteSetTheorems, TLAPS

Owned == {config, catalog, scan, batch} \ {Nothing}

(* No two wrappers own the same object, and none one that was lost.        *)
Distinct ==
  /\ config # Nothing => config \notin {catalog, scan, batch} \cup lost
  /\ catalog # Nothing => catalog \notin {scan, batch} \cup lost
  /\ scan # Nothing => scan \notin {batch} \cup lost
  /\ batch # Nothing => batch \notin lost

(* What exists is what the wrappers own and what was lost, and the stage   *)
(* says which wrappers own something.                                      *)
HeapInv ==
  /\ ~dangled
  /\ live = Owned \cup lost
  /\ Distinct
  /\ config = Nothing <=> stage \in {"new", "detached"}
  /\ catalog = Nothing <=> stage \in {"new", "resolved", "detached"}
  /\ scan # Nothing \/ batch # Nothing => stage \in {"scanning", "answered", "failed"}
  /\ stage \in {"scanning", "answered"} => scan # Nothing
  /\ rows # {} => batch # Nothing

HeapTypes ==
  /\ stage \in Stages
  /\ allocated \in 0..MaxAllocations
  /\ live \subseteq 1..allocated
  /\ lost \subseteq 1..allocated
  /\ config \in 1..allocated \cup {Nothing} /\ catalog \in 1..allocated \cup {Nothing}
  /\ scan \in 1..allocated \cup {Nothing} /\ batch \in 1..allocated \cup {Nothing}

LEMMA HeapInit == Init => HeapTypes /\ HeapInv
BY QueryAssumption DEF Init, HeapTypes, HeapInv, Owned, Distinct, Stages

(* Only the heap, the wrappers, the stage and the batch matter.            *)
LEMMA HeapUntouched ==
  ASSUME HeapTypes, HeapInv, UNCHANGED <<stage, heap, owners, rows>>
  PROVE  HeapTypes' /\ HeapInv'
BY DEF HeapTypes, HeapInv, Owned, Distinct, heap, owners

(* A new object is not one of the old ones.                                *)
LEMMA NewIsFresh ==
  ASSUME allocated \in 0..MaxAllocations, NEW used, NEW freed, Allocate(used, freed)
  PROVE  /\ allocated' \in 0..MaxAllocations
         /\ allocated' \notin 1..allocated
         /\ 1..allocated' = 1..allocated \cup {allocated'}
         /\ allocated' # Nothing
         /\ live' = (live \ freed) \cup {allocated'}
         /\ dangled' = (dangled \/ Dead(used) \/ Dead(freed))
BY QueryAssumption DEF Allocate

(* Every step keeps the heap in order: what it uses and frees is owned,    *)
(* and what it allocates is owned from then on.                            *)
LEMMA HeapStep ==
  ASSUME HeapTypes, HeapInv, [Next]_vars
  PROVE  HeapTypes' /\ HeapInv'
<1> USE QueryAssumption DEF HeapTypes, HeapInv, Owned, Distinct, Stages, Stage, Dead, Free,
        Use, heap, owners, progress
<1>1. CASE ResolveAttach
  <2>1. Allocate({}, {})
    BY <1>1 DEF ResolveAttach
  <2>2. HeapTypes'
    BY <1>1, <2>1, NewIsFresh DEF ResolveAttach
  <2>3. HeapInv'
    <3>1. ~dangled'
      BY <1>1, <2>1, <2>2, NewIsFresh DEF ResolveAttach
    <3>2. live' = Owned' \cup lost'
      BY <1>1, <2>1, <2>2, NewIsFresh DEF ResolveAttach
    <3>3. Distinct'
      BY <1>1, <2>1, <2>2, NewIsFresh DEF ResolveAttach
    <3>4. /\ config' = Nothing <=> stage' \in {"new", "detached"}
          /\ catalog' = Nothing <=> stage' \in {"new", "resolved", "detached"}
          /\ scan' # Nothing \/ batch' # Nothing => stage' \in {"scanning", "answered", "failed"}
          /\ stage' \in {"scanning", "answered"} => scan' # Nothing
          /\ rows' # {} => batch' # Nothing
      BY <1>1, <2>1, <2>2, NewIsFresh DEF ResolveAttach
    <3>5. QED
      BY <3>1, <3>2, <3>3, <3>4
  <2>4. QED
    BY <2>2, <2>3
<1>2. CASE LoadCatalog
  <2>1. Allocate({config}, {})
    BY <1>2 DEF LoadCatalog
  <2>2. HeapTypes'
    BY <1>2, <2>1, NewIsFresh DEF LoadCatalog
  <2>3. HeapInv'
    <3>1. ~dangled'
      <4>1. ~Dead({config}) /\ ~Dead({})
        BY <1>2, <2>1, <2>2 DEF LoadCatalog
      <4>2. dangled' = (dangled \/ Dead({config}) \/ Dead({}))
        BY <2>1 DEF Allocate
      <4>3. QED
        BY <4>1, <4>2, Zenon
    <3>2. live' = Owned' \cup lost'
      BY <1>2, <2>1, <2>2, NewIsFresh DEF LoadCatalog
    <3>3. Distinct'
      BY <1>2, <2>1, <2>2, NewIsFresh DEF LoadCatalog
    <3>4. /\ config' = Nothing <=> stage' \in {"new", "detached"}
          /\ catalog' = Nothing <=> stage' \in {"new", "resolved", "detached"}
          /\ scan' # Nothing \/ batch' # Nothing => stage' \in {"scanning", "answered", "failed"}
          /\ stage' \in {"scanning", "answered"} => scan' # Nothing
          /\ rows' # {} => batch' # Nothing
      BY <1>2, <2>1, <2>2, NewIsFresh DEF LoadCatalog
    <3>5. QED
      BY <3>1, <3>2, <3>3, <3>4
  <2>4. QED
    BY <2>2, <2>3
<1>3. CASE LoadCatalogFails
  BY <1>3 DEF LoadCatalogFails
<1>4. CASE CreateEntries
  BY <1>4 DEF CreateEntries
<1>5. CASE CreateEntriesThrows
  BY <1>5 DEF CreateEntriesThrows, DestroyCatalog
<1>6. CASE Detach
  BY <1>6 DEF Detach, DestroyCatalog
<1>7. CASE \E q \in Asked : BindQuery(q)
  BY <1>7 DEF BindQuery
<1>8. CASE PushdownComplexFilter
  BY <1>8 DEF PushdownComplexFilter
<1>9. CASE FinishPlan
  BY <1>9 DEF FinishPlan
<1>10. CASE DropPlan
  BY <1>10 DEF DropPlan
<1>11. CASE OpenScan
  <2>1. Allocate({config, catalog}, {})
    BY <1>11 DEF OpenScan
  <2>2. HeapTypes'
    BY <1>11, <2>1, NewIsFresh DEF OpenScan
  <2>3. HeapInv'
    <3>1. ~dangled'
      <4>1. ~Dead({config, catalog}) /\ ~Dead({})
        BY <1>11, <2>1, <2>2 DEF OpenScan
      <4>2. dangled' = (dangled \/ Dead({config, catalog}) \/ Dead({}))
        BY <2>1 DEF Allocate
      <4>3. QED
        BY <4>1, <4>2, Zenon
    <3>2. live' = Owned' \cup lost'
      BY <1>11, <2>1, <2>2, NewIsFresh DEF OpenScan
    <3>3. Distinct'
      BY <1>11, <2>1, <2>2, NewIsFresh DEF OpenScan
    <3>4. /\ config' = Nothing <=> stage' \in {"new", "detached"}
          /\ catalog' = Nothing <=> stage' \in {"new", "resolved", "detached"}
          /\ scan' # Nothing \/ batch' # Nothing => stage' \in {"scanning", "answered", "failed"}
          /\ stage' \in {"scanning", "answered"} => scan' # Nothing
          /\ rows' # {} => batch' # Nothing
      BY <1>11, <2>1, <2>2, NewIsFresh DEF OpenScan
    <3>5. QED
      BY <3>1, <3>2, <3>3, <3>4
  <2>4. QED
    BY <2>2, <2>3
<1>12. CASE OpenScanFails
  BY <1>12 DEF OpenScanFails
<1>13. CASE NextScanBatch
  <2>1. Allocate({scan}, {batch})
    BY <1>13 DEF NextScanBatch, AssignBatch
  <2>2. HeapTypes'
    BY <1>13, <2>1, NewIsFresh DEF NextScanBatch, AssignBatch
  <2>3. HeapInv'
    <3>1. ~dangled'
      <4>1. ~Dead({scan}) /\ ~Dead({batch})
        BY <1>13, <2>1, <2>2 DEF NextScanBatch, AssignBatch
      <4>2. dangled' = (dangled \/ Dead({scan}) \/ Dead({batch}))
        BY <2>1 DEF Allocate
      <4>3. QED
        BY <4>1, <4>2, Zenon
    <3>2. live' = Owned' \cup lost'
      BY <1>13, <2>1, <2>2, NewIsFresh DEF NextScanBatch, AssignBatch
    <3>3. Distinct'
      BY <1>13, <2>1, <2>2, NewIsFresh DEF NextScanBatch, AssignBatch
    <3>4. /\ config' = Nothing <=> stage' \in {"new", "detached"}
          /\ catalog' = Nothing <=> stage' \in {"new", "resolved", "detached"}
          /\ scan' # Nothing \/ batch' # Nothing => stage' \in {"scanning", "answered", "failed"}
          /\ stage' \in {"scanning", "answered"} => scan' # Nothing
          /\ rows' # {} => batch' # Nothing
      BY <1>13, <2>1, <2>2, NewIsFresh DEF NextScanBatch, AssignBatch
    <3>5. QED
      BY <3>1, <3>2, <3>3, <3>4
  <2>4. QED
    BY <2>2, <2>3
<1>14. CASE NextScanBatchFails
  BY <1>14 DEF NextScanBatchFails
<1>15. CASE \E r \in Rows : EmitRow(r)
  BY <1>15 DEF EmitRow, NextRow
<1>16. CASE \E r \in Rows : ConversionThrows(r)
  <2>1. CASE Use({catalog, batch})
    BY <1>16, <2>1 DEF ConversionThrows, NextRow
  <2>2. CASE Allocate({catalog, batch}, {}) /\ lost' = lost \cup {allocated'}
    <3>1. HeapTypes'
      BY <1>16, <2>2, NewIsFresh DEF ConversionThrows, NextRow
    <3>2. HeapInv'
      <4>1. ~dangled'
        <5>1. ~Dead({catalog, batch}) /\ ~Dead({})
          BY <1>16, <2>2, <3>1 DEF ConversionThrows, NextRow
        <5>2. dangled' = (dangled \/ Dead({catalog, batch}) \/ Dead({}))
          BY <2>2 DEF Allocate
        <5>3. QED
          BY <5>1, <5>2, Zenon
      <4>2. live' = Owned' \cup lost'
        BY <1>16, <2>2, <3>1, NewIsFresh DEF ConversionThrows, NextRow
      <4>3. Distinct'
        BY <1>16, <2>2, <3>1, NewIsFresh DEF ConversionThrows, NextRow
      <4>4. /\ config' = Nothing <=> stage' \in {"new", "detached"}
            /\ catalog' = Nothing <=> stage' \in {"new", "resolved", "detached"}
            /\ scan' # Nothing \/ batch' # Nothing => stage' \in {"scanning", "answered", "failed"}
            /\ stage' \in {"scanning", "answered"} => scan' # Nothing
            /\ rows' # {} => batch' # Nothing
        BY <1>16, <2>2, <3>1, NewIsFresh DEF ConversionThrows, NextRow
      <4>5. QED
        BY <4>1, <4>2, <4>3, <4>4
    <3>3. QED
      BY <3>1, <3>2
  <2>3. QED
    BY <1>16, <2>1, <2>2 DEF ConversionThrows
<1>17. CASE Answer
  BY <1>17 DEF Answer
<1>18. CASE CloseQuery
  <2>1. HeapTypes'
    BY <1>18 DEF CloseQuery
  <2>2. HeapInv'
    <3>1. ~dangled'
      BY <1>18, <2>1 DEF CloseQuery
    <3>2. live' = Owned' \cup lost'
      BY <1>18, <2>1 DEF CloseQuery
    <3>3. Distinct'
      BY <1>18, <2>1 DEF CloseQuery
    <3>4. /\ config' = Nothing <=> stage' \in {"new", "detached"}
          /\ catalog' = Nothing <=> stage' \in {"new", "resolved", "detached"}
          /\ scan' # Nothing \/ batch' # Nothing => stage' \in {"scanning", "answered", "failed"}
          /\ stage' \in {"scanning", "answered"} => scan' # Nothing
          /\ rows' # {} => batch' # Nothing
      BY <1>18, <2>1 DEF CloseQuery
    <3>5. QED
      BY <3>1, <3>2, <3>3, <3>4
  <2>3. QED
    BY <2>1, <2>2
<1>19. CASE UNCHANGED vars
  BY <1>19, HeapUntouched DEF vars
<1>20. QED
  BY <1>1, <1>2, <1>3, <1>4, <1>5, <1>6, <1>7, <1>8, <1>9, <1>10, <1>11, <1>12, <1>13, <1>14,
     <1>15, <1>16, <1>17, <1>18, <1>19 DEF Next

LEMMA HeapHolds == Spec => [](HeapTypes /\ HeapInv)
BY HeapInit, HeapStep, PTL DEF Spec
-----------------------------------------------------------------------------
(* Nothing is used or freed that does not exist.                           *)
THEOREM NoDangling == Spec => []NothingDangles
<1>1. HeapInv => NothingDangles
  BY DEF HeapInv, NothingDangles
<1>2. QED
  BY <1>1, HeapHolds, PTL

(* After DETACH nothing is left but the values that conversions lost.      *)
THEOREM NothingElseLeaks == Spec => []OnlyThrownValuesLeak
<1>1. HeapInv => OnlyThrownValuesLeak
  BY DEF HeapInv, OnlyThrownValuesLeak, Owned
<1>2. QED
  BY <1>1, HeapHolds, PTL
-----------------------------------------------------------------------------
(* Types of the plan and of the scan.                                      *)
QueryTypes ==
  /\ query \in Queries /\ filters \subseteq query.filters
  /\ bound \in [query : Conditions \cup {None}, sortBy : Columns \cup {None}, limit : Nat]
  /\ dangled \in BOOLEAN
  /\ unread \subseteq Rows /\ rows \subseteq Rows /\ emitted \subseteq Rows
  /\ remaining \in Nat
  /\ finished \in BOOLEAN

LEMMA AnyQueryIsOne == AnyQuery \in Queries /\ AnyQuery.filters = {}
BY DEF AnyQuery, Queries

LEMMA TypesInit == Init => QueryTypes
<1> SUFFICES ASSUME Init
             PROVE  QueryTypes
  OBVIOUS
<1>1. query \in Queries
  BY AnyQueryIsOne DEF Init
<1>2. filters \subseteq query.filters
  BY DEF Init
<1>3. bound \in [query : Conditions \cup {None}, sortBy : Columns \cup {None}, limit : Nat]
  BY DEF Init, NothingPushed
<1>4. QED
  BY <1>1, <1>2, <1>3 DEF Init, QueryTypes

LEMMA TypesStep ==
  ASSUME QueryTypes, [Next]_vars
  PROVE  QueryTypes'
<1> USE DEF QueryTypes, Stage, Free, Allocate, Use, progress, heap
<1>1. CASE ResolveAttach \/ LoadCatalog \/ LoadCatalogFails \/ CreateEntries \/ CreateEntriesThrows
             \/ Detach
  BY <1>1 DEF ResolveAttach, LoadCatalog, LoadCatalogFails, CreateEntries, CreateEntriesThrows,
              Detach, DestroyCatalog, planVars
<1>2. ASSUME NEW q \in Asked, BindQuery(q)
      PROVE  QueryTypes'
  BY <1>2, QueryAssumption DEF BindQuery, Bind, NothingPushed, Queries
<1>3. CASE PushdownComplexFilter
  <2>1. CASE PushdownFilter
    <3>1. PICK f \in filters :
            bound' = [bound EXCEPT !.query = f] /\ filters' = filters \ {f} /\ query' = query
      BY <2>1 DEF PushdownFilter
    <3>2. f \in Conditions
      BY <3>1 DEF Queries
    <3>3. QED
      BY <1>3, <3>1, <3>2 DEF PushdownComplexFilter
  <2>2. CASE NoPushdown
    BY <1>3, <2>2 DEF PushdownComplexFilter, NoPushdown, planVars
  <2>3. QED
    BY <1>3, <2>1, <2>2 DEF PushdownComplexFilter
<1>4. CASE FinishPlan
  <2>1. TakesOrder => query.order[1].column \in Columns
    BY DEF TakesOrder, CanSortBy, Columns
  <2>2. query.limit \in Nat
    BY DEF Queries
  <2>3. QED
    BY <1>4, <2>1, <2>2 DEF FinishPlan, SetScanOrder
<1>5. CASE DropPlan
  BY <1>5, AnyQueryIsOne DEF DropPlan, Bind, NothingPushed
<1>6. CASE OpenScan
  BY <1>6 DEF OpenScan, Copy, Listed
<1>7. CASE OpenScanFails \/ NextScanBatchFails \/ Answer
  BY <1>7 DEF OpenScanFails, NextScanBatchFails, Answer, planVars
<1>8. CASE NextScanBatch
  BY <1>8 DEF NextScanBatch, AssignBatch, planVars
<1>9. ASSUME NEW r \in Rows, EmitRow(r)
      PROVE  QueryTypes'
  BY <1>9 DEF EmitRow, RowsLeft, planVars
<1>10. ASSUME NEW r \in Rows, ConversionThrows(r)
       PROVE  QueryTypes'
  BY <1>10 DEF ConversionThrows, planVars
<1>11. CASE CloseQuery
  BY <1>11 DEF CloseQuery, planVars
<1>12. CASE UNCHANGED vars
  BY <1>12 DEF vars, planVars
<1>13. QED
  BY <1>1, <1>2, <1>3, <1>4, <1>5, <1>6, <1>7, <1>8, <1>9, <1>10, <1>11, <1>12 DEF Next

LEMMA TypesHold == Spec => []QueryTypes
BY TypesInit, TypesStep, PTL DEF Spec

(* Every variable keeps its type; the count of a LIMIT stays a number.     *)
THEOREM QueryTypesKept == Spec => []TypeOK
<1>1. HeapTypes /\ QueryTypes => TypeOK
  BY DEF HeapTypes, QueryTypes, TypeOK
<1>2. QED
  BY <1>1, HeapHolds, TypesHold, PTL
-----------------------------------------------------------------------------
(* What is pushed and what DuckDB still evaluates are together what was    *)
(* asked, and an order is only pushed if no filter is left.                *)
PlanInv ==
  /\ bound.query = None => filters = query.filters
  /\ bound.query # None =>
       Extractable(bound.query) /\ query.filters = filters \cup {bound.query}
  /\ bound.limit = 0 => bound.sortBy = None
  /\ bound.limit > 0 =>
       /\ filters = {}
       /\ bound.limit = query.limit /\ PushedOrder(bound) = query.order

(* The rows the endpoint lists are emitted, waiting in the batch or still  *)
(* unread, none of them twice, and in the pushed order; the scan stops     *)
(* before the last of them only once the LIMIT is reached.                 *)
ScanInv == stage \in {"scanning", "answered"} =>
  /\ emitted \cup rows \cup unread = Listed(bound.query)
  /\ emitted \cap rows = {} /\ emitted \cap unread = {} /\ rows \cap unread = {}
  /\ \A r \in rows \cup unread, s \in emitted : ~Precedes(r, s, PushedOrder(bound))
  /\ \A r \in unread, s \in rows : ~Precedes(r, s, PushedOrder(bound))
  /\ finished => unread = {} \/ (bound.limit > 0 /\ Cardinality(emitted) >= bound.limit)
  /\ remaining > 0 => Cardinality(emitted) + remaining = bound.limit
  /\ bound.limit > 0 /\ remaining = 0 => Cardinality(emitted) >= bound.limit

(* Why the query is over.                                                  *)
Over == stage = "answered" =>
  \/ finished /\ rows = {}
  \/ /\ query.order = <<>> /\ query.limit > 0
     /\ Cardinality(Satisfying(emitted, filters)) >= query.limit

LEMMA PlanInit == Init => PlanInv
BY DEF Init, PlanInv, NothingPushed, AnyQuery

(* An order of one ascending key is all there is to know about its column. *)
LEMMA OneAscendingKey ==
  ASSUME NEW order \in Seq(Keys), Len(order) = 1, ~order[1].descending
  PROVE  order = <<Ascending(order[1].column)>>
<1>1. order[1] \in Keys /\ order = <<order[1]>>
  OBVIOUS
<1>2. order[1] = Ascending(order[1].column)
  BY <1>1 DEF Keys, Ascending
<1>3. QED
  BY <1>1, <1>2

LEMMA PlanStep ==
  ASSUME QueryTypes, PlanInv, [Next]_vars
  PROVE  PlanInv'
<1> USE DEF QueryTypes, PlanInv
<1>1. CASE UNCHANGED planVars
  BY <1>1 DEF planVars, Extractable, CanFilterEquality
<1>2. ASSUME NEW q \in Queries, Bind(q)
      PROVE  PlanInv'
  BY <1>2 DEF Bind, NothingPushed
<1>3. CASE PushdownFilter
  <2>1. PICK f \in filters :
          /\ Extractable(f)
          /\ bound' = [bound EXCEPT !.query = f]
          /\ filters' = filters \ {f}
          /\ query' = query
    BY <1>3 DEF PushdownFilter
  <2>2. filters = query.filters /\ bound.limit = 0
    BY <1>3, <2>1 DEF PushdownFilter
  <2>3. bound'.query = f /\ bound'.limit = 0 /\ bound'.sortBy = bound.sortBy
    BY <2>1, <2>2
  <2>4. query'.filters = filters' \cup {f}
    BY <2>1, <2>2
  <2>5. f # None
    BY <2>1, <2>2, PlanningAssumption DEF Queries
  <2>6. Extractable(f)'
    BY <2>1, <2>3 DEF Extractable, CanFilterEquality
  <2>7. QED
    BY <2>1, <2>2, <2>3, <2>4, <2>5, <2>6
<1>4. CASE SetScanOrder
  <2>1. CASE TakesOrder
    <3>1. /\ bound'.query = bound.query
          /\ bound'.sortBy = query.order[1].column /\ bound'.limit = query.limit
          /\ UNCHANGED <<query, filters>>
      BY <1>4, <2>1 DEF SetScanOrder
    <3>2. /\ query.limit > 0 /\ filters = {} /\ Len(query.order) = 1
          /\ ~query.order[1].descending /\ query.order[1].column \in MetaColumns
      BY <2>1 DEF TakesOrder, RowLimitGiven, CanSortBy
    <3>3. Extractable(bound.query) => Extractable(bound.query)'
      BY <3>1 DEF Extractable, CanFilterEquality
    <3>4. PushedOrder(bound') = query.order
      BY <3>1, <3>2, OneAscendingKey, PlanningAssumption DEF PushedOrder, Columns, Queries
    <3>5. QED
      BY <3>1, <3>2, <3>3, <3>4
  <2>2. CASE ~TakesOrder
    BY <1>1, <1>4, <2>2 DEF SetScanOrder, planVars
  <2>3. QED
    BY <2>1, <2>2
<1>5. CASE OpenScan
  <2>1. bound' = bound /\ UNCHANGED <<query, filters>>
    BY <1>5 DEF OpenScan, Copy
  <2>2. QED
    BY <1>1, <2>1 DEF planVars
<1>6. CASE ResolveAttach \/ LoadCatalog \/ LoadCatalogFails \/ CreateEntries
             \/ CreateEntriesThrows \/ Detach \/ OpenScanFails \/ NextScanBatch
             \/ NextScanBatchFails \/ Answer \/ CloseQuery \/ UNCHANGED vars
  BY <1>1, <1>6 DEF ResolveAttach, LoadCatalog, LoadCatalogFails, CreateEntries,
       CreateEntriesThrows, Detach, OpenScanFails, NextScanBatch, NextScanBatchFails, Answer,
       CloseQuery, vars
<1>7. CASE \E r \in Rows : EmitRow(r) \/ ConversionThrows(r)
  BY <1>1, <1>7 DEF EmitRow, ConversionThrows
<1>8. CASE \E q \in Asked : BindQuery(q)
  BY <1>2, <1>8, QueryAssumption DEF BindQuery
<1>9. CASE DropPlan
  BY <1>2, <1>9, AnyQueryIsOne DEF DropPlan
<1>10. CASE PushdownComplexFilter
  BY <1>1, <1>3, <1>10 DEF PushdownComplexFilter, NoPushdown
<1>11. CASE FinishPlan
  BY <1>4, <1>11 DEF FinishPlan
<1>12. QED
  BY <1>5, <1>6, <1>7, <1>8, <1>9, <1>10, <1>11 DEF Next
LEMMA ScanInit == Init => ScanInv /\ Over
BY DEF Init, ScanInv, Over

LEMMA ScanStep ==
  ASSUME QueryTypes, PlanInv, ScanInv, [Next]_vars
  PROVE  ScanInv'
<1> USE DEF QueryTypes
<1>1. CASE stage' \notin {"scanning", "answered"}
  BY <1>1 DEF ScanInv
<1>2. CASE UNCHANGED <<bound, unread, rows, emitted, remaining, finished>>
           /\ (stage \in {"scanning", "answered"} \/ stage' \notin {"scanning", "answered"})
  BY <1>2 DEF ScanInv, Listed, PushedOrder, Precedes, KeyPrecedes, Shown
<1>3. CASE OpenScan
  <2>1. /\ bound' = bound /\ unread' = Listed(bound.query)
        /\ remaining' = bound.limit
        /\ rows' = {} /\ emitted' = {} /\ finished' = FALSE
    BY <1>3 DEF OpenScan, Copy
  <2>2. Cardinality({}) = 0
    BY FS_EmptySet
  <2>3. bound.limit \in Nat
    OBVIOUS
  <2>4. Listed(bound.query)' = Listed(bound.query)
    BY <2>1 DEF Listed
  <2>5. QED
    BY <2>1, <2>2, <2>3, <2>4 DEF ScanInv
<1>4. CASE NextScanBatch
  <2>1. /\ stage = "scanning" /\ rows = {} /\ ~finished
        /\ UNCHANGED <<bound, emitted, remaining>>
    BY <1>4 DEF NextScanBatch, planVars
  <2>2. PICK page \in SUBSET unread, last \in BOOLEAN :
          /\ \A r \in unread \ page, s \in page : ~Precedes(r, s, PushedOrder(bound))
          /\ last => page = unread
          /\ rows' = page /\ unread' = unread \ page /\ finished' = last
    BY <1>4 DEF NextScanBatch
  <2>3. Listed(bound.query)' = Listed(bound.query)
    BY <2>1 DEF Listed
  <2>4. \A r, s : Precedes(r, s, PushedOrder(bound))' <=> Precedes(r, s, PushedOrder(bound))
    BY <2>1 DEF PushedOrder, Precedes, KeyPrecedes, Shown
  <2>5. /\ emitted' \cup rows' \cup unread' = Listed(bound.query)'
        /\ emitted' \cap rows' = {} /\ emitted' \cap unread' = {} /\ rows' \cap unread' = {}
        /\ finished' => unread' = {}
    BY <2>1, <2>2, <2>3 DEF ScanInv
  <2>6. /\ \A r \in rows' \cup unread', s \in emitted' : ~Precedes(r, s, PushedOrder(bound))
        /\ \A r \in unread', s \in rows' : ~Precedes(r, s, PushedOrder(bound))
    BY <2>1, <2>2 DEF ScanInv
  <2>7. /\ remaining' > 0 => Cardinality(emitted') + remaining' = bound'.limit
        /\ bound'.limit > 0 /\ remaining' = 0 => Cardinality(emitted') >= bound'.limit
    BY <2>1 DEF ScanInv
  <2>8. QED
    BY <2>1, <2>4, <2>5, <2>6, <2>7 DEF ScanInv
<1>5. ASSUME NEW r \in Rows, EmitRow(r)
      PROVE  ScanInv'
  <2>1. /\ stage = "scanning"
        /\ r \in rows /\ \A s \in rows : ~Precedes(s, r, PushedOrder(bound))
        /\ rows' = rows \ {r} /\ emitted' = emitted \cup {r}
        /\ remaining' = IF remaining > 0 THEN remaining - 1 ELSE 0
        /\ finished' = (finished \/ remaining = 1)
        /\ UNCHANGED <<bound, unread>>
    BY <1>5 DEF EmitRow, NextRow, RowsLeft, StopsAtLimit, planVars
  <2>2. Listed(bound.query)' = Listed(bound.query)
    BY <2>1 DEF Listed
  <2>3. \A q, s : Precedes(q, s, PushedOrder(bound))' <=> Precedes(q, s, PushedOrder(bound))
    BY <2>1 DEF PushedOrder, Precedes, KeyPrecedes, Shown
  <2>4. Cardinality(emitted') = Cardinality(emitted) + 1 /\ Cardinality(emitted) \in Nat
    <3>1. IsFiniteSet(emitted)
      BY PlanningAssumption, FS_Subset
    <3>2. r \notin emitted
      BY <2>1 DEF ScanInv
    <3>3. QED
      BY <2>1, <3>1, <3>2, FS_AddElement, FS_CardinalityType
  <2>5. /\ emitted' \cup rows' \cup unread' = Listed(bound.query)'
        /\ emitted' \cap rows' = {} /\ emitted' \cap unread' = {} /\ rows' \cap unread' = {}
    BY <2>1, <2>2 DEF ScanInv
  <2>6. /\ \A q \in rows' \cup unread', s \in emitted' : ~Precedes(q, s, PushedOrder(bound))
        /\ \A q \in unread', s \in rows' : ~Precedes(q, s, PushedOrder(bound))
    BY <2>1 DEF ScanInv
  <2>7. /\ remaining' > 0 => Cardinality(emitted') + remaining' = bound'.limit
        /\ bound'.limit > 0 /\ remaining' = 0 => Cardinality(emitted') >= bound'.limit
        /\ finished' => unread' = {} \/ (bound'.limit > 0 /\ Cardinality(emitted') >= bound'.limit)
    <3>1. /\ finished => unread = {} \/ (bound.limit > 0 /\ Cardinality(emitted) >= bound.limit)
          /\ remaining > 0 => Cardinality(emitted) + remaining = bound.limit
          /\ bound.limit > 0 /\ remaining = 0 => Cardinality(emitted) >= bound.limit
      BY <2>1 DEF ScanInv
    <3>2. bound.limit \in Nat /\ remaining \in Nat
      OBVIOUS
    <3>3. bound' = bound /\ unread' = unread
      BY <2>1
    <3>4. CASE remaining = 0
      BY <2>1, <2>4, <3>1, <3>2, <3>3, <3>4
    <3>5. CASE remaining > 0
      BY <2>1, <2>4, <3>1, <3>2, <3>3, <3>5
    <3>6. QED
      BY <3>2, <3>4, <3>5
  <2>8. QED
    BY <2>1, <2>3, <2>5, <2>6, <2>7 DEF ScanInv
<1>6. CASE Answer
  BY <1>2, <1>6 DEF Answer, Stage, planVars, progress
<1>7. CASE ResolveAttach \/ LoadCatalog \/ LoadCatalogFails \/ CreateEntries
             \/ CreateEntriesThrows \/ Detach \/ (\E q \in Asked : BindQuery(q))
             \/ PushdownComplexFilter \/ FinishPlan \/ DropPlan \/ OpenScanFails
             \/ NextScanBatchFails \/ CloseQuery \/ (\E r \in Rows : ConversionThrows(r))
  BY <1>1, <1>7 DEF ResolveAttach, LoadCatalog, LoadCatalogFails, CreateEntries,
       CreateEntriesThrows, Detach, BindQuery, PushdownComplexFilter, FinishPlan, DropPlan,
       OpenScanFails, NextScanBatchFails, CloseQuery, ConversionThrows, Stage
<1>8. CASE UNCHANGED vars
  BY <1>1, <1>2, <1>8 DEF vars, planVars, progress
<1>9. QED
  BY <1>3, <1>4, <1>5, <1>6, <1>7, <1>8 DEF Next

LEMMA OverStep ==
  ASSUME Over, [Next]_vars
  PROVE  Over'
<1>1. CASE Answer
  BY <1>1 DEF Answer, Over, planVars, progress, Satisfying, Holds, Shown
<1>2. CASE UNCHANGED vars
  BY <1>2 DEF vars, Over, planVars, progress, Satisfying, Holds, Shown
<1>3. CASE stage' # "answered"
  BY <1>3 DEF Over
<1>4. QED
  BY <1>1, <1>2, <1>3 DEF Next, ResolveAttach, LoadCatalog, LoadCatalogFails, CreateEntries,
       CreateEntriesThrows, Detach, BindQuery, PushdownComplexFilter, FinishPlan, DropPlan,
       OpenScan, OpenScanFails, NextScanBatch, NextScanBatchFails, CloseQuery, EmitRow,
       ConversionThrows, Stage
-----------------------------------------------------------------------------
(* The endpoint lists no row that a pushed filter drops, and all it keeps. *)
LEMMA QueryFilters ==
  ASSUME QueryTypes, PlanInv
  PROVE  /\ Satisfying(Rows, query.filters) \subseteq Listed(bound.query)
         /\ \A X \in SUBSET Listed(bound.query) :
              Satisfying(X, filters) = Satisfying(X, query.filters)
<1>1. CASE bound.query = None
  BY <1>1 DEF PlanInv, Listed, Satisfying
<1>2. CASE bound.query # None
  <2> DEFINE f == bound.query
  <2>1. Extractable(f) /\ query.filters = filters \cup {f}
    BY <1>2 DEF PlanInv
  <2>2. f \in Conditions
    BY <1>2 DEF QueryTypes
  <2>3. f.op = "equal" /\ f.column \in UserColumns /\ f.value \in Nat
    BY <2>1, <2>2 DEF Extractable, CanFilterEquality, Conditions, Values
  <2>4. ASSUME NEW r \in Rows
        PROVE  r \in Listed(f) <=> Holds(f, r)
    BY <1>2, <2>3, PlanningAssumption DEF Listed, Holds, Shown
  <2>5. QED
    BY <2>1, <2>4 DEF Satisfying, Listed
<1>3. QED
  BY <1>1, <1>2

(* A LIMIT may be taken from a part of the rows that is large enough, if   *)
(* no other row comes before one of the part.                              *)
LEMMA AnswersFromPart ==
  ASSUME NEW all, IsFiniteSet(all), NEW part \in SUBSET all, NEW q \in Queries,
         q.limit > 0, Cardinality(part) >= q.limit,
         \A r \in all \ part, s \in part : ~Precedes(r, s, q.order),
         NEW a, Answers(a, part, q)
  PROVE  Answers(a, all, q)
<1>1. /\ IsFiniteSet(part) /\ Cardinality(part) \in Nat /\ Cardinality(all) \in Nat
      /\ Cardinality(part) <= Cardinality(all)
      /\ Cardinality(all) = Cardinality(part) => all = part
  BY FS_Subset, FS_CardinalityType
<1>2. q.limit \in Nat
  BY DEF Queries
<1>3. CASE Cardinality(all) <= q.limit
  <2>1. all = part
    BY <1>1, <1>2, <1>3
  <2>2. QED
    BY <2>1
<1>4. CASE Cardinality(all) > q.limit
  <2>1. a \subseteq part /\ Cardinality(a) = q.limit
    <3>1. CASE Cardinality(part) <= q.limit
      BY <1>1, <1>2, <3>1 DEF Answers
    <3>2. CASE Cardinality(part) > q.limit
      BY <1>1, <1>2, <3>2 DEF Answers
    <3>3. QED
      BY <1>1, <1>2, <3>1, <3>2
  <2>2. \A r \in part \ a, s \in a : ~Precedes(r, s, q.order)
    BY <1>1, <1>2 DEF Answers
  <2>3. \A r \in all \ a, s \in a : ~Precedes(r, s, q.order)
    BY <2>1, <2>2
  <2>4. q.limit # 0 /\ ~(Cardinality(all) <= q.limit)
    BY <1>1, <1>2, <1>4
  <2>5. QED
    BY <2>1, <2>3, <2>4 DEF Answers
<1>5. QED
  BY <1>1, <1>2, <1>3, <1>4

LEMMA PlanAndScanHold == Spec => [](QueryTypes /\ PlanInv /\ ScanInv /\ Over)
<1>1. Init => QueryTypes /\ PlanInv /\ ScanInv /\ Over
  BY TypesInit, PlanInit, ScanInit
<1>2. QueryTypes /\ PlanInv /\ ScanInv /\ Over /\ [Next]_vars
        => (QueryTypes /\ PlanInv /\ ScanInv /\ Over)'
  BY TypesStep, PlanStep, ScanStep, OverStep
<1>3. QED
  BY <1>1, <1>2, PTL DEF Spec

(* Whatever is pushed down, a query that is over has the rows it asked for. *)
THEOREM PushdownIsExact == Spec => []AnswerIsExact
<1>1. ASSUME QueryTypes, PlanInv, ScanInv, Over
      PROVE  AnswerIsExact
  <2> DEFINE all == Satisfying(Rows, query.filters)
             part == Satisfying(emitted, filters)
  <2>1. SUFFICES ASSUME stage = "answered", NEW a, Answers(a, part, query)
                 PROVE  Answers(a, all, query)
    BY DEF AnswerIsExact
  <2>2. emitted \subseteq Listed(bound.query) /\ emitted \subseteq Rows
    BY <2>1, <1>1 DEF ScanInv, QueryTypes
  <2>3. part = Satisfying(emitted, query.filters) /\ all \subseteq Listed(bound.query)
    BY <1>1, <2>2, QueryFilters
  <2>4. part \in SUBSET all /\ part = all \cap emitted
    BY <2>2, <2>3 DEF Satisfying
  <2>5. IsFiniteSet(all)
    BY PlanningAssumption, FS_Subset DEF Satisfying
  <2>6. query \in Queries
    BY <1>1 DEF QueryTypes
  <2>7. CASE emitted = Listed(bound.query)
    BY <2>1, <2>3, <2>4, <2>7
  <2>8. CASE finished /\ rows = {} /\ bound.limit > 0 /\ Cardinality(emitted) >= bound.limit
    <3>1. /\ filters = {} /\ query.limit > 0 /\ query.limit = bound.limit
          /\ query.order = PushedOrder(bound)
      BY <1>1, <2>6, <2>8 DEF PlanInv, Queries
    <3>2. part = emitted
      BY <3>1 DEF Satisfying
    <3>3. all \ part \subseteq unread
      BY <1>1, <2>1, <2>3, <2>8, <3>2 DEF ScanInv
    <3>4. \A r \in all \ part, s \in part : ~Precedes(r, s, query.order)
      BY <1>1, <2>1, <3>1, <3>2, <3>3 DEF ScanInv
    <3>5. QED
      BY <2>1, <2>4, <2>5, <2>6, <2>8, <3>1, <3>2, <3>4, AnswersFromPart
  <2>9. CASE query.order = <<>> /\ query.limit > 0 /\ Cardinality(part) >= query.limit
    <3>1. \A r, s : ~Precedes(r, s, query.order)
      BY <2>9 DEF Precedes
    <3>2. QED
      BY <2>1, <2>4, <2>5, <2>6, <2>9, <3>1, AnswersFromPart
  <2>10. QED
    BY <1>1, <2>1, <2>7, <2>8, <2>9 DEF Over, ScanInv
<1>2. QED
  BY <1>1, PlanAndScanHold, PTL
=============================================================================
