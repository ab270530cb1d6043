------------------------------ MODULE ScanQuery ------------------------------
(***************************************************************************)
(* An attached database from ATTACH to DETACH and the queries of one of    *)
(* its tables in between, planned and executed, some of them more than     *)
(* once.  Two things are followed through all of it: what the scan was     *)
(* given to do and what it returns, and the objects Rust hands to C++ over *)
(* the C ABI, which C++ owns from then on through the wrappers of          *)
(* include/rust_bridge_client_resources.hpp.                               *)
(*                                                                         *)
(* Strings and errors that are allocated on one side and taken and freed   *)
(* by the other within one call are left out.  Edits of the document       *)
(* during a scan are the subject of TableScan; here it does not change.    *)
(* DuckDB drops the plans and ends the queries of a database before it     *)
(* detaches it.                                                            *)
(***************************************************************************)
EXTENDS ScanPlanning

CONSTANTS
  Asked,          \* the queries users make
  MaxAllocations, \* bound: objects allocated in a behaviour
  Nothing         \* a wrapper that owns nothing

ASSUME QueryAssumption ==
  /\ Asked \subseteq Queries
  /\ MaxAllocations \in Nat
  /\ Nothing \notin Nat

VARIABLES
  stage,      \* how far ATTACH and the query are
  \* the objects on Rust's heap, and C++'s wrappers of them
  allocated,  \* objects allocated so far; they are numbered
  live,       \* those that exist
  dangled,    \* history: one was used or freed when it did not exist
  lost,       \* history: the value of a conversion that threw
  config,     \* RustBridgeAttachConfig
  catalog,    \* RustBridgeCatalogResponse
  scan,       \* RustBridgeScanHandle
  batch,      \* RustBridgeScanBatch
  \* the scan
  unread,     \* rows the endpoint has still to list
  rows,       \* rows of the batch that are not yet emitted
  emitted,    \* rows DuckDB was given
  remaining,  \* remaining_rows
  finished

heap == <<allocated, live, dangled, lost>>
owners == <<config, catalog, scan, batch>>
progress == <<unread, rows, emitted, remaining, finished>>
vars == <<planVars, stage, heap, owners, progress>>

Stages == {"new", "resolved", "unloaded", "attached", "filtering", "planned", "scanning",
           "answered", "failed", "detached"}

TypeOK ==
  /\ stage \in Stages
  /\ query \in Queries /\ filters \subseteq query.filters
  /\ bound \in [query : Conditions \cup {None}, sortBy : Columns \cup {None}, limit : Nat]
  /\ allocated \in 0..MaxAllocations
  /\ live \subseteq 1..allocated
  /\ lost \subseteq 1..allocated
  /\ dangled \in BOOLEAN
  /\ config \in 1..allocated \cup {Nothing} /\ catalog \in 1..allocated \cup {Nothing}
  /\ scan \in 1..allocated \cup {Nothing} /\ batch \in 1..allocated \cup {Nothing}
  /\ unread \subseteq Rows /\ rows \subseteq Rows /\ emitted \subseteq Rows
  /\ remaining \in Nat
  /\ finished \in BOOLEAN

AnyQuery == [filters |-> {}, order |-> <<>>, limit |-> 0]

Init ==
  /\ stage = "new"
  /\ query = AnyQuery /\ filters = {} /\ bound = NothingPushed
  /\ unread = {} /\ rows = {} /\ emitted = {} /\ remaining = 0 /\ finished = FALSE
  /\ allocated = 0 /\ live = {} /\ dangled = FALSE /\ lost = {}
  /\ config = Nothing /\ catalog = Nothing /\ scan = Nothing /\ batch = Nothing
-----------------------------------------------------------------------------
(* The heap.  A step uses some objects, frees some wrappers' and allocates *)
(* at most one.                                                            *)

Stage(from, to) == stage = from /\ stage' = to

Dead(owned) == \E o \in owned \ {Nothing} : o \notin live

Free(used, freed) ==
  /\ live' = live \ freed
  /\ dangled' = (dangled \/ Dead(used) \/ Dead(freed))
  /\ UNCHANGED <<allocated, lost>>

Allocate(used, freed) ==
  /\ allocated < MaxAllocations
  /\ allocated' = allocated + 1
  /\ live' = (live \ freed) \cup {allocated + 1}
  /\ dangled' = (dangled \/ Dead(used) \/ Dead(freed))

Use(used) == Free(used, {})
-----------------------------------------------------------------------------
(* ATTACH and DETACH: RustBridgeAttach and the catalog.                    *)

(* A failure to resolve leaves nothing behind.                             *)
ResolveAttach ==
  /\ Stage("new", "resolved")
  /\ Allocate({}, {})
  /\ config' = allocated'
  /\ UNCHANGED <<planVars, lost, catalog, scan, batch, progress>>

(* Mutant: load_catalog hands out its boxes before it is done.             *)
LoadCatalogFailsLate ==
  /\ Stage("resolved", "detached")
  /\ Allocate({config}, {config})
  /\ config' = Nothing
  /\ UNCHANGED <<planVars, lost, catalog, scan, batch, progress>>

(* Nothing is boxed until all is listed; the config goes with the catalog  *)
(* object that was being constructed.                                      *)
LoadCatalogFails ==
  /\ Stage("resolved", "detached")
  /\ Free({config}, {config})
  /\ config' = Nothing
  /\ UNCHANGED <<planVars, catalog, scan, batch, progress>>

LoadCatalog ==
  /\ Stage("resolved", "unloaded")
  /\ Allocate({config}, {})
  /\ catalog' = allocated'
  /\ UNCHANGED <<planVars, lost, config, scan, batch, progress>>

CreateEntries ==
  /\ Stage("unloaded", "attached")
  /\ Use({catalog})
  /\ UNCHANGED <<planVars, owners, progress>>

(* The end of a catalog object: members go in the reverse of their order.  *)
DestroyCatalog ==
  /\ Free({}, {catalog, config})
  /\ catalog' = Nothing /\ config' = Nothing
  /\ UNCHANGED <<scan, batch>>

(* A type cannot be parsed: the constructor throws.                        *)
CreateEntriesThrows ==
  /\ Stage("unloaded", "detached")
  /\ DestroyCatalog
  /\ UNCHANGED <<planVars, progress>>

Detach ==
  /\ Stage("attached", "detached")
  /\ DestroyCatalog
  /\ UNCHANGED <<planVars, progress>>
-----------------------------------------------------------------------------
(* Planning.  The table and column handles in the bind data belong to the  *)
(* catalog.                                                                *)

BindQuery(q) ==
  /\ Stage("attached", "filtering")
  /\ Bind(q)
  /\ Use({catalog})
  /\ UNCHANGED <<owners, progress>>

PushdownComplexFilter ==
  /\ stage = "filtering" /\ UNCHANGED stage
  /\ PushdownFilter \/ NoPushdown
  /\ Use({catalog})
  /\ UNCHANGED <<owners, progress>>

FinishPlan ==
  /\ Stage("filtering", "planned")
  /\ SetScanOrder
  /\ Use({catalog})
  /\ UNCHANGED <<owners, progress>>

DropPlan ==
  /\ Stage("planned", "attached")
  /\ Bind(AnyQuery)
  /\ UNCHANGED <<heap, owners, progress>>
-----------------------------------------------------------------------------
(* Execution: RustBridgeScanGlobalState and RustBridgeScan.                *)

(* A plan is executed, or a copy of it.                                    *)
OpenScan ==
  /\ Stage("planned", "scanning")
  /\ Allocate({config, catalog}, {})
  /\ scan' = allocated'
  /\ bound' = Copy(bound)
  /\ unread' = Listed(bound'.query)
  /\ remaining' = bound'.limit
  /\ rows' = {} /\ emitted' = {} /\ finished' = FALSE
  /\ UNCHANGED <<query, filters, lost, config, catalog, batch>>

(* InitGlobal refuses an explicit transaction, or the scan an order.       *)
OpenScanFails ==
  /\ Stage("planned", "failed")
  /\ Use({config, catalog})
  /\ UNCHANGED <<planVars, owners, progress>>

(* Mutant: the wrapper forgets the batch it held.                          *)
AssignBatchLeaking(b) ==
  /\ Allocate({scan}, {})
  /\ batch' = b

(* The new batch replaces the one that is spent.                           *)
AssignBatch(b) ==
  /\ Allocate({scan}, {batch})
  /\ batch' = b

(* The next rows in the pushed order, at will; an empty batch is the last, *)
(* and the last rows may come with or before the end.                      *)
NextScanBatch ==
  /\ stage = "scanning" /\ UNCHANGED stage
  /\ rows = {} /\ ~finished
  /\ \E page \in SUBSET unread, last \in BOOLEAN :
       /\ \A r \in unread \ page, s \in page : ~Precedes(r, s, PushedOrder(bound))
       /\ page = {} => last
       /\ last => page = unread
       /\ rows' = page
       /\ unread' = unread \ page
       /\ finished' = last
  /\ AssignBatch(allocated')
  /\ UNCHANGED <<planVars, lost, config, catalog, scan, emitted, remaining>>

(* Mutant: the failed request closes the scan, and so does its wrapper.    *)
NextScanBatchCloses ==
  /\ Stage("scanning", "failed")
  /\ rows = {} /\ ~finished
  /\ Free({scan}, {scan})
  /\ UNCHANGED <<planVars, owners, progress>>

NextScanBatchFails ==
  /\ Stage("scanning", "failed")
  /\ rows = {} /\ ~finished
  /\ Use({scan})
  /\ UNCHANGED <<planVars, owners, progress>>

(* Rows of a batch come in its order.                                      *)
NextRow(r) ==
  /\ r \in rows
  /\ \A s \in rows : ~Precedes(s, r, PushedOrder(bound))

(* Mutant: the count goes on below zero, where it is a huge number.        *)
RowsLeftUnchecked == remaining - 1

RowsLeft == IF remaining > 0 THEN remaining - 1 ELSE 0

StopsAtLimit == remaining = 1

(* The cells of a row are converted, each value is freed after that.  The  *)
(* LIMIT stops the requests; the rest of the batch is still emitted.       *)
EmitRow(r) ==
  /\ stage = "scanning" /\ UNCHANGED stage
  /\ NextRow(r)
  /\ Use({catalog, batch})
  /\ rows' = rows \ {r}
  /\ emitted' = emitted \cup {r}
  /\ remaining' = RowsLeft
  /\ finished' = (finished \/ StopsAtLimit)
  /\ UNCHANGED <<planVars, owners, unread>>

(* The conversion of a value throws before the value is freed, if it is    *)
(* not borrowed from the row.                                              *)
ConversionThrows(r) ==
  /\ Stage("scanning", "failed")
  /\ NextRow(r)
  /\ \/ Use({catalog, batch})
     \/ Allocate({catalog, batch}, {}) /\ lost' = lost \cup {allocated'}
  /\ UNCHANGED <<planVars, owners, progress>>

(* DuckDB has what it needs: the scan is over, or a LIMIT without an order *)
(* is reached.                                                             *)
Answer ==
  /\ Stage("scanning", "answered")
  /\ \/ finished /\ rows = {}
     \/ /\ query.order = <<>> /\ query.limit > 0
        /\ Cardinality(Satisfying(emitted, filters)) >= query.limit
  /\ UNCHANGED <<planVars, heap, owners, progress>>

(* The state of the scan is destroyed, when the query is over or given up. *)
CloseQuery ==
  /\ stage \in {"scanning", "answered", "failed"}
  /\ stage' = "planned"
  /\ Free({}, {batch, scan})
  /\ scan' = Nothing /\ batch' = Nothing
  /\ unread' = {} /\ rows' = {} /\ emitted' = {} /\ remaining' = 0 /\ finished' = FALSE
  /\ UNCHANGED <<planVars, config, catalog>>
-----------------------------------------------------------------------------
Next ==
  \/ ResolveAttach \/ LoadCatalog \/ LoadCatalogFails
  \/ CreateEntries \/ CreateEntriesThrows \/ Detach
  \/ \E q \in Asked : BindQuery(q)
  \/ PushdownComplexFilter \/ FinishPlan \/ DropPlan
  \/ OpenScan \/ OpenScanFails \/ NextScanBatch \/ NextScanBatchFails
  \/ \E r \in Rows : EmitRow(r) \/ ConversionThrows(r)
  \/ Answer \/ CloseQuery

Spec == Init /\ [][Next]_vars
-----------------------------------------------------------------------------
(* Whatever DuckDB can make of the rows it was given, with the filters it  *)
(* still evaluates, is an answer to the query over the whole table: what   *)
(* is taken off DuckDB is done by the scan, and nothing else is.           *)
AnswerIsExact == stage = "answered" =>
  \A a \in SUBSET Satisfying(emitted, filters) :
    Answers(a, Satisfying(emitted, filters), query)
      => Answers(a, Satisfying(Rows, query.filters), query)

(* No object of Rust's is used or freed after it was freed, on no way      *)
(* through ATTACH, the executions of a plan and DETACH.                    *)
NothingDangles == ~dangled

(* When the database is gone, so is every object that was handed out for   *)
(* it; the one exception is the value whose conversion threw.              *)
OnlyThrownValuesLeak == stage = "detached" => live = lost
=============================================================================
