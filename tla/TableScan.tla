------------------------------ MODULE TableScan ------------------------------
(***************************************************************************)
(* One scan of a table while other people edit the document: the DuckDB    *)
(* table function (src/src/cpp/rust_bridge_scan.cpp), which fills vectors  *)
(* from batches, and the ScanHandle behind it (src/src/client/scan.rs),    *)
(* which follows page tokens and, after the last page, asks once for what  *)
(* has changed since.                                                      *)
(*                                                                         *)
(* The rows endpoint is external.  It lists rows by key; a page token      *)
(* resumes after the last key returned; the sync token that comes with the *)
(* last page asks for the rows changed or deleted since that page.         *)
(***************************************************************************)
EXTENDS Integers, Sequences, FiniteSets

CONSTANTS
  Rows,          \* row keys, positive integers
  InitialRows,   \* the rows that exist when the scan starts
  MaxEdits,      \* bound: edits made while the scan is under way
  PushedLimits,  \* LIMITs the planner may have pushed; 0 is none
  PageSize,      \* the 500 rows of ScanHandle::new
  VectorSize,    \* STANDARD_VECTOR_SIZE
  NoToken        \* the empty page or sync token

ASSUME ScanAssumption ==
  /\ Rows \subseteq Nat \ {0}
  /\ IsFiniteSet(Rows)
  /\ InitialRows \subseteq Rows
  /\ MaxEdits \in Nat
  /\ PushedLimits \subseteq Nat
  /\ PageSize \in Nat \ {0}
  /\ VectorSize \in Nat \ {0}
  /\ NoToken \notin Int
  /\ NoToken \notin [after : Rows, since : Int]

VARIABLES
  \* the document
  clock,       \* number of edits made so far
  alive,       \* rows that exist
  changedAt,   \* per row, the edit that last touched it
  issues,      \* whether the endpoint issues sync tokens
  \* ScanHandle
  pageToken, syncToken, syncCheckDone, rustFinished,
  \* RustBridgeScanGlobalState
  limit, remaining, finished,
  batch,       \* the rows of the batch that are not in a vector yet
  out,         \* rows already in the vector being filled
  pc,          \* where the scan is
  \* history
  seen,        \* per row, the versions DuckDB was given, in order
  emitted,     \* number of rows DuckDB was given
  removedAt,   \* per row, the edit that deleted it
  tokenAt,     \* when the last plain page was answered
  syncAt       \* when the sync request was answered

server == <<clock, alive, changedAt, issues, removedAt>>
handle == <<pageToken, syncToken, syncCheckDone, rustFinished>>
cursor == <<remaining, batch, finished, out, pc>>
history == <<seen, emitted, tokenAt, syncAt>>
vars == <<server, handle, cursor, limit, history>>

Never == -1
Times == 0..MaxEdits
(* A page token: the last key returned and, for pages of changes, since    *)
(* when; since = Never in a plain listing.                                 *)
PageTokens == [after : Rows, since : Times \cup {Never}]
(* A row's version is the edit that produced it.                           *)
Entries == [row : Rows, version : Times]

TypeOK ==
  /\ clock \in Times
  /\ alive \subseteq Rows
  /\ changedAt \in [Rows -> Times]
  /\ issues \in BOOLEAN
  /\ pageToken \in PageTokens \cup {NoToken}
  /\ syncToken \in Times \cup {NoToken}
  /\ syncCheckDone \in BOOLEAN
  /\ rustFinished \in BOOLEAN
  /\ limit \in PushedLimits
  /\ remaining \in 0..limit
  /\ batch \subseteq Entries
  /\ finished \in BOOLEAN
  /\ out \in 0..VectorSize
  /\ pc \in {"idle", "filling", "fetching", "ended", "failed", "closed"}
  /\ seen \in [Rows -> Seq(Times)]
  /\ emitted \in Nat
  /\ removedAt \in [Rows -> Times \cup {Never}]
  /\ tokenAt \in Times \cup {Never}
  /\ syncAt \in Times \cup {Never}

LesserOf(a, b) == IF a <= b THEN a ELSE b

Init ==
  /\ clock = 0
  /\ alive = InitialRows
  /\ changedAt = [r \in Rows |-> 0]
  /\ issues \in BOOLEAN
  /\ pageToken = NoToken
  /\ syncToken = NoToken
  /\ syncCheckDone = FALSE
  /\ rustFinished = FALSE
  /\ limit \in PushedLimits
  /\ remaining = limit
  /\ batch = {}
  /\ finished = FALSE
  /\ out = 0
  /\ pc = "idle"
  /\ seen = [r \in Rows |-> <<>>]
  /\ emitted = 0
  /\ removedAt = [r \in Rows |-> Never]
  /\ tokenAt = Never
  /\ syncAt = Never
-----------------------------------------------------------------------------
(* Other editors.                                                          *)

Touch(r) ==
  /\ clock < MaxEdits
  /\ clock' = clock + 1
  /\ changedAt' = [changedAt EXCEPT ![r] = clock + 1]
  /\ UNCHANGED <<issues, handle, cursor, limit, history>>

(* Change a row, or add one that never existed.                            *)
EditRow(r) ==
  /\ removedAt[r] = Never
  /\ Touch(r)
  /\ alive' = alive \cup {r}
  /\ UNCHANGED removedAt

DeleteRow(r) ==
  /\ r \in alive
  /\ Touch(r)
  /\ alive' = alive \ {r}
  /\ removedAt' = [removedAt EXCEPT ![r] = clock + 1]
-----------------------------------------------------------------------------
(* The rows endpoint.                                                      *)

(* What a request with this page and sync token ranges over.               *)
Since(page, sync) == IF page # NoToken THEN page.since
                     ELSE IF sync # NoToken THEN sync ELSE Never

After(page) == IF page = NoToken THEN 0 ELSE page.after

Matching(page, sync) ==
  LET since == Since(page, sync)
  IN  {r \in Rows : r > After(page) /\ IF since = Never THEN r \in alive
                                       ELSE changedAt[r] > since}

(* ScanHandle::new: the limit of a request.                                *)
RequestLimit == IF limit = 0 THEN PageSize ELSE LesserOf(limit, PageSize)
-----------------------------------------------------------------------------
(* ScanHandle::request: the sync token is sent once, when the pages have   *)
(* run out; sending it is recorded before the request is made.             *)

SendsSyncToken == pageToken = NoToken /\ syncToken # NoToken /\ ~syncCheckDone

(* Mutant: the flag is set but the token is left out of the request.       *)
RequestNoSyncToken == NoToken

RequestSyncToken == IF SendsSyncToken THEN syncToken ELSE NoToken

(* Mutant: a batch without a sync token is the last one.                   *)
FinishedBySync(page, sync, checked) == sync = NoToken \/ checked

(* Mutant: the conditions are grouped the other way.                       *)
FinishedOnceChecked(page, sync, checked) ==
  (page = NoToken /\ sync = NoToken) \/ checked

(* When next_batch sets finished.                                          *)
FinishedAfter(page, sync, checked) ==
  page = NoToken /\ (sync = NoToken \/ checked)

(* Mutant: the sync check is not recorded.                                 *)
SyncCheckForgotten == syncCheckDone

SyncCheckRecorded == syncCheckDone \/ SendsSyncToken

(* The rows of a page without those that are reported as deleted.          *)
VisibleRows(page) == {[row |-> r, version |-> changedAt[r]] : r \in page \cap alive}

(* One round of next_batch: list_rows, the tokens, the deleted rows.  The  *)
(* endpoint answers with the matching rows up to some key, so that a page  *)
(* may come back short.  A round that leaves nothing to show is followed   *)
(* by another: the caller, who had nothing left and was not finished,      *)
(* still has nothing and is not finished.  RustBridgeScan never calls      *)
(* again after a finished batch, so the empty batch that a finished handle *)
(* would return does not occur.                                            *)
ListRows ==
  /\ pc = "fetching"
  /\ LET sync == RequestSyncToken
         keys == Matching(pageToken, sync)
         since == Since(pageToken, sync)
     IN  \E last \in IF keys = {} THEN {0} ELSE keys :
          LET page == {r \in keys : r <= last}
              more == page # keys
          IN  /\ Cardinality(page) <= RequestLimit
              /\ pageToken' = IF more THEN [after |-> last, since |-> since] ELSE NoToken
              /\ syncToken' = IF issues /\ ~more THEN clock ELSE NoToken
              /\ tokenAt' = IF since = Never /\ ~more THEN clock ELSE tokenAt
              /\ syncAt' = IF sync # NoToken THEN clock ELSE syncAt
              /\ batch' = VisibleRows(page)
  /\ syncCheckDone' = SyncCheckRecorded
  /\ rustFinished' = FinishedAfter(pageToken', syncToken', syncCheckDone')
  /\ finished' = rustFinished'
  /\ pc' = IF batch' # {} \/ rustFinished' THEN "filling" ELSE "fetching"
  /\ UNCHANGED <<server, remaining, out, limit, seen, emitted>>

(* The request or its body fails: the exception ends the scan.             *)
ListRowsFails ==
  /\ pc = "fetching"
  /\ syncCheckDone' = SyncCheckRecorded
  /\ pc' = "failed"
  /\ UNCHANGED <<server, pageToken, syncToken, rustFinished, remaining, batch,
                 finished, out, limit, history>>
-----------------------------------------------------------------------------
(* RustBridgeScan.                                                         *)

BatchSpent == batch = {}

(* Mutant: the count of rows is carried over into the next vector.         *)
CallScanWithoutReset ==
  /\ pc = "idle"
  /\ pc' = IF finished /\ BatchSpent THEN "ended" ELSE "filling"
  /\ UNCHANGED <<server, handle, remaining, batch, finished, out, limit, history>>

(* DuckDB calls the function until it returns an empty chunk.              *)
CallScan ==
  /\ pc = "idle"
  /\ out' = 0
  /\ pc' = IF finished /\ BatchSpent THEN "ended" ELSE "filling"
  /\ UNCHANGED <<server, handle, remaining, batch, finished, limit, history>>

(* The vector is returned; an empty one is the last DuckDB asks for.       *)
ReturnChunk(rows) == pc' = IF rows = 0 THEN "ended" ELSE "idle"

(* Mutant: a full LIMIT returns the vector without ending the scan.        *)
FinishedAtLimitIgnored(left) == finished

FinishedAtLimit(left) == finished \/ (remaining > 0 /\ left = 0)

(* Mutant: the count goes below zero when there is no limit.               *)
RowsLeftUnchecked == remaining - 1

RowsLeft == IF remaining > 0 THEN remaining - 1 ELSE 0

(* The next row of the batch is copied.  A full vector is returned, and so *)
(* is one in which the pushed limit is reached; that ends the scan but not *)
(* the batch.                                                              *)
EmitRow(entry) ==
  /\ pc = "filling"
  /\ out < VectorSize
  /\ \A other \in batch : entry.row <= other.row
  /\ batch' = batch \ {entry}
  /\ out' = out + 1
  /\ remaining' = RowsLeft
  /\ finished' = FinishedAtLimit(remaining')
  /\ seen' = [seen EXCEPT ![entry.row] = Append(@, entry.version)]
  /\ emitted' = emitted + 1
  /\ IF out' = VectorSize \/ (remaining > 0 /\ remaining' = 0)
     THEN ReturnChunk(out')
     ELSE UNCHANGED pc
  /\ UNCHANGED <<server, handle, limit, tokenAt, syncAt>>

(* The batch is spent: either the scan is over or another one is fetched.  *)
NextBatch ==
  /\ pc = "filling"
  /\ BatchSpent
  /\ out < VectorSize
  /\ IF finished THEN ReturnChunk(out) ELSE pc' = "fetching"
  /\ UNCHANGED <<server, handle, limit, remaining, batch, finished, out, history>>

(* The query is over before the scan is: the handle is closed.             *)
CloseScan ==
  /\ pc = "idle"
  /\ pc' = "closed"
  /\ UNCHANGED <<server, handle, limit, remaining, batch, finished, out, history>>

ScanStep ==
  \/ CallScan \/ NextBatch \/ ListRows
  \/ \E entry \in batch : EmitRow(entry)

Next ==
  \/ ScanStep \/ ListRowsFails \/ CloseScan
  \/ \E r \in Rows : EditRow(r) \/ DeleteRow(r)

(* DuckDB keeps calling and the server keeps answering.                    *)
Spec == Init /\ [][Next]_vars /\ WF_vars(ScanStep)
-----------------------------------------------------------------------------
Complete == pc = "ended" /\ limit = 0

(* A scan that runs to its end has produced every row that existed all the *)
(* way through it.                                                         *)
NoRowLost ==
  Complete => \A r \in InitialRows : removedAt[r] = Never => seen[r] # <<>>

(* A row comes twice only if it changed in between, and never with an      *)
(* older version after a newer one; a version in which it was already      *)
(* deleted is never produced.  Without edits every row comes at most once. *)
SeenIsHistory == \A r \in Rows :
  /\ \A i, j \in DOMAIN seen[r] : i < j => seen[r][i] < seen[r][j]
  /\ removedAt[r] # Never => \A i \in DOMAIN seen[r] : seen[r][i] < removedAt[r]

(* If the endpoint issues sync tokens, no scan completes without the sync  *)
(* check, and this is what it is for: a row last changed after the last    *)
(* page was read and before the check was answered has been produced in    *)
(* its final version.                                                      *)
SyncCheckCatchesUp ==
  Complete /\ issues =>
    /\ syncCheckDone
    /\ \A r \in alive :
         tokenAt < changedAt[r] /\ changedAt[r] <= syncAt =>
           seen[r] # <<>> /\ seen[r][Len(seen[r])] = changedAt[r]

(* A pushed LIMIT stops the requests: what is produced beyond it is the    *)
(* rest of one batch.                                                      *)
LimitOverrun == limit > 0 => emitted < limit + RequestLimit

-----------------------------------------------------------------------------
(* The scan implements ScanOutcome.  What was read is in the batch.        *)

(* A finished handle has read everything; otherwise a scan ends at the     *)
(* LIMIT.                                                                  *)
Verdict ==
  CASE pc = "ended" /\ rustFinished -> "complete"
    [] pc = "ended" /\ ~rustFinished -> "enough"
    [] pc \in {"failed", "closed"} -> "abandoned"
    [] OTHER -> "open"

Outcome == INSTANCE ScanOutcome WITH
  present <- alive,
  version <- changedAt,
  steady <- {r \in InitialRows : removedAt[r] = Never},
  wanted <- limit,
  held <- batch,
  given <- seen,
  count <- emitted,
  verdict <- Verdict

(* Whatever the pages, the vectors and the edits, the query is given rows  *)
(* as they were, newer ones only, and an end that says what it was given;  *)
(* and the end comes, even while the document is being edited.             *)
ImplementsScan == Outcome!Spec
=============================================================================
