----------------------------- MODULE UpdateScan -----------------------------
(***************************************************************************)
(* An UPDATE of every row of a table that scans the table it writes.       *)
(* DuckDB runs the scan of TableScan and the update operator as one        *)
(* pipeline: a vector of rows goes to RustBridgeUpdate::Sink, which writes *)
(* them one by one (update_rows in src/src/mutation.rs), and only then is  *)
(* the scan called for the next vector.  The document applies a write some *)
(* time after accepting it, and from then on the rows endpoint shows it:   *)
(* the writes of the statement are edits like anybody else's.              *)
(***************************************************************************)
EXTENDS TableScan

VARIABLES
  waits,      \* WAIT_FOR_MUTATIONS
  vector,     \* per row, how often it is in the vector and not written yet
  unapplied,  \* per row, the number of writes accepted and not yet applied
  writes      \* history: the number of writes accepted for each row

update == <<waits, vector, unapplied, writes>>
updateVars == <<vars, update>>

UpdateInit ==
  /\ Init
  /\ limit = 0
  /\ waits \in BOOLEAN
  /\ vector = [r \in Rows |-> 0]
  /\ unapplied = [r \in Rows |-> 0]
  /\ writes = [r \in Rows |-> 0]
-----------------------------------------------------------------------------
(* Mutant: every row goes to the start of the vector.                      *)
FillVectorAnew == \E entry \in batch :
  /\ EmitRow(entry)
  /\ vector' = [r \in Rows |-> IF r = entry.row THEN 1 ELSE 0]
  /\ UNCHANGED <<waits, unapplied, writes>>

(* The scan fills the vector, from several batches if need be.             *)
FillVector == \E entry \in batch :
  /\ EmitRow(entry)
  /\ vector' = [vector EXCEPT ![entry.row] = @ + 1]
  /\ UNCHANGED <<waits, unapplied, writes>>

VectorWritten == \A r \in Rows : vector[r] = 0

AllApplied == \A r \in Rows : unapplied[r] = 0

(* The scan is called again when Sink has written the vector, and if the   *)
(* attachment waits for mutations, when the last write has completed.      *)
ScanOn ==
  /\ \/ CallScan /\ VectorWritten /\ (waits => AllApplied)
     \/ NextBatch \/ ListRows \/ ListRowsFails
  /\ UNCHANGED update

InSink == pc = "idle" /\ ~VectorWritten

(* Sink writes a row of the vector: the API accepts the write, even of a   *)
(* row that somebody has deleted by now.  In which order the rows of one   *)
(* vector are written makes no difference here.                            *)
WriteRow(r) ==
  /\ pc = "idle"
  /\ vector[r] > 0
  /\ waits => AllApplied
  /\ vector' = [vector EXCEPT ![r] = @ - 1]
  /\ unapplied' = [unapplied EXCEPT ![r] = @ + 1]
  /\ writes' = [writes EXCEPT ![r] = @ + 1]
  /\ UNCHANGED <<vars, waits>>

(* The API turns the write down, or the wait for it fails.                 *)
WriteFails ==
  /\ InSink \/ (pc = "idle" /\ waits /\ ~AllApplied)
  /\ pc' = "failed"
  /\ UNCHANGED <<server, handle, remaining, batch, finished, out, limit, history, update>>

(* The document applies an accepted write; a row deleted meanwhile stays   *)
(* deleted.                                                                *)
ApplyWrite(r) ==
  /\ unapplied[r] > 0
  /\ unapplied' = [unapplied EXCEPT ![r] = @ - 1]
  /\ IF r \in alive THEN EditRow(r) ELSE UNCHANGED vars
  /\ UNCHANGED <<waits, vector, writes>>

(* Somebody else deletes a row.                                            *)
OtherDeletes(r) ==
  /\ DeleteRow(r)
  /\ UNCHANGED update

UpdateStep ==
  \/ FillVector \/ ScanOn \/ WriteFails
  \/ \E r \in Rows : WriteRow(r)

UpdateNext ==
  \/ UpdateStep
  \/ \E r \in Rows : ApplyWrite(r) \/ OtherDeletes(r)

UpdateSpec ==
  /\ UpdateInit
  /\ [][UpdateNext]_updateVars
  /\ WF_updateVars(UpdateStep)
  /\ WF_updateVars(\E r \in Rows : ApplyWrite(r))
-----------------------------------------------------------------------------
Updated == pc = "ended"

(* An UPDATE that runs to its end has written every row that existed all   *)
(* the way through it, its own writes moving rows about as they may.       *)
EveryRowUpdated ==
  Updated => \A r \in InitialRows : removedAt[r] = Never => writes[r] > 0

(* The statement sees a row it has written again through the one sync      *)
(* check only: no row is written more than twice, and none twice unless    *)
(* the first write was applied after the last page was read.               *)
RewrittenBySyncCheckOnly == \A r \in Rows :
  /\ writes[r] <= 2
  /\ writes[r] = 2 =>
       /\ syncCheckDone
       /\ Len(seen[r]) = 2
       /\ tokenAt < seen[r][2]

(* A statement does not chase its own writes for ever.                     *)
UpdateEnds == <>(Updated \/ pc = "failed")

(* README.md: "row IDs are [...] used for updates" and "DML reports rows   *)
(* accepted by the API": a row counts once, because it is updated once.    *)
RowsUpdatedOnce == \A r \in Rows : writes[r] <= 1
=============================================================================
