------------------------- MODULE DmlStatementProofs -------------------------
(***************************************************************************)
(* Proofs about DmlStatement, for every set of connections and statements, *)
(* every number of rows and every vector size.                             *)
(***************************************************************************)
EXTENDS DmlStatement, TLAPS

(* How far a statement has got: whole chunks, then the rows of the chunk   *)
(* inside Sink.                                                            *)
PositionInv(c) ==
  /\ doneRows[c] <= cursor[c] /\ cursor[c] <= chunkEnd[c] /\ chunkEnd[c] <= stmt[c].rows
  /\ affected[c] = doneRows[c]
  /\ pc[c] = "planning" => chunkEnd[c] = 0
  /\ pc[c] = "running" => doneRows[c] = chunkEnd[c]
  /\ pc[c] \in {"sending", "waiting"} => cursor[c] < chunkEnd[c]

(* A statement under way has its transaction and is not inside BEGIN.      *)
SessionInv(c) ==
  /\ c \in transactions <=> pc[c] # "idle"
  /\ pc[c] # "idle" => autocommit[c]
  /\ pc[c] # "idle" /\ hasWrites[c] => cursor[c] > 0

(* What has been sent and written, row by row.                             *)
WriteInv(c) == \A r \in Rows :
  /\ r <= cursor[c] =>
       /\ document[c][r] # "untouched"
       /\ policy.wait => document[c][r] = "completed"
  /\ r > cursor[c] /\ (r \notin Batch(c) \/ pc[c] \in {"planning", "running", "sending"}) =>
       sends[c][r] = 0 /\ document[c][r] = "untouched"
  /\ sends[c][r] <= 1

(* What the user has been told.                                            *)
ResultInv(c) ==
  /\ pc[c] \notin {"idle", "failed"} => result[c] = NoResult
  /\ pc[c] = "failed" => result[c].status # "ok" /\ result[c].rollback = "none"
  /\ result[c].status = "ok" /\ stmt[c].mode # "prepare" =>
       result[c].count = stmt[c].rows /\ cursor[c] = stmt[c].rows
  /\ result[c].rollback = "refused" => cursor[c] > 0

ConnInv(c) == PositionInv(c) /\ SessionInv(c) /\ WriteInv(c) /\ ResultInv(c)

(* The inductive invariant: each connection's statement is consistent,     *)
(* whatever the others do.                                                 *)
DmlInv == \A c \in Conns : ConnInv(c)

ConnStep(c) ==
  \/ ToggleAutocommit(c)
  \/ \E s \in Statements[c] : StartStatement(c, s)
  \/ StatementStep(c)

(* Everything about connection d is as it was.                             *)
SameAt(d) ==
  /\ policy' = policy
  /\ autocommit'[d] = autocommit[d] /\ stmt'[d] = stmt[d] /\ pc'[d] = pc[d]
  /\ d \in transactions' <=> d \in transactions
  /\ hasWrites'[d] = hasWrites[d]
  /\ doneRows'[d] = doneRows[d] /\ chunkEnd'[d] = chunkEnd[d]
  /\ cursor'[d] = cursor[d] /\ affected'[d] = affected[d]
  /\ document'[d] = document[d] /\ sends'[d] = sends[d] /\ result'[d] = result[d]

(* The invariant of a connection is about that connection alone.           *)
LEMMA InvariantIsLocal ==
  ASSUME NEW d, SameAt(d), ConnInv(d)
  PROVE  ConnInv(d)'
BY DEF SameAt, ConnInv, PositionInv, SessionInv, WriteInv, ResultInv, Batch, BatchEnd

(* A step of one connection leaves the others alone.                       *)
LEMMA OthersUntouched ==
  ASSUME TypeOK, NEW c \in Conns, NEW d \in Conns, d # c, ConnStep(c)
  PROVE  SameAt(d)
<1> USE DEF TypeOK, SameAt, session, manager, operator, remote
<1>1. CASE ToggleAutocommit(c)
  BY <1>1 DEF ToggleAutocommit
<1>2. CASE \E s \in Statements[c] : StartStatement(c, s)
  BY <1>2 DEF StartStatement, Report
<1>3. CASE PlanStatement(c)
  BY <1>3 DEF PlanStatement, Fail, Report, CommitTransaction
<1>4. CASE SinkChunk(c)
  BY <1>4 DEF SinkChunk, Fail, Report
<1>5. CASE RejectPayload(c)
  BY <1>5 DEF RejectPayload, Fail, Report
<1>6. CASE SendWrite(c)
  BY <1>6 DEF SendWrite, Fail, Report, RecordSend, RecordWrite
<1>7. CASE LoseWriteResponse(c)
  BY <1>7 DEF LoseWriteResponse, Fail, Report, RecordSend, RecordWrite
<1>8. CASE AwaitMutation(c)
  BY <1>8 DEF AwaitMutation, Fail, Report, RecordWrite, AdvanceWrite, FinishChunk
<1>9. CASE SourceFails(c)
  BY <1>9 DEF SourceFails, Fail, Report
<1>10. CASE FinishStatement(c)
  BY <1>10 DEF FinishStatement, CommitTransaction, Report
<1>11. CASE RollbackTransaction(c)
  BY <1>11 DEF RollbackTransaction, Report
<1>12. QED
  BY <1>1, <1>2, <1>3, <1>4, <1>5, <1>6, <1>7, <1>8, <1>9, <1>10, <1>11 DEF ConnStep, StatementStep

(* Rows of the request in progress.                                        *)
LEMMA BatchBounds ==
  ASSUME StatementAssumption, TypeOK, NEW c \in Conns, PositionInv(c)
  PROVE  /\ stmt[c].rows \in 0..MaxRows
         /\ MaxRows \in Nat
         /\ pc[c] \in {"sending", "waiting"} =>
              /\ BatchEnd(c) \in Rows
              /\ cursor[c] < BatchEnd(c) /\ BatchEnd(c) <= chunkEnd[c]
BY DEF StatementAssumption, TypeOK, StatementShapes, PositionInv, BatchEnd, Rows

(* A request that is under way or next has rows of the chunk in Sink only. *)
LEMMA BatchWithinChunk ==
  ASSUME StatementAssumption, TypeOK, NEW c \in Conns, PositionInv(c),
         pc[c] \in {"sending", "waiting"}
  PROVE  \A r \in Batch(c) : r <= chunkEnd[c] /\ r \in Rows
<1>1. /\ BatchEnd(c) \in 1..MaxRows /\ BatchEnd(c) <= chunkEnd[c]
      /\ MaxRows \in Nat
  BY BatchBounds DEF Rows
<1>2. cursor[c] \in Nat /\ chunkEnd[c] \in Nat
  BY DEF TypeOK
<1>3. QED
  BY <1>1, <1>2 DEF Batch, Rows

Results == [status : Statuses, count : 0..MaxRows, rollback : {"none", "silent", "refused"}]
RowStates == {"untouched", "accepted", "completed"}

(* What the helpers that assign result, document and sends leave in them.  *)
LEMMA ReportTypes ==
  ASSUME result \in [Conns -> Results], NEW c \in Conns, NEW status \in Statuses,
         NEW count \in 0..MaxRows, NEW rollback \in {"none", "silent", "refused"},
         Report(c, status, count, rollback)
  PROVE  result' \in [Conns -> Results]
BY DEF Report, Results

(* A failure is reported with no rows and no rollback yet.                 *)
LEMMA FailTypes ==
  ASSUME StatementAssumption, TypeOK, NEW c \in Conns, NEW status \in Statuses, Fail(c, status)
  PROVE  /\ result' \in [Conns -> Results]
         /\ pc' = [pc EXCEPT ![c] = "failed"]
<1>1. result \in [Conns -> Results] /\ 0 \in 0..MaxRows
  BY DEF TypeOK, Results, StatementAssumption
<1>2. Report(c, status, 0, "none")
  BY DEF Fail
<1>3. QED
  BY <1>1, <1>2, ReportTypes DEF Fail

(* A request leaves a state and a count for every row.                     *)
LEMMA WriteTypes ==
  ASSUME TypeOK, NEW c \in Conns, NEW state \in RowStates
  PROVE  /\ RecordWrite(c, state) => document' \in [Conns -> [Rows -> RowStates]]
         /\ RecordSend(c) => sends' \in [Conns -> [Rows -> Nat]]
<1>1. RecordWrite(c, state) => document' \in [Conns -> [Rows -> RowStates]]
  BY DEF TypeOK, RecordWrite, RowStates
<1>2. RecordSend(c) => sends' \in [Conns -> [Rows -> Nat]]
  BY DEF TypeOK, RecordSend
<1>3. QED
  BY <1>1, <1>2

(* Every step leaves every variable in its type; the counters stay within  *)
(* the statement's rows because of their order.                            *)
LEMMA TypesKept ==
  ASSUME StatementAssumption, TypeOK, NEW c \in Conns, PositionInv(c), ConnStep(c)
  PROVE  TypeOK'
<1> USE DEF TypeOK
<1>0. /\ stmt[c].rows \in 0..MaxRows /\ MaxRows \in Nat
      /\ stmt[c].kind \in Kinds
      /\ doneRows[c] \in 0..MaxRows /\ cursor[c] \in 0..MaxRows /\ chunkEnd[c] \in 0..MaxRows
      /\ doneRows[c] <= cursor[c] /\ cursor[c] <= chunkEnd[c] /\ chunkEnd[c] <= stmt[c].rows
      /\ affected[c] = doneRows[c]
  BY BatchBounds DEF PositionInv, StatementShapes
<1>b. pc[c] \in {"sending", "waiting"} => BatchEnd(c) \in 0..MaxRows
  BY <1>0, BatchBounds DEF Rows
<1>r. /\ result \in [Conns -> Results]
      /\ result' \in [Conns -> Results] <=>
           result' \in [Conns -> [status : Statuses, count : 0..MaxRows,
                                   rollback : {"none", "silent", "refused"}]]
      /\ {"explicit", "unsupported", "write_failed", "source_failed", "ok"} \subseteq Statuses
      /\ RowStates = {"untouched", "accepted", "completed"}
  BY DEF Results, Statuses, RowStates
<1>1. CASE ToggleAutocommit(c)
  BY <1>1 DEF ToggleAutocommit, manager, operator, remote
<1>2. CASE \E s \in Statements[c] : StartStatement(c, s)
  <2> PICK s \in Statements[c] : StartStatement(c, s)
    BY <1>2
  <2>1. s \in StatementShapes /\ 0 \in 0..MaxRows
    BY <1>0 DEF StatementAssumption
  <2>2. NoResult \in Results
    BY <1>0 DEF NoResult, Results, Statuses
  <2>3. result' \in [Conns -> Results]
    <3>1. \/ Report(c, "explicit", 0, "none")
          \/ result' = [result EXCEPT ![c] = NoResult]
      BY DEF StartStatement
    <3>2. CASE Report(c, "explicit", 0, "none")
      BY <1>r, <2>1, <3>2, ReportTypes
    <3>3. CASE result' = [result EXCEPT ![c] = NoResult]
      BY <1>r, <2>2, <3>3
    <3>4. QED
      BY <3>1, <3>2, <3>3
  <2>4. QED
    BY <1>r, <2>1, <2>3 DEF StartStatement, session, manager
<1>3. CASE PlanStatement(c)
  <2>1. result' \in [Conns -> Results]
    <3>1. CASE Fail(c, "explicit") \/ Fail(c, "unsupported")
      BY <1>r, <3>1, FailTypes
    <3>2. CASE CommitTransaction(c)
      BY <1>r, <3>2, ReportTypes DEF CommitTransaction
    <3>3. QED
      BY <1>3, <1>r, <3>1, <3>2 DEF PlanStatement
  <2>2. QED
    BY <1>0, <1>3, <1>r, <2>1 DEF PlanStatement, Fail, CommitTransaction, manager, operator, remote
<1>4. CASE SinkChunk(c)
  <2> PICK n \in 1..VectorSize :
        /\ doneRows[c] + n <= stmt[c].rows
        /\ \/ Fail(c, "explicit") /\ UNCHANGED chunkEnd
           \/ /\ pc' = [pc EXCEPT ![c] = "sending"]
              /\ chunkEnd' = [chunkEnd EXCEPT ![c] = doneRows[c] + n]
              /\ UNCHANGED result
    BY <1>4 DEF SinkChunk
  <2>1. doneRows[c] + n \in 0..MaxRows
    BY <1>0 DEF StatementAssumption
  <2>2. result' \in [Conns -> Results]
    BY <1>r, FailTypes
  <2>3. chunkEnd' \in [Conns -> 0..MaxRows]
    BY <2>1
  <2>4. pc' = [pc EXCEPT ![c] = "failed"] \/ pc' = [pc EXCEPT ![c] = "sending"]
    BY DEF Fail
  <2>5. QED
    BY <1>4, <1>r, <2>2, <2>3, <2>4 DEF SinkChunk, session, manager, remote
<1>5. CASE RejectPayload(c)
  BY <1>5, <1>r, FailTypes DEF RejectPayload, session, manager, operator, remote
<1>6. CASE SendWrite(c)
  <2>1. /\ result' \in [Conns -> Results]
        /\ document' \in [Conns -> [Rows -> RowStates]]
        /\ sends' \in [Conns -> [Rows -> Nat]]
    BY <1>6, <1>r, FailTypes, WriteTypes DEF SendWrite
  <2>2. QED
    BY <1>6, <1>r, <2>1 DEF SendWrite, Fail, session, manager, operator
<1>7. CASE LoseWriteResponse(c)
  <2>1. /\ result' \in [Conns -> Results]
        /\ document' \in [Conns -> [Rows -> RowStates]]
        /\ sends' \in [Conns -> [Rows -> Nat]]
    BY <1>7, <1>r, FailTypes, WriteTypes DEF LoseWriteResponse
  <2>2. QED
    BY <1>7, <1>r, <2>1 DEF LoseWriteResponse, Fail, session, manager, operator
<1>8. CASE AwaitMutation(c)
  <2>1. document' \in [Conns -> [Rows -> RowStates]]
    BY <1>8, <1>r, WriteTypes DEF AwaitMutation
  <2>2. CASE Fail(c, "write_failed") /\ UNCHANGED <<cursor, doneRows, hasWrites, affected>>
    BY <1>8, <1>r, <2>1, <2>2, FailTypes DEF AwaitMutation, session
  <2>3. CASE AdvanceWrite(c) /\ UNCHANGED result
    <3>1. chunkEnd[c] - doneRows[c] \in Nat /\ affected[c] + (chunkEnd[c] - doneRows[c]) \in 0..MaxRows
      BY <1>0
    <3>2. CASE FinishChunk(c)
      <4>1. cursor' \in [Conns -> 0..MaxRows]
        BY <1>b, <1>8, <2>3 DEF AwaitMutation, AdvanceWrite
      <4>2. doneRows' \in [Conns -> 0..MaxRows] /\ affected' \in [Conns -> 0..MaxRows]
        BY <1>0, <3>1, <3>2 DEF FinishChunk
      <4>3. QED
        BY <1>8, <1>r, <2>1, <2>3, <3>2, <4>1, <4>2 DEF AwaitMutation, FinishChunk, session
    <3>3. CASE pc' = [pc EXCEPT ![c] = "sending"] /\ UNCHANGED <<doneRows, hasWrites, affected>>
      BY <1>b, <1>8, <1>r, <2>1, <2>3, <3>3 DEF AwaitMutation, AdvanceWrite, session
    <3>4. QED
      BY <2>3, <3>2, <3>3 DEF AdvanceWrite
  <2>4. QED
    BY <1>8, <2>2, <2>3 DEF AwaitMutation
<1>9. CASE SourceFails(c)
  BY <1>9, <1>r, FailTypes DEF SourceFails, session, manager, operator, remote
<1>10. CASE FinishStatement(c)
  <2>1. result' \in [Conns -> Results]
    BY <1>10, <1>r, ReportTypes DEF FinishStatement, CommitTransaction
  <2>2. QED
    BY <1>10, <1>r, <2>1 DEF FinishStatement, CommitTransaction, session, operator, remote
<1>11. CASE RollbackTransaction(c)
  <2>1. result[c].status \in Statuses /\ 0 \in 0..MaxRows
    BY <1>0, <1>r DEF Results
  <2>2. result' \in [Conns -> Results]
    BY <1>11, <1>r, <2>1, ReportTypes DEF RollbackTransaction
  <2>3. QED
    BY <1>11, <1>r, <2>2 DEF RollbackTransaction, session, operator, remote
<1>12. QED
  BY <1>1, <1>2, <1>3, <1>4, <1>5, <1>6, <1>7, <1>8, <1>9, <1>10, <1>11 DEF ConnStep, StatementStep

(* The step of a connection keeps its own invariant.                       *)
LEMMA InvariantKept ==
  ASSUME StatementAssumption, TypeOK, NEW c \in Conns, ConnInv(c), ConnStep(c)
  PROVE  ConnInv(c)'
<1> USE DEF ConnInv
<1>0. TypeOK' /\ PositionInv(c)
  BY TypesKept
<1>1. CASE ToggleAutocommit(c)
  <2>1. PositionInv(c)'
    BY <1>1 DEF TypeOK, PositionInv, ToggleAutocommit, manager, operator, remote, BatchEnd
  <2>2. SessionInv(c)'
    BY <1>1 DEF TypeOK, PositionInv, SessionInv, ToggleAutocommit, manager, operator, remote
  <2>3. WriteInv(c)'
    BY <1>1 DEF TypeOK, PositionInv, WriteInv, ToggleAutocommit, manager, operator, remote, Batch, BatchEnd
  <2>4. ResultInv(c)'
    BY <1>1 DEF TypeOK, PositionInv, ResultInv, ToggleAutocommit, manager, operator, remote, NoResult
  <2>5. QED
    BY <2>1, <2>2, <2>3, <2>4
<1>2. CASE \E s \in Statements[c] : StartStatement(c, s)
  <2> PICK s \in Statements[c] : StartStatement(c, s)
    BY <1>2
  <2>0. /\ s \in StatementShapes /\ s.rows \in 0..MaxRows /\ stmt'[c] = s
        /\ doneRows'[c] = 0 /\ chunkEnd'[c] = 0 /\ cursor'[c] = 0 /\ affected'[c] = 0
        /\ pc'[c] \in {"idle", "planning", "running"}
    BY DEF StartStatement, TypeOK, StatementAssumption, StatementShapes
  <2>1. PositionInv(c)'
    BY <2>0 DEF PositionInv, StatementAssumption
  <2>2. SessionInv(c)'
    <3>1. pc[c] = "idle" /\ autocommit' = autocommit
      BY DEF StartStatement, session
    <3>2. CASE ~autocommit[c] /\ UNCHANGED <<manager, pc>>
      BY <3>1, <3>2 DEF SessionInv, manager
    <3>3. CASE /\ autocommit[c]
               /\ transactions' = transactions \cup {c}
               /\ hasWrites' = [hasWrites EXCEPT ![c] = FALSE]
               /\ pc' = [pc EXCEPT ![c] = IF s.mode = "execute" THEN "running" ELSE "planning"]
      BY <3>1, <3>3 DEF SessionInv, TypeOK
    <3>4. QED
      BY <3>2, <3>3 DEF StartStatement, SupportsExplicitTransactions
  <2>3. WriteInv(c)'
    <3> SUFFICES ASSUME NEW r \in Rows
                 PROVE  /\ r > 0 /\ sends'[c][r] = 0 /\ document'[c][r] = "untouched"
      BY <2>0 DEF WriteInv, Rows
    <3>1. QED
      BY DEF TypeOK, StartStatement, Rows
  <2>4. ResultInv(c)'
    BY <2>0 DEF TypeOK, ResultInv, StartStatement, Report, NoResult
  <2>5. QED
    BY <2>1, <2>2, <2>3, <2>4
<1>3. CASE PlanStatement(c)
  <2>1. PositionInv(c)'
    BY <1>3 DEF TypeOK, PositionInv, PlanStatement, Fail, Report, CommitTransaction, manager, operator, remote, BatchEnd
  <2>2. SessionInv(c)'
    BY <1>3 DEF TypeOK, PositionInv, SessionInv, PlanStatement, Fail, Report, CommitTransaction, manager, operator, remote
  <2>3. WriteInv(c)'
    BY <1>3 DEF TypeOK, PositionInv, WriteInv, PlanStatement, Fail, Report, CommitTransaction, manager, operator, remote, Batch, BatchEnd
  <2>4. ResultInv(c)'
    BY <1>3 DEF TypeOK, PositionInv, ResultInv, PlanStatement, Fail, Report, CommitTransaction, manager, operator, remote, NoResult
  <2>5. QED
    BY <2>1, <2>2, <2>3, <2>4
<1>4. CASE SinkChunk(c)
  <2>1. PositionInv(c)'
    BY <1>4 DEF TypeOK, PositionInv, SinkChunk, Fail, Report, session, manager, remote, BatchEnd
  <2>2. SessionInv(c)'
    BY <1>4 DEF TypeOK, PositionInv, SessionInv, SinkChunk, Fail, Report, session, manager, remote
  <2>3. WriteInv(c)'
    BY <1>4 DEF TypeOK, PositionInv, WriteInv, SinkChunk, Fail, Report, session, manager, remote, Batch, BatchEnd
  <2>4. ResultInv(c)'
    BY <1>4 DEF TypeOK, PositionInv, ResultInv, SinkChunk, Fail, Report, session, manager, remote, NoResult
  <2>5. QED
    BY <2>1, <2>2, <2>3, <2>4
<1>5. CASE RejectPayload(c)
  <2>1. PositionInv(c)'
    BY <1>5 DEF TypeOK, PositionInv, RejectPayload, Fail, Report, session, manager, operator, remote, BatchEnd
  <2>2. SessionInv(c)'
    BY <1>5 DEF TypeOK, PositionInv, SessionInv, RejectPayload, Fail, Report, session, manager, operator, remote
  <2>3. WriteInv(c)'
    BY <1>5 DEF TypeOK, PositionInv, WriteInv, RejectPayload, Fail, Report, session, manager, operator, remote, Batch, BatchEnd
  <2>4. ResultInv(c)'
    BY <1>5 DEF TypeOK, PositionInv, ResultInv, RejectPayload, Fail, Report, session, manager, operator, remote, NoResult
  <2>5. QED
    BY <2>1, <2>2, <2>3, <2>4
<1>6. CASE SendWrite(c)
  <2>1. PositionInv(c)'
    BY <1>6 DEF TypeOK, PositionInv, SendWrite, Fail, Report, RecordSend, RecordWrite, session, manager, operator, BatchEnd
  <2>2. SessionInv(c)'
    BY <1>6 DEF TypeOK, PositionInv, SessionInv, SendWrite, Fail, Report, RecordSend, RecordWrite, session, manager, operator
  <2>3. WriteInv(c)'
    BY <1>6 DEF TypeOK, PositionInv, WriteInv, SendWrite, Fail, Report, RecordSend, RecordWrite, session, manager, operator, Batch, BatchEnd
  <2>4. ResultInv(c)'
    BY <1>6 DEF TypeOK, PositionInv, ResultInv, SendWrite, Fail, Report, RecordSend, RecordWrite, session, manager, operator, NoResult
  <2>5. QED
    BY <2>1, <2>2, <2>3, <2>4
<1>7. CASE LoseWriteResponse(c)
  <2>1. PositionInv(c)'
    BY <1>7 DEF TypeOK, PositionInv, LoseWriteResponse, Fail, Report, RecordSend, RecordWrite, session, manager, operator, BatchEnd
  <2>2. SessionInv(c)'
    BY <1>7 DEF TypeOK, PositionInv, SessionInv, LoseWriteResponse, Fail, Report, RecordSend, RecordWrite, session, manager, operator
  <2>3. WriteInv(c)'
    BY <1>7 DEF TypeOK, PositionInv, WriteInv, LoseWriteResponse, Fail, Report, RecordSend, RecordWrite, session, manager, operator, Batch, BatchEnd
  <2>4. ResultInv(c)'
    BY <1>7 DEF TypeOK, PositionInv, ResultInv, LoseWriteResponse, Fail, Report, RecordSend, RecordWrite, session, manager, operator, NoResult
  <2>5. QED
    BY <2>1, <2>2, <2>3, <2>4
<1>8. CASE AwaitMutation(c)
  <2>0. /\ pc[c] = "waiting" /\ chunkEnd[c] <= stmt[c].rows
        /\ UNCHANGED <<policy, autocommit, transactions, stmt, chunkEnd, sends>>
        /\ doneRows[c] <= cursor[c] /\ affected[c] = doneRows[c]
        /\ cursor[c] < BatchEnd(c) /\ BatchEnd(c) <= chunkEnd[c] /\ BatchEnd(c) \in Rows
    BY <1>8, BatchBounds DEF AwaitMutation, PositionInv, session
  <2>n. /\ cursor[c] \in Nat /\ doneRows[c] \in Nat /\ chunkEnd[c] \in Nat /\ MaxRows \in Nat
        /\ stmt[c].rows \in Nat
    BY BatchBounds DEF TypeOK
  <2> PICK effect \in Outcome!Effects, verdict \in Outcome!Verdicts :
        /\ Outcome!Supports(policy, effect, verdict)
        /\ RecordWrite(c, IF effect = "open" THEN "accepted" ELSE "completed")
        /\ \/ /\ verdict = "ok"
              /\ AdvanceWrite(c)
              /\ UNCHANGED result
           \/ /\ verdict # "ok"
              /\ Fail(c, "write_failed")
              /\ UNCHANGED <<cursor, doneRows, hasWrites, affected>>
    BY <1>8 DEF AwaitMutation
  <2>d. \A r \in Rows :
          document'[c][r] = IF r \in Batch(c)
                            THEN IF effect = "open" THEN "accepted" ELSE "completed"
                            ELSE document[c][r]
    BY DEF RecordWrite, TypeOK
  <2>1. CASE verdict = "ok" /\ AdvanceWrite(c) /\ UNCHANGED result
    <3>1. cursor'[c] = BatchEnd(c) /\ pc'[c] \in {"running", "sending"}
      BY <2>1 DEF AdvanceWrite, FinishChunk, TypeOK
    <3>2. \/ /\ pc'[c] = "running" /\ BatchEnd(c) = chunkEnd[c]
             /\ doneRows'[c] = chunkEnd[c] /\ affected'[c] = chunkEnd[c]
          \/ /\ pc'[c] = "sending" /\ BatchEnd(c) # chunkEnd[c]
             /\ doneRows'[c] = doneRows[c] /\ affected'[c] = doneRows[c]
      BY <2>0, <2>n, <2>1 DEF AdvanceWrite, FinishChunk, TypeOK
    <3>3. PositionInv(c)'
      BY <2>0, <2>n, <3>1, <3>2 DEF PositionInv, Rows
    <3>4. SessionInv(c)'
      BY <2>0, <2>n, <3>1 DEF SessionInv, Rows
    <3>5. WriteInv(c)'
      <4>1. policy.wait => effect # "open"
        BY <2>1 DEF Outcome!Supports
      <4>2. pc'[c] = "sending" => stmt[c].kind = "update"
        BY <3>2 DEF BatchEnd
      <4> SUFFICES ASSUME NEW r \in Rows
                   PROVE  /\ r <= cursor'[c] =>
                               /\ document'[c][r] # "untouched"
                               /\ policy'.wait => document'[c][r] = "completed"
                          /\ r > cursor'[c] => sends'[c][r] = 0 /\ document'[c][r] = "untouched"
                          /\ sends'[c][r] <= 1
        BY DEF WriteInv
      <4>3. CASE r \in Batch(c)
        BY <2>0, <2>d, <3>1, <4>1, <4>3 DEF Batch, WriteInv, Rows
      <4>4. CASE r \notin Batch(c)
        BY <2>0, <2>n, <2>d, <3>1, <4>4 DEF Batch, WriteInv, Rows
      <4>5. QED
        BY <4>3, <4>4
    <3>6. ResultInv(c)'
      BY <2>0, <2>1, <3>1 DEF ResultInv, NoResult
    <3>7. QED
      BY <3>3, <3>4, <3>5, <3>6
  <2>2. CASE Fail(c, "write_failed") /\ UNCHANGED <<cursor, doneRows, hasWrites, affected>>
    <3>1. pc'[c] = "failed"
      BY <2>2 DEF Fail, TypeOK
    <3>2. PositionInv(c)'
      BY <2>0, <2>2, <3>1 DEF PositionInv
    <3>3. SessionInv(c)'
      BY <2>0, <2>2, <3>1 DEF SessionInv
    <3>4. WriteInv(c)'
      <4> SUFFICES ASSUME NEW r \in Rows
                   PROVE  /\ r <= cursor[c] =>
                               /\ document'[c][r] # "untouched"
                               /\ policy.wait => document'[c][r] = "completed"
                          /\ r > cursor[c] /\ r \notin Batch(c) =>
                               sends[c][r] = 0 /\ document'[c][r] = "untouched"
                          /\ sends[c][r] <= 1
        BY <2>0, <2>2, <3>1 DEF WriteInv, Batch, BatchEnd
      <4>1. r <= cursor[c] => r \notin Batch(c)
        BY <2>0, <2>n DEF Batch, Rows
      <4>2. QED
        BY <2>d, <4>1 DEF WriteInv
    <3>5. ResultInv(c)'
      BY <2>0, <2>2, <3>1 DEF ResultInv, Fail, Report, TypeOK
    <3>6. QED
      BY <3>2, <3>3, <3>4, <3>5
  <2>3. QED
    BY <2>1, <2>2
<1>9. CASE SourceFails(c)
  <2>1. PositionInv(c)'
    BY <1>9 DEF TypeOK, PositionInv, SourceFails, Fail, Report, session, manager, operator, remote, BatchEnd
  <2>2. SessionInv(c)'
    BY <1>9 DEF TypeOK, PositionInv, SessionInv, SourceFails, Fail, Report, session, manager, operator, remote
  <2>3. WriteInv(c)'
    BY <1>9 DEF TypeOK, PositionInv, WriteInv, SourceFails, Fail, Report, session, manager, operator, remote, Batch, BatchEnd
  <2>4. ResultInv(c)'
    BY <1>9 DEF TypeOK, PositionInv, ResultInv, SourceFails, Fail, Report, session, manager, operator, remote, NoResult
  <2>5. QED
    BY <2>1, <2>2, <2>3, <2>4
<1>10. CASE FinishStatement(c)
  <2>1. PositionInv(c)'
    BY <1>10 DEF TypeOK, PositionInv, FinishStatement, CommitTransaction, Report, session, operator, remote, BatchEnd
  <2>2. SessionInv(c)'
    BY <1>10 DEF TypeOK, PositionInv, SessionInv, FinishStatement, CommitTransaction, Report, session, operator, remote
  <2>3. WriteInv(c)'
    BY <1>10 DEF TypeOK, PositionInv, WriteInv, FinishStatement, CommitTransaction, Report, session, operator, remote, Batch, BatchEnd
  <2>4. ResultInv(c)'
    <3>1. affected[c] = stmt[c].rows /\ cursor[c] = stmt[c].rows
      <4>1. /\ pc[c] = "running" /\ doneRows[c] = stmt[c].rows
            /\ doneRows[c] \in Nat /\ cursor[c] \in Nat /\ chunkEnd[c] \in Nat
        BY <1>10, BatchBounds DEF FinishStatement, TypeOK
      <4>2. QED
        BY <1>0, <4>1 DEF PositionInv
    <3>2. /\ result'[c] = [status |-> "ok", count |-> affected[c], rollback |-> "none"]
          /\ pc'[c] = "idle"
      BY <1>10 DEF FinishStatement, CommitTransaction, Report, TypeOK
    <3>3. QED
      BY <1>10, <3>1, <3>2 DEF ResultInv, FinishStatement, operator
  <2>5. QED
    BY <2>1, <2>2, <2>3, <2>4
<1>11. CASE RollbackTransaction(c)
  <2>1. PositionInv(c)'
    BY <1>11 DEF TypeOK, PositionInv, RollbackTransaction, Report, session, operator, remote, BatchEnd
  <2>2. SessionInv(c)'
    BY <1>11 DEF TypeOK, PositionInv, SessionInv, RollbackTransaction, Report, session, operator, remote
  <2>3. WriteInv(c)'
    BY <1>11 DEF TypeOK, PositionInv, WriteInv, RollbackTransaction, Report, session, operator, remote, Batch, BatchEnd
  <2>4. ResultInv(c)'
    <3>1. /\ result'[c] = [status |-> result[c].status, count |-> 0,
                           rollback |-> IF hasWrites[c] /\ ~SupportsTransactionRollback
                                        THEN "refused" ELSE "silent"]
          /\ pc[c] = "failed" /\ pc'[c] = "idle"
      BY <1>11 DEF RollbackTransaction, Report, TypeOK
    <3>2. cursor' = cursor
      BY <1>11 DEF RollbackTransaction, operator
    <3>3. QED
      BY <3>1, <3>2 DEF ResultInv, SessionInv
  <2>5. QED
    BY <2>1, <2>2, <2>3, <2>4
<1>12. QED
  BY <1>1, <1>2, <1>3, <1>4, <1>5, <1>6, <1>7, <1>8, <1>9, <1>10, <1>11 DEF ConnStep, StatementStep

(* Types and invariant hold at the start.                                  *)
LEMMA InvariantInit ==
  ASSUME StatementAssumption, Init
  PROVE  TypeOK /\ DmlInv
<1>1. TypeOK
  <2>1. 0 \in 0..MaxRows
    BY DEF StatementAssumption
  <2>2. stmt \in [Conns -> StatementShapes]
    <3>1. [mode |-> "direct", kind |-> "insert", returning |-> FALSE,
           writable |-> TRUE, mentions |-> FALSE, rows |-> 0] \in StatementShapes
      BY <2>1 DEF StatementShapes, Kinds
    <3>2. QED
      BY <3>1 DEF Init
  <2>3. NoResult \in [status : Statuses, count : 0..MaxRows, rollback : {"none", "silent", "refused"}]
    BY <2>1 DEF NoResult, Statuses
  <2>4. result \in [Conns -> [status : Statuses, count : 0..MaxRows,
                             rollback : {"none", "silent", "refused"}]]
    BY <2>3 DEF Init
  <2>5. /\ document \in [Conns -> [Rows -> {"untouched", "accepted", "completed"}]]
        /\ sends \in [Conns -> [Rows -> Nat]]
    BY DEF Init
  <2>6. QED
    BY <2>1, <2>2, <2>4, <2>5 DEF Init, TypeOK
<1>2. ASSUME NEW c \in Conns PROVE ConnInv(c)
  BY DEF Init, StatementAssumption, ConnInv, PositionInv, SessionInv, WriteInv, ResultInv,
         NoResult, Rows
<1>3. QED
  BY <1>1, <1>2 DEF DmlInv

(* Every step keeps them, for every connection.                            *)
LEMMA InvariantStep ==
  ASSUME StatementAssumption, TypeOK, DmlInv, [Next]_vars
  PROVE  TypeOK' /\ DmlInv'
<1>1. CASE UNCHANGED vars
  BY <1>1 DEF vars, session, manager, operator, remote, TypeOK, DmlInv, ConnInv, PositionInv,
              SessionInv, WriteInv, ResultInv, Batch, BatchEnd
<1>2. ASSUME NEW c \in Conns, ConnStep(c)
      PROVE  TypeOK' /\ DmlInv'
  <2>1. TypeOK' /\ ConnInv(c)'
    BY <1>2, TypesKept, InvariantKept DEF DmlInv, ConnInv
  <2>2. ASSUME NEW d \in Conns, d # c PROVE ConnInv(d)'
    BY <1>2, <2>2, OthersUntouched, InvariantIsLocal DEF DmlInv
  <2>3. QED
    BY <2>1, <2>2 DEF DmlInv
<1>3. QED
  BY <1>1, <1>2 DEF Next, ConnStep

(* The invariant holds in every state of every behaviour.                  *)
LEMMA InvariantHolds == Spec => [](TypeOK /\ DmlInv)
<1>1. Init => TypeOK /\ DmlInv
  BY StatementAssumption, InvariantInit
<1>2. TypeOK /\ DmlInv /\ [Next]_vars => TypeOK' /\ DmlInv'
  BY StatementAssumption, InvariantStep
<1>3. QED
  BY <1>1, <1>2, PTL DEF Spec
-----------------------------------------------------------------------------
(* Every variable keeps its type; in particular the counters of a          *)
(* statement never exceed the rows it was given.                           *)
THEOREM StatementTypes == Spec => []TypeOK
BY InvariantHolds, PTL

(* The transaction map holds exactly the statements under way.             *)
THEOREM TransactionsBracket == Spec => []TransactionsBracketStatements
<1>1. DmlInv => TransactionsBracketStatements
  BY DEF DmlInv, ConnInv, SessionInv, TransactionsBracketStatements
<1>2. QED
  BY <1>1, InvariantHolds, PTL

(* Rows are written in order and none beyond the request in progress.      *)
THEOREM RowsInOrder == Spec => []WritesInOrder
<1>1. TypeOK /\ DmlInv => WritesInOrder
  <2> SUFFICES ASSUME TypeOK, DmlInv, NEW c \in Conns, NEW r \in Rows
               PROVE  /\ r <= cursor[c] => document[c][r] # "untouched"
                      /\ document[c][r] # "untouched" => r <= cursor[c] \/ r \in Batch(c)
    BY DEF WritesInOrder
  <2>1. WriteInv(c) /\ cursor[c] \in Int /\ r \in Int
    BY DEF DmlInv, ConnInv, TypeOK, Rows
  <2>2. QED
    BY <2>1 DEF WriteInv
<1>2. QED
  BY <1>1, InvariantHolds, PTL

(* No row of its input is sent twice by one statement.                     *)
THEOREM RowsAtMostOnce == Spec => []AtMostOnce
<1>1. DmlInv => AtMostOnce
  BY DEF DmlInv, ConnInv, WriteInv, AtMostOnce
<1>2. QED
  BY <1>1, InvariantHolds, PTL

(* A statement that succeeds reports the rows it was given, all of them    *)
(* accepted and, if the attachment waits, completed.                       *)
THEOREM CountsTruthful == Spec => []CountIsTruthful
<1>1. StatementAssumption /\ TypeOK /\ DmlInv => CountIsTruthful
  <2> SUFFICES ASSUME StatementAssumption, TypeOK, DmlInv, NEW c \in Conns,
                      result[c].status = "ok", stmt[c].mode # "prepare"
               PROVE  /\ result[c].count = stmt[c].rows
                      /\ \A r \in 1..stmt[c].rows :
                           document[c][r] \in (IF policy.wait THEN {"completed"}
                                               ELSE {"accepted", "completed"})
    BY DEF CountIsTruthful
  <2>1. result[c].count = stmt[c].rows /\ cursor[c] = stmt[c].rows /\ WriteInv(c)
    BY DEF DmlInv, ConnInv, ResultInv
  <2>2. ASSUME NEW r \in 1..stmt[c].rows
        PROVE  /\ r \in Rows /\ r <= cursor[c]
               /\ document[c][r] \in {"untouched", "accepted", "completed"}
    <3>1. stmt[c].rows \in 0..MaxRows /\ MaxRows \in Nat
      BY BatchBounds DEF DmlInv, ConnInv
    <3>2. r \in Rows
      BY <3>1 DEF Rows
    <3>3. QED
      BY <2>1, <3>1, <3>2 DEF TypeOK
  <2>3. QED
    BY <2>1, <2>2 DEF WriteInv
<1>2. QED
  BY <1>1, StatementAssumption, InvariantHolds, PTL

(* The refusal "cannot be rolled back" is only given when something was    *)
(* written.                                                                *)
THEOREM RefusalsTrue == Spec => []RollbackRefusalIsTrue
<1>1. StatementAssumption /\ TypeOK /\ DmlInv => RollbackRefusalIsTrue
  <2> SUFFICES ASSUME StatementAssumption, TypeOK, DmlInv, NEW c \in Conns,
                      result[c].rollback = "refused"
               PROVE  \E r \in Rows : document[c][r] # "untouched"
    BY DEF RollbackRefusalIsTrue
  <2>1. cursor[c] > 0 /\ WriteInv(c)
    BY DEF DmlInv, ConnInv, ResultInv
  <2>2. 1 \in Rows /\ 1 <= cursor[c]
    BY <2>1 DEF TypeOK, StatementAssumption, Rows
  <2>3. QED
    BY <2>1, <2>2 DEF WriteInv
<1>2. QED
  BY <1>1, StatementAssumption, InvariantHolds, PTL

(* A statement sends nothing from inside an explicit transaction.          *)
THEOREM NoExplicitWrites == Spec => NoWriteInExplicitTransaction
<1>1. TypeOK /\ DmlInv /\ [Next]_vars =>
        [\A c \in Conns : sends'[c] # sends[c] /\ pc[c] # "idle" => autocommit[c]]_sends
  BY DEF DmlInv, ConnInv, SessionInv
<1>2. QED
  BY <1>1, InvariantHolds, PTL DEF Spec, NoWriteInExplicitTransaction
-----------------------------------------------------------------------------
(* What StatementOutcome speaks of and the properties above do not: how    *)
(* far the document can be ahead of the marks, and what was let through.   *)

(* Nothing beyond the chunk in Sink is touched, and a chunk is a vector at *)
(* most; the transaction is marked as soon as a chunk is done.             *)
ReachInv(c) ==
  /\ chunkEnd[c] <= doneRows[c] + VectorSize
  /\ \A r \in Rows : r > chunkEnd[c] => sends[c][r] = 0 /\ document[c][r] = "untouched"
  /\ pc[c] # "idle" /\ doneRows[c] > 0 => hasWrites[c]
  /\ pc[c] = "waiting" => \A r \in Batch(c) : document[c][r] = "accepted"

(* Only statements that are not refused get to Sink.                       *)
LetThroughInv(c) ==
  /\ pc[c] \in {"running", "sending", "waiting"} => stmt[c].mode # "prepare"
  /\ pc[c] # "idle" /\ chunkEnd[c] > 0 => ~RejectsExplicitTransaction(c)
  /\ pc[c] = "failed" =>
       result[c].status \in {"explicit", "unsupported", "write_failed", "source_failed"}
  /\ pc[c] = "failed" /\ result[c].status \in {"explicit", "unsupported"} => chunkEnd[c] = 0

ExtentInv == \A c \in Conns : ReachInv(c) /\ LetThroughInv(c)

(* They too are about one connection alone.                                *)
LEMMA ExtentIsLocal ==
  ASSUME NEW d, SameAt(d), ReachInv(d), LetThroughInv(d)
  PROVE  ReachInv(d)' /\ LetThroughInv(d)'
BY DEF SameAt, ReachInv, LetThroughInv, RejectsExplicitTransaction, SupportsExplicitTransactions,
       Batch, BatchEnd

(* The step of a connection keeps its reach.                               *)
LEMMA ReachKept ==
  ASSUME StatementAssumption, TypeOK, NEW c \in Conns, ConnInv(c), ReachInv(c), ConnStep(c)
  PROVE  ReachInv(c)'
<1> USE DEF TypeOK, ReachInv, Batch, BatchEnd
<1>0. /\ doneRows[c] \in Nat /\ cursor[c] \in Nat /\ chunkEnd[c] \in Nat /\ VectorSize \in Nat
      /\ MaxRows \in Nat
  BY DEF StatementAssumption
<1>1. CASE ToggleAutocommit(c)
  BY <1>1 DEF ToggleAutocommit, manager, operator, remote
<1>2. CASE \E s \in Statements[c] : StartStatement(c, s)
  <2>1. /\ doneRows'[c] = 0 /\ chunkEnd'[c] = 0
        /\ pc'[c] \in {"idle", "planning", "running"}
        /\ \A r \in Rows : sends'[c][r] = 0 /\ document'[c][r] = "untouched"
    BY <1>2 DEF StartStatement
  <2>2. QED
    BY <1>0, <2>1
<1>3. CASE PlanStatement(c)
  BY <1>3 DEF PlanStatement, Fail, CommitTransaction, manager, operator, remote
<1>4. CASE SinkChunk(c)
  <2>1. PICK n \in 1..VectorSize :
          \/ Fail(c, "explicit") /\ UNCHANGED chunkEnd
          \/ /\ pc' = [pc EXCEPT ![c] = "sending"]
             /\ chunkEnd' = [chunkEnd EXCEPT ![c] = doneRows[c] + n]
    BY <1>4 DEF SinkChunk
  <2>2. /\ pc[c] = "running" /\ doneRows[c] = chunkEnd[c]
        /\ UNCHANGED <<hasWrites, doneRows, sends, document>>
    BY <1>4 DEF SinkChunk, manager, remote, ConnInv, PositionInv
  <2>3. pc'[c] \in {"failed", "sending"}
    BY <2>1 DEF Fail
  <2>4. /\ chunkEnd'[c] \in Nat
        /\ chunkEnd[c] <= chunkEnd'[c] /\ chunkEnd'[c] <= chunkEnd[c] + VectorSize
    BY <1>0, <2>1, <2>2
  <2>5. QED
    BY <1>0, <2>2, <2>3, <2>4 DEF Rows
<1>5. CASE RejectPayload(c)
  BY <1>5 DEF RejectPayload, Fail, manager, operator, remote
<1>6. CASE SendWrite(c) \/ LoseWriteResponse(c)
  <2>1. /\ pc[c] = "sending" /\ pc'[c] \in {"waiting", "failed"}
        /\ UNCHANGED <<hasWrites, doneRows, chunkEnd, cursor, stmt>>
        /\ RecordSend(c)
        /\ RecordWrite(c, "accepted") \/ (document' = document /\ pc'[c] = "failed")
    BY <1>6 DEF SendWrite, LoseWriteResponse, Fail, manager, operator
  <2>2. \A r \in Batch(c) : r <= chunkEnd[c] /\ r \in Rows
    BY <2>1, BatchWithinChunk DEF ConnInv
  <2>3. \A r \in Rows : r > chunkEnd[c] => sends'[c][r] = sends[c][r]
    BY <1>0, <2>1, <2>2 DEF RecordSend, Rows
  <2>4. CASE RecordWrite(c, "accepted")
    <3>1. \A r \in Rows : document'[c][r] = IF r \in Batch(c) THEN "accepted" ELSE document[c][r]
      BY <2>4 DEF RecordWrite
    <3>2. \A r \in Rows : r > chunkEnd[c] => document'[c][r] = document[c][r]
      BY <1>0, <2>2, <3>1 DEF Rows
    <3>3. Batch(c)' = Batch(c)
      BY <2>1
    <3>4. \A r \in Batch(c) : document'[c][r] = "accepted"
      BY <2>2, <3>1
    <3>5. QED
      BY <2>1, <2>3, <3>2, <3>3, <3>4
  <2>5. CASE document' = document /\ pc'[c] = "failed"
    BY <2>1, <2>3, <2>5
  <2>6. QED
    BY <2>1, <2>4, <2>5
<1>7. CASE AwaitMutation(c)
  <2>1. PICK state \in RowStates :
          /\ RecordWrite(c, state)
          /\ \/ AdvanceWrite(c)
             \/ Fail(c, "write_failed") /\ UNCHANGED <<cursor, doneRows, hasWrites, affected>>
    BY <1>7 DEF AwaitMutation, RowStates
  <2>2. pc[c] = "waiting" /\ UNCHANGED <<stmt, chunkEnd, sends>>
    BY <1>7 DEF AwaitMutation
  <2>3. \A r \in Batch(c) : r <= chunkEnd[c] /\ r \in Rows
    BY <2>2, BatchWithinChunk DEF ConnInv
  <2>4. \A r \in Rows : r > chunkEnd[c] => document'[c][r] = document[c][r]
    BY <1>0, <2>1, <2>3 DEF RecordWrite, Rows
  <2>5. /\ doneRows'[c] = doneRows[c] \/ doneRows'[c] = chunkEnd[c]
        /\ pc'[c] \in {"running", "sending", "failed"}
        /\ (doneRows'[c] = doneRows[c] /\ hasWrites'[c] = hasWrites[c]) \/ hasWrites'[c] = TRUE
    BY <2>1 DEF AdvanceWrite, FinishChunk, Fail
  <2>6. QED
    BY <1>0, <2>2, <2>4, <2>5
<1>8. CASE SourceFails(c)
  BY <1>8 DEF SourceFails, Fail, manager, operator, remote
<1>9. CASE FinishStatement(c)
  BY <1>9 DEF FinishStatement, CommitTransaction, operator, remote
<1>10. CASE RollbackTransaction(c)
  BY <1>10 DEF RollbackTransaction, operator, remote
<1>11. QED
  BY <1>1, <1>2, <1>3, <1>4, <1>5, <1>6, <1>7, <1>8, <1>9, <1>10 DEF ConnStep, StatementStep

(* Whoever is refused has not got to Sink, and stays refused.              *)
LEMMA LetThroughKept ==
  ASSUME StatementAssumption, TypeOK, NEW c \in Conns, ConnInv(c), LetThroughInv(c), ConnStep(c)
  PROVE  LetThroughInv(c)'
<1> USE DEF TypeOK, LetThroughInv, RejectsExplicitTransaction, SupportsExplicitTransactions
<1>0. /\ doneRows[c] \in Nat /\ chunkEnd[c] \in Nat /\ VectorSize \in Nat
  BY DEF StatementAssumption
<1>1. CASE ToggleAutocommit(c)
  BY <1>1 DEF ToggleAutocommit, operator
<1>2. CASE \E s \in Statements[c] : StartStatement(c, s)
  <2> PICK s \in Statements[c] : StartStatement(c, s)
    BY <1>2
  <2>1. /\ chunkEnd'[c] = 0 /\ stmt'[c] = s
        /\ pc'[c] \in {"idle", "planning", "running"}
        /\ pc'[c] = "running" => s.mode = "execute"
    BY DEF StartStatement
  <2>2. QED
    BY <2>1
<1>3. CASE PlanStatement(c)
  <2>1. /\ pc[c] = "planning" /\ chunkEnd[c] = 0
        /\ UNCHANGED <<autocommit, stmt, chunkEnd>>
    BY <1>3 DEF PlanStatement, operator, ConnInv, PositionInv
  <2>2. CASE Fail(c, "explicit") \/ Fail(c, "unsupported")
    <3>1. pc'[c] = "failed" /\ result'[c].status \in {"explicit", "unsupported"}
      BY <2>2 DEF Fail, Report
    <3>2. QED
      BY <2>1, <3>1
  <2>3. CASE pc' = [pc EXCEPT ![c] = "running"] /\ stmt[c].mode = "direct"
    BY <2>1, <2>3
  <2>4. CASE CommitTransaction(c)
    BY <2>1, <2>4 DEF CommitTransaction
  <2>5. QED
    BY <1>3, <2>2, <2>3, <2>4 DEF PlanStatement
<1>4. CASE SinkChunk(c)
  <2>1. pc[c] = "running" /\ UNCHANGED <<autocommit, stmt>>
    BY <1>4 DEF SinkChunk, session
  <2>2. CASE RejectsExplicitTransaction(c)
    <3>1. Fail(c, "explicit") /\ UNCHANGED chunkEnd
      BY <1>4, <2>2 DEF SinkChunk
    <3>2. pc'[c] = "failed" /\ result'[c].status = "explicit"
      BY <3>1 DEF Fail, Report
    <3>3. QED
      BY <1>0, <2>1, <2>2, <3>1, <3>2
  <2>3. CASE ~RejectsExplicitTransaction(c)
    <3>1. pc' = [pc EXCEPT ![c] = "sending"]
      BY <1>4, <2>3 DEF SinkChunk
    <3>2. QED
      BY <2>1, <2>3, <3>1
  <2>4. QED
    BY <2>2, <2>3
<1>5. CASE RejectPayload(c) \/ SendWrite(c) \/ LoseWriteResponse(c) \/ SourceFails(c)
  <2>1. /\ UNCHANGED <<autocommit, stmt, chunkEnd>>
        /\ pc[c] \in {"running", "sending"}
        /\ \/ pc'[c] = "waiting"
           \/ /\ pc'[c] = "failed"
              /\ result'[c].status \in {"write_failed", "source_failed"}
    BY <1>5 DEF RejectPayload, SendWrite, LoseWriteResponse, SourceFails, Fail, Report, session, operator
  <2>2. QED
    BY <2>1
<1>6. CASE AwaitMutation(c)
  <2>1. /\ UNCHANGED <<autocommit, stmt, chunkEnd>>
        /\ pc[c] = "waiting"
        /\ \/ pc'[c] \in {"running", "sending"}
           \/ pc'[c] = "failed" /\ result'[c].status = "write_failed"
    BY <1>6 DEF AwaitMutation, AdvanceWrite, FinishChunk, Fail, Report, session
  <2>2. QED
    BY <2>1
<1>7. CASE FinishStatement(c)
  BY <1>7 DEF FinishStatement, CommitTransaction
<1>8. CASE RollbackTransaction(c)
  BY <1>8 DEF RollbackTransaction
<1>9. QED
  BY <1>1, <1>2, <1>3, <1>4, <1>5, <1>6, <1>7, <1>8 DEF ConnStep, StatementStep

(* They hold in every state of every behaviour.                            *)
LEMMA ExtentHolds == Spec => []ExtentInv
<1>1. Init => ExtentInv
  BY StatementAssumption DEF Init, ExtentInv, ReachInv, LetThroughInv
<1>2. TypeOK /\ DmlInv /\ ExtentInv /\ [Next]_vars => ExtentInv'
  <2> SUFFICES ASSUME TypeOK, DmlInv, ExtentInv, [Next]_vars, NEW d \in Conns
               PROVE  ReachInv(d)' /\ LetThroughInv(d)'
    BY DEF ExtentInv
  <2>1. CASE UNCHANGED vars
    <3>1. SameAt(d)
      BY <2>1 DEF SameAt, vars, session, manager, operator, remote
    <3>2. QED
      BY <3>1, ExtentIsLocal DEF ExtentInv
  <2>2. ASSUME NEW c \in Conns, ConnStep(c)
        PROVE  ReachInv(d)' /\ LetThroughInv(d)'
    <3>1. CASE c = d
      BY <2>2, <3>1, StatementAssumption, ReachKept, LetThroughKept DEF DmlInv, ExtentInv
    <3>2. CASE c # d
      BY <2>2, <3>2, OthersUntouched, ExtentIsLocal DEF ExtentInv
    <3>3. QED
      BY <3>1, <3>2
  <2>3. QED
    BY <2>1, <2>2 DEF Next, ConnStep
<1>3. QED
  BY <1>1, <1>2, InvariantHolds, PTL DEF Spec
-----------------------------------------------------------------------------
(* What the variables of StatementOutcome are, before and after a step.     *)
LEMMA PhaseOf ==
  ASSUME NEW c \in Conns
  PROVE  /\ pc[c] = "idle" => Phase[c] = "idle"
         /\ pc[c] = "failed" => Phase[c] = "stopped" /\ Told[c] = NoResult
         /\ pc[c] \notin {"idle", "failed"} => Phase[c] = "writing"
         /\ pc[c] # "failed" => Told[c] = result[c]
         /\ Asked[c] = IF stmt[c].mode = "prepare" THEN 0 ELSE stmt[c].rows
BY DEF Phase, Asked, Told

LEMMA PhaseAfter ==
  ASSUME NEW c \in Conns
  PROVE  /\ pc'[c] = "idle" => Phase'[c] = "idle"
         /\ pc'[c] = "failed" => Phase'[c] = "stopped" /\ Told'[c] = NoResult
         /\ pc'[c] \notin {"idle", "failed"} => Phase'[c] = "writing"
         /\ pc'[c] # "failed" => Told'[c] = result'[c]
         /\ Asked'[c] = IF stmt'[c].mode = "prepare" THEN 0 ELSE stmt'[c].rows
BY DEF Phase, Asked, Told

(* A step of one connection changes each of them at that connection only.  *)
LEMMA ChangedAt ==
  ASSUME TypeOK, NEW c \in Conns, ConnStep(c)
  PROVE  /\ Phase' = [Phase EXCEPT ![c] = Phase'[c]]
         /\ Asked' = [Asked EXCEPT ![c] = Asked'[c]]
         /\ Told' = [Told EXCEPT ![c] = Told'[c]]
<1>1. ASSUME NEW d \in Conns, d # c
      PROVE  pc'[d] = pc[d] /\ stmt'[d] = stmt[d] /\ result'[d] = result[d]
  BY <1>1, OthersUntouched DEF SameAt
<1>2. Phase' = [Phase EXCEPT ![c] = Phase'[c]]
  BY <1>1 DEF Phase
<1>3. Asked' = [Asked EXCEPT ![c] = Asked'[c]]
  BY <1>1 DEF Asked
<1>4. Told' = [Told EXCEPT ![c] = Told'[c]]
  BY <1>1 DEF Told
<1>5. QED
  BY <1>2, <1>3, <1>4

LEMMA UnchangedAt ==
  ASSUME TypeOK, NEW c \in Conns, ConnStep(c)
  PROVE  /\ Phase'[c] = Phase[c] => Phase' = Phase
         /\ Asked'[c] = Asked[c] => Asked' = Asked
         /\ Told'[c] = Told[c] => Told' = Told
<1>1. /\ Phase = [d \in Conns |-> Phase[d]]
      /\ Asked = [d \in Conns |-> Asked[d]]
      /\ Told = [d \in Conns |-> Told[d]]
  BY DEF Phase, Asked, Told
<1>2. QED
  BY <1>1, ChangedAt

(* A step that changes nothing of this stutters.                           *)
LEMMA Stutters ==
  ASSUME TypeOK, NEW c \in Conns, ConnStep(c),
         Phase'[c] = Phase[c], Asked'[c] = Asked[c], Told'[c] = Told[c],
         UNCHANGED <<policy, document, sends>>
  PROVE  UNCHANGED Statement!vars
BY UnchangedAt DEF Statement!vars

(* A statement under way learns that rows are completed, or that it has to *)
(* stop.                                                                   *)
LEMMA LearnStep ==
  ASSUME TypeOK, NEW c \in Conns, ConnStep(c), NEW S \in SUBSET Rows,
         Phase[c] = "writing", Phase'[c] \in {"writing", "stopped"},
         Asked'[c] = Asked[c], Told'[c] = Told[c], UNCHANGED <<policy, sends>>,
         \A r \in S : document[c][r] = "accepted",
         document' = [document EXCEPT ![c] =
                        [r \in Rows |-> IF r \in S THEN "completed" ELSE @[r]]]
  PROVE  Statement!Next
<1>1. Phase' \in {Phase, [Phase EXCEPT ![c] = "stopped"]}
  BY ChangedAt, UnchangedAt
<1>2. Asked' = Asked /\ Told' = Told
  BY UnchangedAt
<1>3. Statement!Rows = Rows
  BY DEF Statement!Rows, Rows
<1>4. Statement!Learn(c, S)
  BY <1>1, <1>2, <1>3 DEF Statement!Learn
<1>5. QED
  BY <1>3, <1>4 DEF Statement!Next

(* A statement fails before it has sent anything more.                     *)
LEMMA StopStep ==
  ASSUME TypeOK, NEW c \in Conns, ConnStep(c), ResultInv(c),
         pc[c] \notin {"idle", "failed"}, pc'[c] = "failed", stmt' = stmt,
         UNCHANGED <<policy, sends, document>>
  PROVE  Statement!Next
<1>1. /\ Phase[c] = "writing" /\ Phase'[c] = "stopped"
      /\ Asked'[c] = Asked[c] /\ Told'[c] = Told[c]
  BY PhaseOf, PhaseAfter DEF ResultInv
<1> DEFINE S == {}
<1>2. S \in SUBSET Rows /\ \A r \in S : document[c][r] = "accepted"
  OBVIOUS
<1>3. document' = [document EXCEPT ![c] =
                     [r \in Rows |-> IF r \in S THEN "completed" ELSE @[r]]]
  BY DEF TypeOK
<1> HIDE DEF S
<1>4. QED
  BY <1>1, <1>2, <1>3, LearnStep

(* A request is one for the next rows.                                     *)
LEMMA SendStep ==
  ASSUME StatementAssumption, TypeOK, NEW c \in Conns, ConnInv(c), ReachInv(c), LetThroughInv(c),
         SendWrite(c) \/ LoseWriteResponse(c)
  PROVE  Statement!Next
<1> DEFINE S == Batch(c)
<1>0. ConnStep(c)
  BY DEF ConnStep, StatementStep
<1>1. /\ pc[c] = "sending" /\ UNCHANGED <<policy, stmt>>
      /\ RecordSend(c)
      /\ \/ RecordWrite(c, "accepted") /\ pc'[c] = "waiting" /\ result' = result
         \/ RecordWrite(c, "accepted") /\ pc'[c] = "failed"
         \/ document' = document /\ pc'[c] = "failed"
  BY DEF SendWrite, LoseWriteResponse, Fail, TypeOK
<1>2. /\ cursor[c] \in Nat /\ doneRows[c] \in Nat /\ chunkEnd[c] \in Nat /\ MaxRows \in Nat
      /\ VectorSize \in Nat /\ stmt[c].rows \in 0..MaxRows
      /\ BatchEnd(c) \in Rows /\ cursor[c] < BatchEnd(c) /\ BatchEnd(c) <= chunkEnd[c]
      /\ doneRows[c] <= cursor[c] /\ chunkEnd[c] <= stmt[c].rows
      /\ chunkEnd[c] <= doneRows[c] + VectorSize
  BY <1>1, BatchBounds DEF TypeOK, StatementAssumption, ConnInv, PositionInv, ReachInv
<1>3. /\ Phase[c] = "writing" /\ Phase'[c] \in {"writing", "stopped"}
      /\ Told'[c] = Told[c] /\ Asked'[c] = Asked[c] /\ Asked[c] = stmt[c].rows
      /\ pc'[c] = "failed" => Phase'[c] = "stopped"
  BY <1>1, PhaseOf, PhaseAfter DEF ConnInv, ResultInv, LetThroughInv
<1>4. /\ Phase' \in {Phase, [Phase EXCEPT ![c] = "stopped"]}
      /\ pc'[c] = "failed" => Phase' = [Phase EXCEPT ![c] = "stopped"]
      /\ Asked' = Asked /\ Told' = Told
  BY <1>0, <1>3, ChangedAt, UnchangedAt
<1>5. Statement!Rows = Rows
  BY DEF Statement!Rows, Rows
<1>6. S # {} /\ S \subseteq 1..Asked[c] /\ S \in SUBSET Rows
  BY <1>2, <1>3 DEF Batch, Rows
<1>7. \A r, s \in S : s - r < VectorSize
  BY <1>2 DEF Batch, Rows
<1>8. \A s \in S : sends[c][s] = 0
  BY <1>1, <1>2, <1>6 DEF ConnInv, WriteInv, Batch
<1>9. ASSUME NEW s \in S, NEW r \in 1..(s - 1), r \notin S
      PROVE  Statement!Settled(c, r)
  <2>1. r \in Rows /\ r <= cursor[c]
    BY <1>2, <1>6, <1>9 DEF Batch, Rows
  <2>2. document[c][r] # "untouched" /\ (policy.wait => document[c][r] = "completed")
    BY <2>1 DEF ConnInv, WriteInv
  <2>3. document[c][r] \in {"untouched", "accepted", "completed"}
    BY <2>1 DEF TypeOK
  <2>4. QED
    BY <2>2, <2>3 DEF Statement!Settled
<1>10. sends' = [sends EXCEPT ![c] = [r \in Rows |-> IF r \in S THEN @[r] + 1 ELSE @[r]]]
  BY <1>1 DEF RecordSend
<1>11. \/ document' = [document EXCEPT ![c] =
                         [r \in Rows |-> IF r \in S THEN "accepted" ELSE @[r]]]
       \/ document' = document /\ pc'[c] = "failed"
  BY <1>1 DEF RecordWrite
<1> HIDE DEF S
<1>12. Statement!Send(c, S)
  BY <1>1, <1>3, <1>4, <1>5, <1>6, <1>7, <1>8, <1>9, <1>10, <1>11 DEF Statement!Send
<1>13. QED
  BY <1>5, <1>6, <1>12 DEF Statement!Next

(* A statement is issued.                                                  *)
LEMMA IssueStep ==
  ASSUME StatementAssumption, TypeOK, NEW c \in Conns, NEW s \in Statements[c],
         StartStatement(c, s)
  PROVE  Statement!Next
<1>0. ConnStep(c)
  BY DEF ConnStep
<1>1. /\ s \in StatementShapes /\ s.rows \in 0..MaxRows /\ 0 \in 0..MaxRows
      /\ pc[c] = "idle" /\ stmt'[c] = s /\ UNCHANGED policy
  BY DEF StatementAssumption, StatementShapes, StartStatement, TypeOK
<1>2. Phase[c] = "idle" /\ Asked'[c] \in 0..MaxRows
  BY <1>1, PhaseOf, PhaseAfter
<1>3. /\ sends' = [sends EXCEPT ![c] = [r \in Rows |-> 0]]
      /\ document' = [document EXCEPT ![c] = [r \in Rows |-> "untouched"]]
  BY DEF StartStatement
<1>4. \/ pc'[c] = "idle" /\ result'[c] = Statement!Told("explicit", 0, "none")
      \/ pc'[c] \in {"planning", "running"} /\ result'[c] = Statement!Told("none", 0, "none")
  BY <1>1 DEF StartStatement, Report, NoResult, TypeOK, Statement!Told
<1>5. \/ Phase'[c] = "idle" /\ Told'[c] = Statement!Told("explicit", 0, "none")
      \/ Phase'[c] = "writing" /\ Told'[c] = Statement!Told("none", 0, "none")
  BY <1>4, PhaseAfter
<1>6. /\ Phase'[c] = "idle" => Phase' = Phase
      /\ Phase' = [Phase EXCEPT ![c] = Phase'[c]]
      /\ Asked' = [Asked EXCEPT ![c] = Asked'[c]]
      /\ Told' = [Told EXCEPT ![c] = Told'[c]]
  BY <1>0, <1>2, ChangedAt, UnchangedAt
<1>7. Statement!Rows = Rows
  BY DEF Statement!Rows, Rows
<1>8. Statement!Issue(c, Asked'[c])
  BY <1>1, <1>2, <1>3, <1>5, <1>6, <1>7 DEF Statement!Issue
<1>9. QED
  BY <1>2, <1>8 DEF Statement!Next

(* A statement succeeds with the rows it was given; a prepared one, with   *)
(* none.                                                                   *)
LEMMA SucceedStep ==
  ASSUME StatementAssumption, TypeOK, NEW c \in Conns, ConnInv(c), ConnStep(c),
         pc[c] \in {"planning", "running"}, CommitTransaction(c),
         affected[c] = Asked[c], cursor[c] = Asked[c], UNCHANGED <<policy, stmt, remote>>
  PROVE  Statement!Next
<1>1. /\ Phase[c] = "writing" /\ Phase'[c] = "idle" /\ Asked'[c] = Asked[c]
      /\ Told'[c] = Statement!Told("ok", Asked[c], "none")
  <2>1. pc'[c] = "idle" /\ result'[c] = Statement!Told("ok", affected[c], "none")
    BY DEF CommitTransaction, Report, TypeOK, Statement!Told
  <2>2. QED
    BY <2>1, PhaseOf, PhaseAfter
<1>2. /\ Phase' = [Phase EXCEPT ![c] = "idle"]
      /\ Told' = [Told EXCEPT ![c] = Statement!Told("ok", Asked[c], "none")]
      /\ Asked' = Asked
  BY <1>1, ChangedAt, UnchangedAt
<1>3. ASSUME NEW r \in 1..Asked[c] PROVE Statement!Settled(c, r)
  <2>1. r \in Rows /\ r <= cursor[c]
    BY DEF TypeOK, Rows, StatementAssumption
  <2>2. document[c][r] # "untouched" /\ (policy.wait => document[c][r] = "completed")
    BY <2>1 DEF ConnInv, WriteInv
  <2>3. document[c][r] \in {"untouched", "accepted", "completed"}
    BY <2>1 DEF TypeOK
  <2>4. QED
    BY <2>2, <2>3 DEF Statement!Settled
<1>4. Statement!Succeed(c)
  BY <1>1, <1>2, <1>3 DEF Statement!Succeed, remote
<1>5. QED
  BY <1>4 DEF Statement!Next

(* DuckDB rolls a failed statement back.                                   *)
LEMMA RollBackStep ==
  ASSUME StatementAssumption, TypeOK, NEW c \in Conns, ConnInv(c), ReachInv(c), LetThroughInv(c),
         RollbackTransaction(c)
  PROVE  Statement!Next
<1> DEFINE status == result[c].status
           rollback == IF hasWrites[c] THEN "refused" ELSE "silent"
<1>0. ConnStep(c) /\ Statement!Rows = Rows
  BY DEF ConnStep, StatementStep, Statement!Rows, Rows
<1>1. /\ pc[c] = "failed" /\ pc'[c] = "idle"
      /\ UNCHANGED <<policy, stmt, sends, document>>
      /\ result'[c] = Statement!Told(status, 0, rollback)
  BY DEF RollbackTransaction, Report, TypeOK, SupportsTransactionRollback, remote, Statement!Told
<1>2. /\ Phase[c] = "stopped" /\ Phase'[c] = "idle" /\ Asked'[c] = Asked[c]
      /\ Told'[c] = Statement!Told(status, 0, rollback)
  BY <1>1, PhaseOf, PhaseAfter
<1>3. /\ Phase' = [Phase EXCEPT ![c] = "idle"]
      /\ Told' = [Told EXCEPT ![c] = Statement!Told(status, 0, rollback)]
      /\ Asked' = Asked
  BY <1>0, <1>2, ChangedAt, UnchangedAt
<1>4. status \in {"explicit", "unsupported", "write_failed", "source_failed"}
  BY <1>1 DEF LetThroughInv
<1>5. /\ cursor[c] \in Nat /\ doneRows[c] \in Nat /\ chunkEnd[c] \in Nat /\ VectorSize \in Nat
      /\ MaxRows \in Nat /\ cursor[c] <= MaxRows
  BY DEF TypeOK, StatementAssumption
<1>6. status \in {"explicit", "unsupported"} => \A r \in Rows : sends[c][r] = 0
  BY <1>1 DEF LetThroughInv, ReachInv, Rows
<1>7. rollback = "refused" => Statement!Written(c) # {}
  <2> SUFFICES ASSUME hasWrites[c]
               PROVE  Statement!Written(c) # {}
    OBVIOUS
  <2>1. cursor[c] > 0
    BY <1>1 DEF ConnInv, SessionInv
  <2>2. 1 \in Rows /\ 1 <= cursor[c]
    BY <1>5, <2>1 DEF Rows
  <2>3. document[c][1] # "untouched"
    BY <2>2 DEF ConnInv, WriteInv
  <2>4. QED
    BY <1>0, <2>2, <2>3 DEF Statement!Written
<1>8. rollback = "silent" => Statement!Written(c) \subseteq 1..VectorSize
  <2> SUFFICES ASSUME ~hasWrites[c], NEW r \in Rows, document[c][r] # "untouched"
               PROVE  r \in 1..VectorSize
    BY <1>0 DEF Statement!Written
  <2>1. chunkEnd[c] <= VectorSize
    BY <1>1, <1>5 DEF ReachInv
  <2>2. QED
    BY <1>5, <2>1 DEF ReachInv, Rows
<1>9. rollback \in {"silent", "refused"}
  OBVIOUS
<1> HIDE DEF status, rollback
<1>10. Statement!RollBack(c, status, rollback)
  BY <1>0, <1>1, <1>2, <1>3, <1>6, <1>7, <1>8 DEF Statement!RollBack
<1>11. QED
  BY <1>4, <1>9, <1>10 DEF Statement!Next

(* The wait ends: what the document has completed is learned.              *)
LEMMA AwaitStep ==
  ASSUME StatementAssumption, TypeOK, NEW c \in Conns, ConnInv(c), ReachInv(c), AwaitMutation(c)
  PROVE  Statement!Next
<1>1. PICK effect \in Outcome!Effects :
        RecordWrite(c, IF effect = "open" THEN "accepted" ELSE "completed")
  BY DEF AwaitMutation
<1> DEFINE S == IF effect = "open" THEN {} ELSE Batch(c)
<1>2. /\ pc[c] = "waiting" /\ pc'[c] \in {"running", "sending", "failed"}
      /\ UNCHANGED <<policy, stmt, sends>>
      /\ pc'[c] # "failed" => result' = result
  BY DEF AwaitMutation, AdvanceWrite, FinishChunk, Fail, TypeOK
<1>3. \A r \in Batch(c) : document[c][r] = "accepted"
  BY <1>2 DEF ReachInv
<1>4. S \in SUBSET Rows /\ \A r \in S : document[c][r] = "accepted"
  <2>1. Batch(c) \subseteq Rows
    <3>1. BatchEnd(c) \in Rows /\ MaxRows \in Nat
      BY <1>2, BatchBounds DEF ConnInv
    <3>2. cursor[c] \in Nat
      BY DEF TypeOK
    <3>3. QED
      BY <3>1, <3>2 DEF Batch, Rows
  <2>2. QED
    BY <1>3, <2>1
<1>5. document' = [document EXCEPT ![c] =
                     [r \in Rows |-> IF r \in S THEN "completed" ELSE @[r]]]
  <2>1. document[c] = [r \in Rows |-> document[c][r]]
    BY DEF TypeOK
  <2>2. CASE effect = "open"
    <3>1. [r \in Rows |-> IF r \in Batch(c) THEN "accepted" ELSE document[c][r]]
            = [r \in Rows |-> IF r \in S THEN "completed" ELSE document[c][r]]
      BY <1>3, <2>2
    <3>2. QED
      BY <1>1, <2>2, <3>1 DEF RecordWrite
  <2>3. CASE effect # "open"
    BY <1>1, <2>3 DEF RecordWrite
  <2>4. QED
    BY <2>2, <2>3
<1>6. /\ Phase[c] = "writing" /\ Phase'[c] \in {"writing", "stopped"}
      /\ Asked'[c] = Asked[c] /\ Told'[c] = Told[c]
  BY <1>2, PhaseOf, PhaseAfter DEF ConnInv, ResultInv
<1>7. ConnStep(c)
  BY DEF ConnStep, StatementStep
<1> HIDE DEF S
<1>8. QED
  BY <1>2, <1>4, <1>5, <1>6, <1>7, LearnStep

(* Every step of a connection is a step of StatementOutcome, or stutters.  *)
LEMMA StatementStepOutcome ==
  ASSUME StatementAssumption, TypeOK, NEW c \in Conns, ConnInv(c), ReachInv(c), LetThroughInv(c),
         ConnStep(c)
  PROVE  [Statement!Next]_(Statement!vars)
<1>1. CASE ToggleAutocommit(c)
  <2>1. Phase'[c] = Phase[c] /\ Asked'[c] = Asked[c] /\ Told'[c] = Told[c]
    BY <1>1 DEF ToggleAutocommit, Phase, Asked, Told
  <2>2. QED
    BY <1>1, <2>1, Stutters DEF ToggleAutocommit, remote
<1>2. CASE \E s \in Statements[c] : StartStatement(c, s)
  BY <1>2, IssueStep
<1>3. CASE PlanStatement(c)
  <2>1. pc[c] = "planning" /\ UNCHANGED <<policy, stmt, sends, document, cursor, affected>>
    BY <1>3 DEF PlanStatement, operator, remote
  <2>2. CASE Fail(c, "explicit") \/ Fail(c, "unsupported")
    <3>1. pc'[c] = "failed"
      BY <2>2 DEF Fail, TypeOK
    <3>2. QED
      BY <2>1, <3>1, StopStep DEF ConnInv
  <2>3. CASE pc' = [pc EXCEPT ![c] = "running"] /\ result' = result
    <3>1. pc'[c] = "running"
      BY <2>3 DEF TypeOK
    <3>2. Phase'[c] = Phase[c] /\ Asked'[c] = Asked[c] /\ Told'[c] = Told[c]
      BY <2>1, <2>3, <3>1, PhaseOf, PhaseAfter
    <3>3. QED
      BY <2>1, <3>2, Stutters
  <2>4. CASE CommitTransaction(c) /\ stmt[c].mode = "prepare"
    <3>1. Asked[c] = 0
      BY <2>4, PhaseOf
    <3>2. affected[c] = 0 /\ cursor[c] = 0
      <4>1. doneRows[c] \in Nat /\ cursor[c] \in Nat /\ chunkEnd[c] = 0
            /\ doneRows[c] <= cursor[c] /\ cursor[c] <= chunkEnd[c] /\ affected[c] = doneRows[c]
        BY <2>1 DEF ConnInv, PositionInv, TypeOK
      <4>2. QED
        BY <4>1
    <3>3. QED
      BY <2>1, <2>4, <3>1, <3>2, SucceedStep DEF remote
  <2>5. QED
    BY <1>3, <2>2, <2>3, <2>4 DEF PlanStatement
<1>4. CASE SinkChunk(c)
  <2>1. pc[c] = "running" /\ UNCHANGED <<policy, stmt, sends, document>>
    BY <1>4 DEF SinkChunk, remote
  <2>2. CASE Fail(c, "explicit")
    <3>1. pc'[c] = "failed"
      BY <2>2 DEF Fail, TypeOK
    <3>2. QED
      BY <2>1, <3>1, StopStep DEF ConnInv
  <2>3. CASE pc' = [pc EXCEPT ![c] = "sending"] /\ result' = result
    <3>1. pc'[c] = "sending"
      BY <2>3 DEF TypeOK
    <3>2. Phase'[c] = Phase[c] /\ Asked'[c] = Asked[c] /\ Told'[c] = Told[c]
      BY <2>1, <2>3, <3>1, PhaseOf, PhaseAfter
    <3>3. QED
      BY <2>1, <3>2, Stutters
  <2>4. QED
    BY <1>4, <2>2, <2>3 DEF SinkChunk
<1>5. CASE RejectPayload(c) \/ SourceFails(c)
  <2>1. /\ pc[c] \in {"sending", "running"} /\ pc'[c] = "failed"
        /\ UNCHANGED <<policy, stmt, sends, document>>
    BY <1>5 DEF RejectPayload, SourceFails, Fail, TypeOK, remote
  <2>2. QED
    BY <2>1, StopStep DEF ConnInv
<1>6. CASE SendWrite(c) \/ LoseWriteResponse(c)
  BY <1>6, SendStep
<1>7. CASE AwaitMutation(c)
  BY <1>7, AwaitStep
<1>8. CASE FinishStatement(c)
  <2>1. /\ pc[c] = "running" /\ doneRows[c] = stmt[c].rows /\ CommitTransaction(c)
        /\ UNCHANGED <<policy, stmt, remote>>
    BY <1>8 DEF FinishStatement
  <2>2. Asked[c] = stmt[c].rows
    BY <2>1, PhaseOf DEF LetThroughInv
  <2>3. affected[c] = stmt[c].rows /\ cursor[c] = stmt[c].rows
    <3>1. /\ doneRows[c] \in Nat /\ cursor[c] \in Nat /\ chunkEnd[c] \in Nat
          /\ doneRows[c] <= cursor[c] /\ cursor[c] <= chunkEnd[c] /\ doneRows[c] = chunkEnd[c]
          /\ affected[c] = doneRows[c]
      BY <2>1 DEF ConnInv, PositionInv, TypeOK
    <3>2. QED
      BY <2>1, <3>1
  <2>4. QED
    BY <2>1, <2>2, <2>3, SucceedStep
<1>9. CASE RollbackTransaction(c)
  BY <1>9, RollBackStep
<1>10. QED
  BY <1>1, <1>2, <1>3, <1>4, <1>5, <1>6, <1>7, <1>8, <1>9 DEF ConnStep, StatementStep

(* Statements implement the safety part of StatementOutcome, whatever the  *)
(* chunks and requests and whichever of their steps fail.                  *)
THEOREM ImplementsStatementSafety == Spec => Statement!Safety
<1>1. Init => Statement!Init
  <2> SUFFICES ASSUME Init PROVE Statement!Init
    OBVIOUS
  <2>1. policy.wait \in BOOLEAN
    BY DEF Init, Outcome!Policies
  <2>2. /\ Phase = [c \in Conns |-> "idle"]
        /\ Asked = [c \in Conns |-> 0]
        /\ Told = [c \in Conns |-> Statement!Told("none", 0, "none")]
    BY DEF Init, Phase, Asked, Told, NoResult, Statement!Told
  <2>3. Statement!Rows = Rows
    BY DEF Statement!Rows, Rows
  <2>4. QED
    BY <2>1, <2>2, <2>3 DEF Init, Statement!Init
<1>2. TypeOK /\ DmlInv /\ ExtentInv /\ [Next]_vars => [Statement!Next]_(Statement!vars)
  <2> SUFFICES ASSUME TypeOK, DmlInv, ExtentInv, [Next]_vars
               PROVE  [Statement!Next]_(Statement!vars)
    OBVIOUS
  <2>1. CASE UNCHANGED vars
    <3>1. UNCHANGED <<policy, pc, stmt, result, sends, document>>
      BY <2>1 DEF vars, remote
    <3>2. Phase' = Phase /\ Asked' = Asked /\ Told' = Told
      BY <3>1 DEF Phase, Asked, Told
    <3>3. QED
      BY <3>1, <3>2 DEF Statement!vars
  <2>2. CASE Next
    BY <2>2, StatementAssumption, StatementStepOutcome DEF Next, ConnStep, DmlInv, ExtentInv
  <2>3. QED
    BY <2>1, <2>2
<1>3. QED
  BY <1>1, <1>2, InvariantHolds, ExtentHolds, PTL DEF Spec, Statement!Safety
=============================================================================
