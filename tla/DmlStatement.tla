---------------------------- MODULE DmlStatement ----------------------------
(***************************************************************************)
(* INSERT, UPDATE and DELETE on an attached document, from the start of    *)
(* DuckDB's transaction to its commit or rollback: the transaction manager *)
(* and the DML operators of src/src/cpp/storage, and the write loops of    *)
(* src/src/mutation.rs.  A statement hands its rows to Sink in chunks; a   *)
(* chunk is sent as one request (INSERT, DELETE) or as one request per row *)
(* (UPDATE), each followed by the wait of MutationWait, of which only the  *)
(* verdict matters here.                                                   *)
(*                                                                         *)
(* DuckDB itself (autocommit, prepared statements, the operators below the *)
(* sink) is external and modelled from how the extension uses it.          *)
(***************************************************************************)
EXTENDS Integers, FiniteSets

CONSTANTS
  Conns,       \* DuckDB connections
  Statements,  \* the statements each may issue
  MaxRows,     \* bound: rows one statement writes
  VectorSize,  \* STANDARD_VECTOR_SIZE, the most rows in a chunk
  NoPlan       \* no prepared plan

Kinds == {"insert", "update", "delete"}
(* mentions: the query text contains "begin", "commit" or "rollback".      *)
StatementShapes ==
  [mode : {"direct", "prepare", "execute"}, kind : Kinds, returning : BOOLEAN,
   writable : BOOLEAN, mentions : BOOLEAN, rows : 0..MaxRows]

ASSUME StatementAssumption ==
  /\ Statements \in [Conns -> SUBSET StatementShapes]
  /\ MaxRows \in Nat
  /\ VectorSize \in Nat \ {0}
  /\ NoPlan \notin Kinds

VARIABLES
  policy,        \* wait and allowWarnings, fixed by ATTACH
  autocommit,    \* context.transaction.IsAutoCommit()
  plan,          \* per connection, the kind of its prepared plan
  transactions,  \* the transaction manager's map
  hasWrites,     \* has_writes of each connection's transaction
  stmt,          \* the statement in progress, or the last one
  pc,            \* where it is
  doneRows,      \* rows of the chunks that Sink has finished
  chunkEnd,      \* last row of the chunk inside Sink
  cursor,        \* rows whose request and wait have succeeded
  affected,      \* affected_count of the operator's global state
  document,      \* per row, what the document has made of it
  sends,         \* history: requests sent for each row
  result         \* what DuckDB tells the user about the last statement

session == <<autocommit, plan>>
manager == <<transactions, hasWrites>>
operator == <<doneRows, chunkEnd, cursor, affected>>
remote == <<document, sends>>
vars == <<policy, session, manager, stmt, pc, operator, remote, result>>

Outcome == INSTANCE MutationOutcome WITH
  policy <- policy, effect <- "open", verdict <- "none"

Rows == 1..MaxRows
Statuses == {"none", "ok", "explicit", "unsupported", "write_failed", "source_failed"}
NoResult == [status |-> "none", count |-> 0, rollback |-> "none"]

TypeOK ==
  /\ policy \in Outcome!Policies
  /\ autocommit \in [Conns -> BOOLEAN]
  /\ plan \in [Conns -> Kinds \cup {NoPlan}]
  /\ transactions \subseteq Conns
  /\ hasWrites \in [Conns -> BOOLEAN]
  /\ stmt \in [Conns -> StatementShapes]
  /\ pc \in [Conns -> {"idle", "planning", "running", "sending", "waiting", "failed"}]
  /\ doneRows \in [Conns -> 0..MaxRows]
  /\ chunkEnd \in [Conns -> 0..MaxRows]
  /\ cursor \in [Conns -> 0..MaxRows]
  /\ affected \in [Conns -> 0..MaxRows]
  /\ document \in [Conns -> [Rows -> {"untouched", "accepted", "completed"}]]
  /\ sends \in [Conns -> [Rows -> Nat]]
  /\ result \in [Conns -> [status : Statuses, count : 0..MaxRows,
                           rollback : {"none", "silent", "refused"}]]

Init ==
  /\ policy \in Outcome!Policies
  /\ autocommit = [c \in Conns |-> TRUE]
  /\ plan = [c \in Conns |-> NoPlan]
  /\ transactions = {}
  /\ hasWrites = [c \in Conns |-> FALSE]
  /\ stmt \in [Conns -> {[mode |-> "direct", kind |-> "insert", returning |-> FALSE,
                          writable |-> TRUE, mentions |-> FALSE, rows |-> 0]}]
  /\ pc = [c \in Conns |-> "idle"]
  /\ doneRows = [c \in Conns |-> 0]
  /\ chunkEnd = [c \in Conns |-> 0]
  /\ cursor = [c \in Conns |-> 0]
  /\ affected = [c \in Conns |-> 0]
  /\ document = [c \in Conns |-> [r \in Rows |-> "untouched"]]
  /\ sends = [c \in Conns |-> [r \in Rows |-> 0]]
  /\ result = [c \in Conns |-> NoResult]
-----------------------------------------------------------------------------
(* Transactions.                                                           *)

(* Mutant: the backend claims transactions it does not have.               *)
ClaimsExplicitTransactions == TRUE
SupportsExplicitTransactions == FALSE

SupportsTransactionRollback == FALSE

(* RustBridgeRejectExplicitTransaction looks at the flag and at the text.  *)
RejectsExplicitTransaction(c) ==
  /\ ~SupportsExplicitTransactions
  /\ ~autocommit[c] \/ stmt[c].mentions

Report(c, status, count, rollback) ==
  result' = [result EXCEPT ![c] = [status |-> status, count |-> count, rollback |-> rollback]]

(* The user switches between autocommit and BEGIN ... COMMIT.              *)
ToggleAutocommit(c) ==
  /\ pc[c] = "idle"
  /\ autocommit' = [autocommit EXCEPT ![c] = ~@]
  /\ UNCHANGED <<policy, plan, manager, stmt, pc, operator, remote, result>>

(* Binding a statement opens a transaction on the attached database.       *)
StartStatement(c, s) ==
  /\ pc[c] = "idle"
  /\ s.mode = "execute" => plan[c] = s.kind
  /\ stmt' = [stmt EXCEPT ![c] = s]
  /\ doneRows' = [doneRows EXCEPT ![c] = 0]
  /\ chunkEnd' = [chunkEnd EXCEPT ![c] = 0]
  /\ cursor' = [cursor EXCEPT ![c] = 0]
  /\ affected' = [affected EXCEPT ![c] = 0]
  /\ document' = [document EXCEPT ![c] = [r \in Rows |-> "untouched"]]
  /\ sends' = [sends EXCEPT ![c] = [r \in Rows |-> 0]]
  /\ \/ /\ ~SupportsExplicitTransactions
        /\ ~autocommit[c]
        /\ Report(c, "explicit", 0, "none")
        /\ UNCHANGED <<manager, pc>>
     \/ /\ SupportsExplicitTransactions \/ autocommit[c]
        /\ transactions' = transactions \cup {c}
        /\ hasWrites' = [hasWrites EXCEPT ![c] = FALSE]
        /\ pc' = [pc EXCEPT ![c] = IF s.mode = "execute" THEN "running" ELSE "planning"]
        /\ result' = [result EXCEPT ![c] = NoResult]
  /\ UNCHANGED <<policy, session>>

(* An error ends the statement; DuckDB rolls its transaction back next.    *)
Fail(c, status) ==
  /\ pc' = [pc EXCEPT ![c] = "failed"]
  /\ Report(c, status, 0, "none")

CommitTransaction(c) ==
  /\ transactions' = transactions \ {c}
  /\ pc' = [pc EXCEPT ![c] = "idle"]
  /\ Report(c, "ok", affected[c], "none")

(* PlanInsert, PlanUpdate, PlanDelete.                                     *)
PlanStatement(c) ==
  /\ pc[c] = "planning"
  /\ \/ /\ RejectsExplicitTransaction(c)
        /\ Fail(c, "explicit")
        /\ UNCHANGED <<plan, manager>>
     \/ /\ ~RejectsExplicitTransaction(c)
        /\ stmt[c].returning \/ ~stmt[c].writable
        /\ Fail(c, "unsupported")
        /\ UNCHANGED <<plan, manager>>
     \/ /\ ~RejectsExplicitTransaction(c)
        /\ ~stmt[c].returning /\ stmt[c].writable
        /\ stmt[c].mode = "direct"
        /\ pc' = [pc EXCEPT ![c] = "running"]
        /\ UNCHANGED <<plan, manager, result>>
     \/ /\ ~RejectsExplicitTransaction(c)
        /\ ~stmt[c].returning /\ stmt[c].writable
        /\ stmt[c].mode = "prepare"
        /\ plan' = [plan EXCEPT ![c] = stmt[c].kind]
        /\ CommitTransaction(c)
        /\ UNCHANGED hasWrites
  /\ UNCHANGED <<policy, autocommit, stmt, operator, remote>>

(* Mutant: the error path of RollbackTransaction forgets its erase.        *)
RollbackLeaking(c) ==
  /\ pc[c] = "failed"
  /\ pc' = [pc EXCEPT ![c] = "idle"]
  /\ LET refused == hasWrites[c] /\ ~SupportsTransactionRollback IN
     /\ transactions' = IF refused THEN transactions ELSE transactions \ {c}
     /\ Report(c, result[c].status, 0, IF refused THEN "refused" ELSE "silent")
  /\ UNCHANGED <<policy, session, hasWrites, stmt, operator, remote>>

(* RollbackTransaction: the transaction leaves the map on both paths.      *)
RollbackTransaction(c) ==
  /\ pc[c] = "failed"
  /\ pc' = [pc EXCEPT ![c] = "idle"]
  /\ transactions' = transactions \ {c}
  /\ Report(c, result[c].status, 0,
            IF hasWrites[c] /\ ~SupportsTransactionRollback THEN "refused" ELSE "silent")
  /\ UNCHANGED <<policy, session, hasWrites, stmt, operator, remote>>
-----------------------------------------------------------------------------
(* The operator: Sink and the write loops.                                 *)

(* The rows that travel in the next request.                               *)
BatchEnd(c) == IF stmt[c].kind = "update" THEN cursor[c] + 1 ELSE chunkEnd[c]
Batch(c) == cursor[c] + 1 .. BatchEnd(c)

(* Mutant: the transaction is marked before the remote call is made.       *)
SinkChunkMarking(c) ==
  /\ pc[c] = "running"
  /\ \E n \in 1..VectorSize :
       /\ doneRows[c] + n <= stmt[c].rows
       /\ pc' = [pc EXCEPT ![c] = "sending"]
       /\ chunkEnd' = [chunkEnd EXCEPT ![c] = doneRows[c] + n]
       /\ hasWrites' = [hasWrites EXCEPT ![c] = TRUE]
  /\ UNCHANGED <<policy, session, transactions, stmt, doneRows, cursor, affected, remote, result>>

(* Sink is given the next rows of its child, VectorSize at most; an empty  *)
(* chunk changes nothing.  The table's capability was settled by planning. *)
SinkChunk(c) ==
  /\ pc[c] = "running"
  /\ \E n \in 1..VectorSize :
       /\ doneRows[c] + n <= stmt[c].rows
       /\ \/ /\ RejectsExplicitTransaction(c)
             /\ Fail(c, "explicit")
             /\ UNCHANGED chunkEnd
          \/ /\ ~RejectsExplicitTransaction(c)
             /\ pc' = [pc EXCEPT ![c] = "sending"]
             /\ chunkEnd' = [chunkEnd EXCEPT ![c] = doneRows[c] + n]
             /\ UNCHANGED result
  /\ UNCHANGED <<policy, session, manager, stmt, doneRows, cursor, affected, remote>>

RecordWrite(c, state) ==
  document' = [document EXCEPT ![c] =
                 [r \in Rows |-> IF r \in Batch(c) THEN state ELSE @[r]]]

RecordSend(c) ==
  sends' = [sends EXCEPT ![c] = [r \in Rows |-> IF r \in Batch(c) THEN @[r] + 1 ELSE @[r]]]

(* Mutant: a row that cannot be sent is skipped.                           *)
SkipInvalidPayload(c) ==
  /\ pc[c] = "sending"
  /\ stmt[c].kind = "update"
  /\ cursor[c] + 1 < chunkEnd[c]
  /\ cursor' = [cursor EXCEPT ![c] = @ + 1]
  /\ UNCHANGED <<policy, session, manager, stmt, pc, doneRows, chunkEnd, affected, remote, result>>

(* insert_payload covers the whole chunk, update_payload one row, after    *)
(* the rows before it were written; a delete has no payload.               *)
RejectPayload(c) ==
  /\ pc[c] = "sending"
  /\ stmt[c].kind # "delete"
  /\ Fail(c, "write_failed")
  /\ UNCHANGED <<policy, session, manager, stmt, operator, remote>>

(* The API accepts the write, or turns it down.                            *)
SendWrite(c) ==
  /\ pc[c] = "sending"
  /\ RecordSend(c)
  /\ \/ /\ RecordWrite(c, "accepted")
        /\ pc' = [pc EXCEPT ![c] = "waiting"]
        /\ UNCHANGED result
     \/ /\ Fail(c, "write_failed")
        /\ UNCHANGED document
  /\ UNCHANGED <<policy, session, manager, stmt, operator>>

(* The API accepts the write and its answer is lost.                       *)
LoseWriteResponse(c) ==
  /\ pc[c] = "sending"
  /\ RecordSend(c)
  /\ RecordWrite(c, "accepted")
  /\ Fail(c, "write_failed")
  /\ UNCHANGED <<policy, session, manager, stmt, operator>>

(* Mutant: the running total is added instead of the chunk's count.        *)
FinishChunkTotal(c) ==
  /\ pc' = [pc EXCEPT ![c] = "running"]
  /\ doneRows' = [doneRows EXCEPT ![c] = chunkEnd[c]]
  /\ hasWrites' = [hasWrites EXCEPT ![c] = TRUE]
  /\ affected' = [affected EXCEPT ![c] = @ + chunkEnd[c]]

(* Mutant: the transaction is not marked after a chunk.                    *)
FinishChunkUnmarked(c) ==
  /\ pc' = [pc EXCEPT ![c] = "running"]
  /\ doneRows' = [doneRows EXCEPT ![c] = chunkEnd[c]]
  /\ hasWrites' = hasWrites
  /\ affected' = [affected EXCEPT ![c] = @ + (chunkEnd[c] - doneRows[c])]

(* The chunk is done: MarkRemoteWrite and AddAffected.                     *)
FinishChunk(c) ==
  /\ pc' = [pc EXCEPT ![c] = "running"]
  /\ doneRows' = [doneRows EXCEPT ![c] = chunkEnd[c]]
  /\ hasWrites' = [hasWrites EXCEPT ![c] = TRUE]
  /\ affected' = [affected EXCEPT ![c] = @ + (chunkEnd[c] - doneRows[c])]

AdvanceWrite(c) ==
  /\ cursor' = [cursor EXCEPT ![c] = BatchEnd(c)]
  /\ \/ BatchEnd(c) = chunkEnd[c] /\ FinishChunk(c)
     \/ /\ BatchEnd(c) # chunkEnd[c]
        /\ pc' = [pc EXCEPT ![c] = "sending"]
        /\ UNCHANGED <<doneRows, hasWrites, affected>>

(* Mutant: an unknown outcome is retried.                                  *)
AwaitRetrying(c) ==
  /\ pc[c] = "waiting"
  /\ pc' = [pc EXCEPT ![c] = "sending"]
  /\ sends[c][BatchEnd(c)] < 2
  /\ UNCHANGED <<policy, session, manager, stmt, operator, remote, result>>

(* Mutant: only a warning stops the statement.                             *)
AwaitIgnoringUnknown(c) ==
  /\ pc[c] = "waiting"
  /\ AdvanceWrite(c)
  /\ UNCHANGED <<policy, session, transactions, stmt, chunkEnd, remote, result>>

(* wait_for_mutation returns; the document has got as far as effect.       *)
AwaitMutation(c) ==
  /\ pc[c] = "waiting"
  /\ \E effect \in Outcome!Effects, verdict \in Outcome!Verdicts :
       /\ Outcome!Supports(policy, effect, verdict)
       /\ RecordWrite(c, IF effect = "open" THEN "accepted" ELSE "completed")
       /\ \/ /\ verdict = "ok"
             /\ AdvanceWrite(c)
             /\ UNCHANGED result
          \/ /\ verdict # "ok"
             /\ Fail(c, "write_failed")
             /\ UNCHANGED <<cursor, doneRows, hasWrites, affected>>
  /\ UNCHANGED <<policy, session, transactions, stmt, chunkEnd, sends>>

(* The child operator throws, or the user interrupts the query.            *)
SourceFails(c) ==
  /\ pc[c] = "running"
  /\ Fail(c, "source_failed")
  /\ UNCHANGED <<policy, session, manager, stmt, operator, remote>>

(* The child is exhausted: GetData reports the count and DuckDB commits.   *)
FinishStatement(c) ==
  /\ pc[c] = "running"
  /\ doneRows[c] = stmt[c].rows
  /\ CommitTransaction(c)
  /\ UNCHANGED <<policy, session, hasWrites, stmt, operator, remote>>

StatementStep(c) ==
  \/ PlanStatement(c)
  \/ SinkChunk(c) \/ RejectPayload(c) \/ SendWrite(c) \/ LoseWriteResponse(c)
  \/ AwaitMutation(c) \/ SourceFails(c)
  \/ FinishStatement(c) \/ RollbackTransaction(c)

Next == \E c \in Conns :
  \/ ToggleAutocommit(c)
  \/ \E s \in Statements[c] : StartStatement(c, s)
  \/ StatementStep(c)

(* DuckDB runs a statement it has started to its end.                      *)
Spec == Init /\ [][Next]_vars /\ \A c \in Conns : WF_vars(StatementStep(c))
-----------------------------------------------------------------------------
(* A statement that succeeds reports exactly the rows it was given, every  *)
(* one of them accepted by the API, and completed by the document if the   *)
(* attachment waits for mutations.                                         *)
CountIsTruthful == \A c \in Conns :
  result[c].status = "ok" /\ stmt[c].mode # "prepare" =>
    /\ result[c].count = stmt[c].rows
    /\ \A r \in 1..stmt[c].rows :
         document[c][r] \in (IF policy.wait THEN {"completed"} ELSE {"accepted", "completed"})

(* Rows are written in order: all rows up to the cursor are, none beyond   *)
(* the request in progress is, whatever failed and when.                   *)
WritesInOrder == \A c \in Conns, r \in Rows :
  /\ r <= cursor[c] => document[c][r] # "untouched"
  /\ document[c][r] # "untouched" => r <= cursor[c] \/ r \in Batch(c)

(* No row of its input is ever sent twice by one statement: writes are not *)
(* idempotent and nothing is retried.  Rows are counted by their place in  *)
(* the input; a row of the table that the source of an UPDATE produces     *)
(* twice is two of them (UpdateScan).                                      *)
AtMostOnce == \A c \in Conns, r \in Rows : sends[c][r] <= 1

(* The transaction map holds exactly the statements that are under way,    *)
(* whichever way they end.                                                 *)
TransactionsBracketStatements == \A c \in Conns :
  c \in transactions <=> pc[c] # "idle"

(* "Writes cannot be rolled back after they are sent" is only ever said of *)
(* a statement that did write.                                             *)
RollbackRefusalIsTrue == \A c \in Conns :
  result[c].rollback = "refused" => \E r \in Rows : document[c][r] # "untouched"

(* Nothing is sent to the document from inside an explicit transaction,    *)
(* not even by a plan prepared before it.                                  *)
NoWriteInExplicitTransaction ==
  [][\A c \in Conns : sends'[c] # sends[c] /\ pc[c] # "idle" => autocommit[c]]_sends

(* README.md: "Use autocommit statements": no autocommit statement is      *)
(* turned away as an explicit transaction.                                 *)
AutocommitStatementsAccepted ==
  [][\A c \in Conns :
       result'[c] # result[c] /\ result'[c].status = "explicit" => ~autocommit[c]]_result

(* "Writes cannot be rolled back after they are sent": a rollback that     *)
(* raises no error is one of a statement that sent nothing.                *)
SilentRollbackMeansNothingWritten == \A c \in Conns :
  result[c].rollback = "silent" => \A r \in Rows : document[c][r] = "untouched"
-----------------------------------------------------------------------------
(* Statements implement StatementOutcome.                                  *)

Phase == [c \in Conns |-> CASE pc[c] = "idle" -> "idle"
                            [] pc[c] = "failed" -> "stopped"
                            [] OTHER -> "writing"]

(* To prepare a statement writes nothing.                                  *)
Asked == [c \in Conns |-> IF stmt[c].mode = "prepare" THEN 0 ELSE stmt[c].rows]

(* The user is told of a failure once the transaction is rolled back.      *)
Told == [c \in Conns |-> IF pc[c] = "failed" THEN NoResult ELSE result[c]]

Statement == INSTANCE StatementOutcome WITH
  wait <- policy.wait, phase <- Phase, asked <- Asked, told <- Told

(* However a statement is cut into chunks and requests, and whichever of   *)
(* its steps fail, rows are sent in order, each behind rows that are       *)
(* settled, and never after a failure; a success is one of all rows, a     *)
(* refusal to plan one of none, a silent rollback one of a single vector;  *)
(* and a statement always ends.                                            *)
ImplementsStatement == Statement!Spec
=============================================================================
