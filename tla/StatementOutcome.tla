-------------------------- MODULE StatementOutcome --------------------------
(***************************************************************************)
(* What the user of a writing statement may rely on, although writes       *)
(* cannot be undone and any step may fail: rows are sent in order, once,   *)
(* and only behind rows whose write is known to have succeeded; after a    *)
(* failure nothing more is sent; success means all rows, and a rollback    *)
(* without an error means one vector of rows at most was written.  How     *)
(* statements are planned and rows are cut into chunks and requests is     *)
(* nobody's concern here.  DmlStatement is shown to implement this         *)
(* specification.                                                          *)
(***************************************************************************)
EXTENDS Integers

CONSTANTS
  Conns,      \* DuckDB connections
  MaxRows,    \* bound: rows one statement writes
  VectorSize  \* the most rows that travel together

VARIABLES
  wait,      \* the attachment waits until writes are completed
  phase,     \* per connection, "idle", "writing" or, after a failure, "stopped"
  asked,     \* the number of rows its statement has to write
  sends,     \* per row, how often it was sent
  document,  \* per row, what the document has made of it
  told       \* what the user was told of the last statement

vars == <<wait, phase, asked, sends, document, told>>

Rows == 1..MaxRows
Told(status, count, rollback) == [status |-> status, count |-> count, rollback |-> rollback]

(* The row is as safely written as the attachment asks for.                *)
Settled(c, r) == document[c][r] \in IF wait THEN {"completed"} ELSE {"accepted", "completed"}

Init ==
  /\ wait \in BOOLEAN
  /\ phase = [c \in Conns |-> "idle"]
  /\ asked = [c \in Conns |-> 0]
  /\ sends = [c \in Conns |-> [r \in Rows |-> 0]]
  /\ document = [c \in Conns |-> [r \in Rows |-> "untouched"]]
  /\ told = [c \in Conns |-> Told("none", 0, "none")]

(* A statement is issued and starts, or is turned away at once.            *)
Issue(c, rows) ==
  /\ phase[c] = "idle"
  /\ asked' = [asked EXCEPT ![c] = rows]
  /\ sends' = [sends EXCEPT ![c] = [r \in Rows |-> 0]]
  /\ document' = [document EXCEPT ![c] = [r \in Rows |-> "untouched"]]
  /\ \/ phase' = [phase EXCEPT ![c] = "writing"] /\ told' = [told EXCEPT ![c] = Told("none", 0, "none")]
     \/ phase' = phase /\ told' = [told EXCEPT ![c] = Told("explicit", 0, "none")]
  /\ UNCHANGED wait

(* The next rows are sent.  Unless they are accepted, and the answer comes *)
(* back, the statement stops.                                              *)
Send(c, S) ==
  /\ phase[c] = "writing"
  /\ S # {} /\ S \subseteq 1..asked[c]
  /\ \A r, s \in S : s - r < VectorSize
  /\ \A s \in S : sends[c][s] = 0
  /\ \A s \in S : \A r \in 1..(s - 1) : r \in S \/ Settled(c, r)
  /\ sends' = [sends EXCEPT ![c] = [r \in Rows |-> IF r \in S THEN @[r] + 1 ELSE @[r]]]
  /\ \/ /\ document' = [document EXCEPT ![c] =
                          [r \in Rows |-> IF r \in S THEN "accepted" ELSE @[r]]]
        /\ phase' \in {phase, [phase EXCEPT ![c] = "stopped"]}
     \/ /\ document' = document
        /\ phase' = [phase EXCEPT ![c] = "stopped"]
  /\ UNCHANGED <<wait, asked, told>>

(* Accepted rows are completed, and the statement stops or goes on.        *)
Learn(c, S) ==
  /\ phase[c] = "writing"
  /\ \A r \in S : document[c][r] = "accepted"
  /\ document' = [document EXCEPT ![c] =
                    [r \in Rows |-> IF r \in S THEN "completed" ELSE @[r]]]
  /\ phase' \in {phase, [phase EXCEPT ![c] = "stopped"]}
  /\ UNCHANGED <<wait, asked, sends, told>>

Succeed(c) ==
  /\ phase[c] = "writing"
  /\ \A r \in 1..asked[c] : Settled(c, r)
  /\ phase' = [phase EXCEPT ![c] = "idle"]
  /\ told' = [told EXCEPT ![c] = Told("ok", asked[c], "none")]
  /\ UNCHANGED <<wait, asked, sends, document>>

(* Rows the document may have, as far as is known.                         *)
Written(c) == {r \in Rows : document[c][r] # "untouched"}

(* A statement that was refused has sent nothing; a rollback is refused    *)
(* because of what was written, or else little was.                        *)
RollBack(c, status, rollback) ==
  /\ phase[c] = "stopped"
  /\ status \in {"explicit", "unsupported"} => \A r \in Rows : sends[c][r] = 0
  /\ rollback = "refused" => Written(c) # {}
  /\ rollback = "silent" => Written(c) \subseteq 1..VectorSize
  /\ phase' = [phase EXCEPT ![c] = "idle"]
  /\ told' = [told EXCEPT ![c] = Told(status, 0, rollback)]
  /\ UNCHANGED <<wait, asked, sends, document>>

Next == \E c \in Conns :
  \/ \E rows \in 0..MaxRows : Issue(c, rows)
  \/ \E S \in SUBSET Rows : Send(c, S) \/ Learn(c, S)
  \/ Succeed(c)
  \/ \E status \in {"explicit", "unsupported", "write_failed", "source_failed"},
        rollback \in {"silent", "refused"} : RollBack(c, status, rollback)

(* Safety and, separately, the promise that every statement ends.          *)
Safety == Init /\ [][Next]_vars
Spec == Safety /\ \A c \in Conns : (phase[c] # "idle") ~> (phase[c] = "idle")
=============================================================================
