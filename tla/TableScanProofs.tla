-------------------------- MODULE TableScanProofs --------------------------
(***************************************************************************)
(* Proofs about TableScan, and about UpdateScan, which is one.  The        *)
(* invariant of a scan speaks of the versions of a row that the scan       *)
(* holds, in DuckDB's hands or in the batch, so that handing a row over    *)
(* changes nothing; the listing has two passes, before and after tokenAt,  *)
(* and in each the position of the page token separates the rows that have *)
(* been read from those that have not.  A scan keeps this invariant        *)
(* although the statement edits what it scans, and every row DuckDB was    *)
(* given is in the vector or has been written.                             *)
(***************************************************************************)
EXTENDS UpdateScan, FiniteSetTheorems, TLAPS

(***************************************************************************)
(* TableScan.                                                              *)
(***************************************************************************)

Held(r, v) ==
  \/ \E i \in DOMAIN seen[r] : seen[r][i] = v
  \/ [row |-> r, version |-> v] \in batch

(* The pass that is under way has come as far as row r.                    *)
Passed(r) == pageToken = NoToken \/ r <= pageToken.after

Document == \A r \in Rows :
  /\ changedAt[r] <= clock
  /\ removedAt[r] # Never => r \notin alive
  /\ r \in InitialRows /\ removedAt[r] = Never => r \in alive

(* The tokens tell the passes apart; a failed scan does not ask again.     *)
Tokens == pc # "failed" =>
  /\ tokenAt = Never =>
       /\ syncToken = NoToken /\ ~syncCheckDone /\ ~rustFinished
       /\ pageToken # NoToken => pageToken.since = Never
  /\ tokenAt # Never =>
       /\ pageToken # NoToken => pageToken.since = tokenAt /\ syncCheckDone
       /\ pageToken = NoToken /\ issues => syncToken # NoToken
       /\ syncToken # NoToken => syncCheckDone \/ syncToken = tokenAt
       /\ syncCheckDone => syncAt # Never
       /\ rustFinished <=> pageToken = NoToken /\ (syncToken = NoToken \/ syncCheckDone)

Control ==
  /\ rustFinished => finished
  /\ finished => rustFinished \/ (limit > 0 /\ remaining = 0)
  /\ pc \in {"fetching", "ended"} => batch = {}
  /\ pc = "fetching" => ~finished
  /\ pc = "ended" => finished
  /\ tokenAt <= clock
  /\ syncAt <= clock

Versioned == \A r \in Rows, v \in Times : Held(r, v) =>
  /\ v <= changedAt[r]
  /\ removedAt[r] # Never => v < removedAt[r]

Ordered == \A r \in Rows :
  /\ \A i, j \in DOMAIN seen[r] : i < j => seen[r][i] < seen[r][j]
  /\ \A entry \in batch : entry.row = r =>
       /\ \A i \in DOMAIN seen[r] : seen[r][i] < entry.version
       /\ \A other \in batch : other.row = r => other = entry

(* A pass holds no row it has not come to, and each row once.              *)
OncePerPass == \A r \in Rows, v \in Times : Held(r, v) =>
  /\ tokenAt = Never => pageToken # NoToken /\ r <= pageToken.after
  /\ tokenAt # Never /\ v > tokenAt => syncCheckDone /\ Passed(r)
  /\ \A w \in Times : Held(r, w) /\ (v > tokenAt <=> w > tokenAt) => v = w

(* The first pass has read every row it has passed.                        *)
FirstPass == \A r \in InitialRows :
  /\ removedAt[r] = Never
  /\ tokenAt # Never \/ (pageToken # NoToken /\ r <= pageToken.after)
  => \E v \in Times : Held(r, v)

(* The second pass has read every changed row it has passed.               *)
SecondPass == pc # "failed" /\ tokenAt # Never /\ syncCheckDone =>
  \A r \in alive :
    tokenAt < changedAt[r] /\ changedAt[r] <= syncAt /\ Passed(r) => Held(r, changedAt[r])

Limited ==
  /\ IsFiniteSet(batch)
  /\ limit > 0 =>
       /\ Cardinality(batch) <= RequestLimit
       /\ remaining > 0 => emitted + remaining = limit
       /\ remaining = 0 => finished /\ emitted + Cardinality(batch) < limit + RequestLimit

ScanInv ==
  /\ TypeOK /\ Document /\ Tokens /\ Control /\ Versioned /\ Ordered /\ OncePerPass
  /\ FirstPass /\ SecondPass /\ Limited
-----------------------------------------------------------------------------
LEMMA ConstantFacts ==
  /\ Rows \subseteq Nat \ {0} /\ IsFiniteSet(Rows)
  /\ InitialRows \subseteq Rows
  /\ MaxEdits \in Nat /\ PushedLimits \subseteq Nat
  /\ PageSize \in Nat \ {0} /\ VectorSize \in Nat \ {0}
  /\ NoToken \notin Int /\ NoToken \notin PageTokens
<1>1. PageTokens \subseteq [after : Rows, since : Int]
  BY DEF PageTokens, Times, Never, ScanAssumption
<1> QED  BY <1>1, ScanAssumption DEF ScanAssumption

LEMMA InitType == Init => TypeOK
<1> USE DEF Times, Never, Entries
<1> SUFFICES ASSUME Init PROVE TypeOK  OBVIOUS
<1>1. seen \in [Rows -> Seq(Times)]
  <2>1. <<>> \in Seq(Times)  OBVIOUS
  <2> QED  BY <2>1 DEF Init
<1>2. remaining \in 0..limit /\ limit \in PushedLimits
  BY ConstantFacts DEF Init
<1>3. changedAt \in [Rows -> Times] /\ removedAt \in [Rows -> Times \cup {Never}]
  BY ConstantFacts DEF Init
<1>4. clock \in Times /\ tokenAt \in Times \cup {Never} /\ syncAt \in Times \cup {Never}
  BY ConstantFacts DEF Init
<1>5. out \in 0..VectorSize /\ emitted \in Nat /\ batch \subseteq Entries /\ alive \subseteq Rows
  BY ConstantFacts DEF Init
<1> QED  BY <1>1, <1>2, <1>3, <1>4, <1>5 DEF Init, TypeOK

LEMMA TouchType ==
  ASSUME TypeOK, NEW r \in Rows, Touch(r), alive' \subseteq Rows,
         removedAt' \in [Rows -> Times \cup {Never}]
  PROVE  TypeOK'
<1>1. clock' \in Times /\ changedAt' \in [Rows -> Times]
  BY ConstantFacts DEF Touch, TypeOK, Times
<1> QED  BY <1>1 DEF Touch, TypeOK, handle, cursor, history

LEMMA EmitRowType ==
  ASSUME TypeOK, NEW entry \in batch, EmitRow(entry)
  PROVE  TypeOK'
<1> USE DEF EmitRow
<1>1. entry.row \in Rows /\ entry.version \in Times
  BY DEF TypeOK, Entries
<1>2. seen' \in [Rows -> Seq(Times)]
  <2>1. Append(seen[entry.row], entry.version) \in Seq(Times)
    BY <1>1 DEF TypeOK
  <2> QED  BY <2>1, <1>1 DEF TypeOK
<1>3. remaining' \in 0..limit
  BY ConstantFacts DEF RowsLeft, TypeOK
<1>4. out' \in 0..VectorSize /\ emitted' \in Nat
  BY ConstantFacts DEF TypeOK
<1>5. pc' \in {"filling", "idle", "ended"}
  BY DEF ReturnChunk
<1>6. finished' \in BOOLEAN
  BY DEF FinishedAtLimit, TypeOK
<1> QED  BY <1>2, <1>3, <1>4, <1>5, <1>6 DEF TypeOK, server, handle

LEMMA ListRowsType ==
  ASSUME TypeOK, ListRows
  PROVE  TypeOK'
<1>1. batch' \subseteq Entries
  BY DEF ListRows, VisibleRows, Matching, Entries, TypeOK
<1>2. pageToken' \in PageTokens \cup {NoToken}
  <2>1. Since(pageToken, RequestSyncToken) \in Times \cup {Never}
    BY DEF Since, RequestSyncToken, SendsSyncToken, TypeOK, PageTokens
  <2>2. Matching(pageToken, RequestSyncToken) \subseteq Rows
    BY DEF Matching
  <2> QED  BY <2>1, <2>2 DEF ListRows, PageTokens
<1>3. /\ syncToken' \in Times \cup {NoToken}
      /\ tokenAt' \in Times \cup {Never} /\ syncAt' \in Times \cup {Never}
  BY DEF ListRows, TypeOK
<1>4. syncCheckDone' \in BOOLEAN
  BY DEF ListRows, SyncCheckRecorded, SendsSyncToken, TypeOK
<1>5. rustFinished' \in BOOLEAN
  BY DEF ListRows, FinishedAfter
<1>6. finished' \in BOOLEAN /\ pc' \in {"filling", "fetching"}
  BY <1>5 DEF ListRows
<1>7. UNCHANGED <<server, remaining, out, limit, seen, emitted>>
  BY DEF ListRows
<1> QED  BY <1>1, <1>2, <1>3, <1>4, <1>5, <1>6, <1>7 DEF TypeOK, server

LEMMA TypeStep == TypeOK /\ [Next]_vars => TypeOK'
<1> SUFFICES ASSUME TypeOK, [Next]_vars PROVE TypeOK'  OBVIOUS
<1>1. CASE CallScan
  BY <1>1, ConstantFacts DEF CallScan, TypeOK, server, handle, history
<1>2. CASE NextBatch
  BY <1>2 DEF NextBatch, ReturnChunk, TypeOK, server, handle, history
<1>3. CASE ListRows
  BY <1>3, ListRowsType
<1>4. ASSUME NEW entry \in batch, EmitRow(entry) PROVE TypeOK'
  BY <1>4, EmitRowType
<1>5. CASE ListRowsFails
  <2>1. syncCheckDone' \in BOOLEAN
    BY <1>5 DEF ListRowsFails, SyncCheckRecorded, SendsSyncToken, TypeOK
  <2> QED  BY <1>5, <2>1 DEF ListRowsFails, TypeOK, server, history
<1>6. CASE CloseScan
  BY <1>6 DEF CloseScan, TypeOK, server, handle, history
<1>7. ASSUME NEW r \in Rows, EditRow(r) PROVE TypeOK'
  <2>1. Touch(r) /\ alive' \subseteq Rows /\ removedAt' \in [Rows -> Times \cup {Never}]
    BY <1>7 DEF EditRow, TypeOK
  <2> QED  BY <2>1, TouchType
<1>8. ASSUME NEW r \in Rows, DeleteRow(r) PROVE TypeOK'
  <2>1. Touch(r) /\ alive' \subseteq Rows
    BY <1>8 DEF DeleteRow, TypeOK
  <2>2. removedAt' \in [Rows -> Times \cup {Never}]
    BY <1>8, ConstantFacts DEF DeleteRow, Touch, TypeOK, Times
  <2> QED  BY <2>1, <2>2, TouchType
<1>9. CASE UNCHANGED vars
  BY <1>9 DEF vars, server, handle, cursor, history, TypeOK
<1> QED  BY <1>1, <1>2, <1>3, <1>4, <1>5, <1>6, <1>7, <1>8, <1>9 DEF Next, ScanStep

(* Every variable of the scan keeps its type, whatever the page and vector *)
(* sizes: in particular the count of a pushed LIMIT never wraps below zero *)
(* and no vector is filled beyond its end.                                 *)
THEOREM TypesKept == Spec => []TypeOK
<1>1. Init => TypeOK  BY InitType
<1>2. TypeOK /\ [Next]_vars => TypeOK'  BY TypeStep
<1> QED  BY <1>1, <1>2, PTL DEF Spec
-----------------------------------------------------------------------------
(* What is held changes with the listing only.                             *)

LEMMA HeldIsVersion ==
  ASSUME TypeOK, NEW r \in Rows, NEW i \in DOMAIN seen[r]
  PROVE  seen[r][i] \in Times /\ Held(r, seen[r][i])
BY DEF TypeOK, Held

LEMMA HeldStays ==
  ASSUME UNCHANGED <<seen, batch>>, NEW r, NEW v
  PROVE  Held(r, v)' <=> Held(r, v)
BY DEF Held

LEMMA EmitRowSeen ==
  ASSUME TypeOK, NEW entry \in batch, EmitRow(entry), NEW r \in Rows
  PROVE  /\ r # entry.row => seen'[r] = seen[r]
         /\ r = entry.row =>
              /\ DOMAIN seen'[r] = 1..(Len(seen[r]) + 1)
              /\ DOMAIN seen[r] = 1..Len(seen[r])
              /\ Len(seen[r]) \in Nat
              /\ \A i \in DOMAIN seen[r] : seen'[r][i] = seen[r][i]
              /\ seen'[r][Len(seen[r]) + 1] = entry.version
<1>1. entry.row \in Rows /\ entry.version \in Times /\ seen[r] \in Seq(Times)
  BY DEF TypeOK, Entries
<1>2. seen' = [seen EXCEPT ![entry.row] = Append(@, entry.version)]
  BY DEF EmitRow
<1>3. r = entry.row => seen'[r] = Append(seen[r], entry.version)
  BY <1>1, <1>2 DEF TypeOK
<1> QED  BY <1>1, <1>2, <1>3 DEF TypeOK

LEMMA EmitRowHeld ==
  ASSUME TypeOK, NEW entry \in batch, EmitRow(entry), NEW r \in Rows, NEW v \in Times
  PROVE  Held(r, v)' <=> Held(r, v)
<1>1. batch' = batch \ {entry}
  BY DEF EmitRow
<1>2. entry = [row |-> entry.row, version |-> entry.version]
  BY DEF TypeOK, Entries
<1>3. CASE r # entry.row
  BY <1>1, <1>2, <1>3, EmitRowSeen DEF Held
<1>4. CASE r = entry.row
  <2>1. [row |-> r, version |-> v] \in batch'
          <=> [row |-> r, version |-> v] \in batch /\ v # entry.version
    BY <1>1, <1>2, <1>4
  <2>2. (\E i \in DOMAIN seen'[r] : seen'[r][i] = v)
          <=> (\E i \in DOMAIN seen[r] : seen[r][i] = v) \/ v = entry.version
    <3> DEFINE n == Len(seen[r])
    <3>1. /\ n \in Nat /\ DOMAIN seen[r] = 1..n /\ DOMAIN seen'[r] = 1..(n + 1)
          /\ \A i \in 1..n : seen'[r][i] = seen[r][i]
          /\ seen'[r][n + 1] = entry.version
      BY <1>4, EmitRowSeen
    <3> HIDE DEF n
    <3>2. \A i \in 1..(n + 1) : i \in 1..n \/ i = n + 1
      BY <3>1
    <3>3. 1..n \subseteq 1..(n + 1) /\ n + 1 \in 1..(n + 1)
      BY <3>1
    <3> QED  BY <3>1, <3>2, <3>3
  <2> QED  BY <2>1, <2>2, <1>2, <1>4 DEF Held
<1> QED  BY <1>3, <1>4

LEMMA ListRowsHeld ==
  ASSUME ScanInv, ListRows, NEW r \in Rows, NEW v \in Times
  PROVE  Held(r, v)' <=> Held(r, v) \/ [row |-> r, version |-> v] \in batch'
<1>1. batch = {} /\ seen' = seen
  BY DEF ListRows, ScanInv, Control
<1> QED  BY <1>1 DEF Held
-----------------------------------------------------------------------------
(* The answer to a request, in either pass.                                *)

(* A page of the first pass: the existing rows up to some key.             *)
FirstPassPage(last) ==
  /\ tokenAt = Never /\ ~syncCheckDone' /\ ~syncCheckDone /\ syncAt' = syncAt
  /\ \A r \in Rows, v \in Times : [row |-> r, version |-> v] \in batch' <=>
       r \in alive /\ v = changedAt[r] /\ After(pageToken) < r /\ r <= last
  /\ \/ /\ tokenAt' = Never /\ syncToken' = NoToken /\ ~rustFinished'
        /\ last \in Rows /\ After(pageToken) < last
        /\ pageToken' = [after |-> last, since |-> Never]
     \/ /\ tokenAt' = clock /\ pageToken' = NoToken
        /\ syncToken' = IF issues THEN clock ELSE NoToken
        /\ \A r \in alive : After(pageToken) < r => r <= last

(* A page of the second pass: the rows changed since the first.            *)
SecondPassPage(last) ==
  /\ tokenAt \in Times /\ syncCheckDone' /\ tokenAt' = tokenAt /\ syncAt' \in Times
  /\ pageToken = NoToken => ~syncCheckDone /\ syncAt' = clock
  /\ pageToken # NoToken => syncAt' = syncAt /\ syncCheckDone
  /\ \A r \in Rows, v \in Times : [row |-> r, version |-> v] \in batch' <=>
       /\ r \in alive /\ v = changedAt[r] /\ After(pageToken) < r /\ r <= last
       /\ changedAt[r] > tokenAt
  /\ \/ /\ last \in Rows /\ After(pageToken) < last
        /\ pageToken' = [after |-> last, since |-> tokenAt]
     \/ /\ pageToken' = NoToken /\ (issues => syncToken' = clock)
        /\ \A r \in alive : After(pageToken) < r /\ changedAt[r] > tokenAt => r <= last

LEMMA ListRowsPage ==
  ASSUME ScanInv, ListRows
  PROVE  \E last \in Nat : FirstPassPage(last) \/ SecondPassPage(last)
<1> DEFINE sync == RequestSyncToken
           keys == Matching(pageToken, sync)
           since == Since(pageToken, sync)
           page(last) == {r \in keys : r <= last}
<1>1. TypeOK /\ Tokens /\ Control /\ pc = "fetching"
  BY DEF ScanInv, ListRows
<1>2. ~rustFinished
  BY <1>1 DEF Control
<1>3. PICK last \in IF keys = {} THEN {0} ELSE keys :
        /\ pageToken' = IF page(last) # keys THEN [after |-> last, since |-> since] ELSE NoToken
        /\ syncToken' = IF issues /\ page(last) = keys THEN clock ELSE NoToken
        /\ tokenAt' = IF since = Never /\ page(last) = keys THEN clock ELSE tokenAt
        /\ syncAt' = IF sync # NoToken THEN clock ELSE syncAt
        /\ batch' = VisibleRows(page(last))
  BY DEF ListRows
<1>4. keys \subseteq Rows /\ Rows \subseteq Nat /\ last \in Nat
  BY ConstantFacts DEF Matching
<1>5. page(last) # keys => last \in keys
  OBVIOUS
<1>6. \A r \in keys : r > After(pageToken)
  BY DEF Matching
<1>7. \A r \in Rows, v \in Times : [row |-> r, version |-> v] \in batch' <=>
        r \in alive /\ v = changedAt[r] /\ r \in keys /\ r <= last
  BY <1>3, <1>4 DEF VisibleRows, TypeOK
<1>8. syncCheckDone' = SyncCheckRecorded
  BY DEF ListRows
<1>9. pageToken' # NoToken => ~rustFinished'
  BY DEF ListRows, FinishedAfter
<1>10. pageToken \in PageTokens \cup {NoToken} /\ Never \notin Times /\ NoToken # Never
  BY <1>1, ConstantFacts DEF TypeOK, Times, Never
<1>11. page(last) # keys => pageToken' # NoToken
  <2>1. since \in Times \cup {Never}
    BY <1>1, <1>10 DEF Since, RequestSyncToken, SendsSyncToken, TypeOK, PageTokens
  <2>2. page(last) # keys => [after |-> last, since |-> since] \in PageTokens
    BY <2>1, <1>4, <1>5 DEF PageTokens
  <2> QED  BY <2>2, <1>3, ConstantFacts
<1>12. CASE tokenAt = Never
  <2>1. syncToken = NoToken /\ ~syncCheckDone /\ (pageToken # NoToken => pageToken.since = Never)
    BY <1>1, <1>12 DEF Tokens
  <2>2. sync = NoToken /\ since = Never /\ ~SyncCheckRecorded
    BY <2>1 DEF RequestSyncToken, SendsSyncToken, Since, SyncCheckRecorded
  <2>3. \A r \in Rows : r \in keys <=> r > After(pageToken) /\ r \in alive
    BY <2>2 DEF Matching
  <2>4. \A r \in alive : r \in Rows
    BY <1>1 DEF TypeOK
  <2>5. FirstPassPage(last)
    <3>1. CASE page(last) # keys
      BY <3>1, <1>3, <1>4, <1>5, <1>6, <1>7, <1>8, <1>9, <1>11, <1>12, <2>1, <2>2, <2>3
         DEF FirstPassPage
    <3>2. CASE page(last) = keys
      BY <3>2, <1>3, <1>4, <1>7, <1>8, <1>12, <2>1, <2>2, <2>3, <2>4 DEF FirstPassPage
    <3> QED  BY <3>1, <3>2
  <2> QED  BY <2>5, <1>4
<1>13. CASE tokenAt # Never
  <2>1. /\ tokenAt \in Times /\ clock \in Times
        /\ pageToken # NoToken => pageToken.since = tokenAt /\ syncCheckDone /\ syncAt \in Times
        /\ pageToken = NoToken => ~syncCheckDone /\ syncToken # NoToken /\ syncToken = tokenAt
    BY <1>1, <1>2, <1>13 DEF Tokens, TypeOK
  <2>2. since = tokenAt /\ SyncCheckRecorded
    BY <2>1 DEF RequestSyncToken, SendsSyncToken, Since, SyncCheckRecorded
  <2>3. sync # NoToken <=> pageToken = NoToken
    BY <2>1 DEF RequestSyncToken, SendsSyncToken
  <2>4. \A r \in Rows : r \in keys <=> r > After(pageToken) /\ changedAt[r] > tokenAt
    BY <2>2, <1>13 DEF Matching
  <2>5. \A r \in alive : r \in Rows
    BY <1>1 DEF TypeOK
  <2>6. SecondPassPage(last)
    <3>1. CASE page(last) # keys
      BY <3>1, <1>3, <1>4, <1>5, <1>6, <1>7, <1>8, <1>13, <2>1, <2>2, <2>3, <2>4
         DEF SecondPassPage
    <3>2. CASE page(last) = keys
      BY <3>2, <1>3, <1>4, <1>7, <1>8, <1>13, <2>1, <2>2, <2>3, <2>4, <2>5 DEF SecondPassPage
    <3> QED  BY <3>1, <3>2
  <2> QED  BY <2>6, <1>4
<1> QED  BY <1>12, <1>13
-----------------------------------------------------------------------------
(* Each step preserves the invariant.                                      *)

LEMMA InitInv == Init => ScanInv
<1> SUFFICES ASSUME Init PROVE ScanInv  OBVIOUS
<1>1. TypeOK
  BY InitType
<1>2. \A r \in Rows : \A v : ~Held(r, v)
  BY DEF Init, Held
<1>3. Document /\ Control
  BY ConstantFacts DEF Init, Document, Control, Never
<1>4. Tokens
  BY DEF Init, Tokens
<1>5. Versioned /\ OncePerPass
  BY <1>2 DEF Versioned, OncePerPass
<1>6. Ordered
  BY DEF Init, Ordered
<1>7. FirstPass /\ SecondPass
  BY DEF Init, FirstPass, SecondPass
<1>8. Limited
  <2>1. IsFiniteSet({}) /\ Cardinality({}) = 0
    BY FS_EmptySet
  <2>2. RequestLimit \in Nat
    BY ConstantFacts DEF RequestLimit, LesserOf, Init
  <2> QED  BY <2>1, <2>2, ConstantFacts DEF Init, Limited
<1> QED  BY <1>1, <1>3, <1>4, <1>5, <1>6, <1>7, <1>8 DEF ScanInv

(* A step that moves nothing between the document, the scan and DuckDB.    *)
LEMMA QuietStep ==
  ASSUME ScanInv, TypeOK', Control',
         UNCHANGED <<server, pageToken, syncToken, rustFinished, batch, remaining, finished,
                     limit, history>>,
         pc' = "failed" \/ (pc # "failed" /\ syncCheckDone' = syncCheckDone),
         syncCheckDone => syncCheckDone'
  PROVE  ScanInv'
<1> USE DEF ScanInv, server, history
<1>1. \A r \in Rows : \A v : Held(r, v)' <=> Held(r, v)
  BY HeldStays
<1>2. \A r : Passed(r)' <=> Passed(r)
  BY DEF Passed
<1>3. Document'
  BY DEF Document
<1>4. Tokens'
  BY DEF Tokens
<1>5. Versioned'
  BY <1>1 DEF Versioned
<1>6. Ordered'
  BY DEF Ordered
<1>7. OncePerPass'
  BY <1>1, <1>2 DEF OncePerPass
<1>8. FirstPass'
  <2>1. InitialRows \subseteq Rows  BY ConstantFacts
  <2> QED  BY <1>1, <2>1 DEF FirstPass
<1>9. SecondPass'
  BY <1>1, <1>2 DEF SecondPass, TypeOK
<1>10. Limited'
  BY DEF Limited, RequestLimit
<1> QED  BY <1>3, <1>4, <1>5, <1>6, <1>7, <1>8, <1>9, <1>10

LEMMA EditInv ==
  ASSUME ScanInv, NEW r \in Rows, EditRow(r) \/ DeleteRow(r)
  PROVE  ScanInv'
<1> USE DEF ScanInv, handle, cursor, history
<1>1. /\ clock' = clock + 1
      /\ changedAt' = [changedAt EXCEPT ![r] = clock + 1]
      /\ UNCHANGED <<issues, handle, cursor, limit, history>>
  BY DEF EditRow, DeleteRow, Touch
<1>2. TypeOK'
  <2>1. Next  BY DEF Next
  <2> QED  BY <2>1, TypeStep
<1>3. clock \in Nat /\ changedAt \in [Rows -> Nat] /\ tokenAt \in Int /\ syncAt \in Int
  BY ConstantFacts DEF TypeOK, Times, Never
<1>4. \A s \in Rows : changedAt'[s] = IF s = r THEN clock + 1 ELSE changedAt[s]
  BY <1>1, <1>3
<1>5. \A s \in Rows : \A v : Held(s, v)' <=> Held(s, v)
  BY <1>1, HeldStays
<1>6. \A s : Passed(s)' <=> Passed(s)
  BY <1>1 DEF Passed
<1>7. /\ \A s \in Rows : removedAt'[s] = Never => removedAt[s] = Never /\ (s \in alive => s \in alive')
      /\ \A s \in Rows : s # r => removedAt'[s] = removedAt[s] /\ (s \in alive' <=> s \in alive)
      /\ removedAt'[r] # Never => r \notin alive' /\ removedAt'[r] = clock + 1
  <2>1. CASE EditRow(r)
    BY <2>1 DEF EditRow
  <2>2. CASE DeleteRow(r)
    <3>1. removedAt[r] = Never
      BY <2>2 DEF DeleteRow, Document
    <3>2. removedAt' = [removedAt EXCEPT ![r] = clock + 1] /\ alive' = alive \ {r}
      BY <2>2 DEF DeleteRow
    <3> QED  BY <3>1, <3>2, <1>3 DEF TypeOK, Never
  <2> QED  BY <2>1, <2>2
<1>8. Document'
  BY <1>1, <1>3, <1>4, <1>7, ConstantFacts DEF Document
<1>9. Tokens'
  BY <1>1 DEF Tokens
<1>10. Control'
  BY <1>1, <1>3 DEF Control
<1>11. Versioned'
  <2> SUFFICES ASSUME NEW s \in Rows, NEW v \in Times, Held(s, v)
               PROVE  v <= changedAt'[s] /\ (removedAt'[s] # Never => v < removedAt'[s])
    BY <1>5 DEF Versioned
  <2>1. v \in Nat /\ v <= changedAt[s] /\ changedAt[s] <= clock /\ changedAt[s] \in Nat
    BY <1>3, ConstantFacts DEF Versioned, Document, Times
  <2> QED  BY <2>1, <1>3, <1>4, <1>7 DEF Versioned
<1>12. Ordered'
  BY <1>1 DEF Ordered
<1>13. OncePerPass'
  BY <1>1, <1>5, <1>6 DEF OncePerPass
<1>14. FirstPass'
  BY <1>1, <1>5, <1>7, ConstantFacts DEF FirstPass
<1>15. SecondPass'
  <2> SUFFICES ASSUME pc # "failed", tokenAt # Never, syncCheckDone, NEW s \in alive',
                      tokenAt < changedAt'[s], changedAt'[s] <= syncAt, Passed(s)
               PROVE  Held(s, changedAt'[s])
    <3>1. \A s : Held(s, changedAt[s])' <=> Held(s, changedAt'[s])
      BY <1>1 DEF Held
    <3> QED  BY <1>1, <1>6, <3>1 DEF SecondPass
  <2>1. s \in Rows /\ s # r
    BY <1>2, <1>3, <1>4 DEF TypeOK, Control
  <2> QED  BY <2>1, <1>4, <1>7 DEF SecondPass
<1>16. Limited'
  BY <1>1 DEF Limited, RequestLimit
<1> QED  BY <1>2, <1>8, <1>9, <1>10, <1>11, <1>12, <1>13, <1>14, <1>15, <1>16

LEMMA EmitRowInv ==
  ASSUME ScanInv, NEW entry \in batch, EmitRow(entry)
  PROVE  ScanInv'
<1> USE DEF ScanInv
<1>1. TypeOK'
  BY EmitRowType
<1>2. UNCHANGED <<server, handle, limit, tokenAt, syncAt>>
  BY DEF EmitRow
<1>3. \A r \in Rows, v \in Times : Held(r, v)' <=> Held(r, v)
  BY EmitRowHeld
<1>4. \A r : Passed(r)' <=> Passed(r)
  BY <1>2 DEF Passed, handle
<1>5. entry.row \in Rows
  BY DEF TypeOK, Entries
<1>6. pc = "filling" /\ pc' \in {"filling", "idle"} /\ out' # 0
  BY DEF EmitRow, ReturnChunk, TypeOK
<1>7. Document'
  BY <1>2 DEF Document, server
<1>8. Tokens'
  BY <1>2, <1>6 DEF Tokens, server, handle
<1>9. Control'
  <2>1. finished => finished'
    BY DEF EmitRow, FinishedAtLimit
  <2>2. finished' => rustFinished' \/ (limit' > 0 /\ remaining' = 0)
    BY <1>2, ConstantFacts DEF EmitRow, FinishedAtLimit, RowsLeft, Control, TypeOK, handle
  <2> QED  BY <2>1, <2>2, <1>2, <1>6 DEF Control, server, handle
<1>10. Versioned'
  BY <1>2, <1>3 DEF Versioned, server
<1>11. Ordered'
  <2> SUFFICES ASSUME NEW r \in Rows
               PROVE  /\ \A i, j \in DOMAIN seen'[r] : i < j => seen'[r][i] < seen'[r][j]
                      /\ \A e \in batch' : e.row = r =>
                           /\ \A i \in DOMAIN seen'[r] : seen'[r][i] < e.version
                           /\ \A f \in batch' : f.row = r => f = e
    BY DEF Ordered
  <2>1. batch' = batch \ {entry}
    BY DEF EmitRow
  <2>2. CASE r # entry.row
    BY <2>1, <2>2, EmitRowSeen DEF Ordered
  <2>3. CASE r = entry.row
    <3>1. \A e \in batch' : e.row # r
      BY <2>1, <2>3 DEF Ordered
    <3>2. \A i \in DOMAIN seen[r] : seen[r][i] < entry.version
      BY <2>3 DEF Ordered
    <3> QED  BY <3>1, <3>2, <2>3, EmitRowSeen DEF Ordered
  <2> QED  BY <2>2, <2>3
<1>12. OncePerPass'
  BY <1>2, <1>3, <1>4 DEF OncePerPass, handle
<1>13. FirstPass'
  BY <1>2, <1>3, ConstantFacts DEF FirstPass, server, handle
<1>14. SecondPass'
  <2>1. alive \subseteq Rows /\ changedAt \in [Rows -> Times]
    BY DEF TypeOK
  <2> QED  BY <1>2, <1>3, <1>4, <1>6, <2>1 DEF SecondPass, server, handle
<1>15. Limited'
  <2>1. batch' = batch \ {entry} /\ emitted' = emitted + 1 /\ remaining' = RowsLeft
    BY DEF EmitRow
  <2>2. /\ IsFiniteSet(batch') /\ Cardinality(batch') = Cardinality(batch) - 1
        /\ Cardinality(batch) \in Nat
    BY <2>1, FS_RemoveElement, FS_CardinalityType DEF Limited
  <2>3. /\ RequestLimit' = RequestLimit /\ RequestLimit \in Nat /\ limit \in Nat
        /\ emitted \in Nat /\ remaining \in Nat
    BY <1>2, ConstantFacts DEF RequestLimit, LesserOf, TypeOK
  <2>4. (finished => finished') /\ (remaining > 0 /\ remaining' = 0 => finished')
    BY DEF EmitRow, FinishedAtLimit
  <2>5. CASE remaining > 0
    <3>1. remaining' = remaining - 1
      BY <2>1, <2>5 DEF RowsLeft
    <3> QED  BY <1>2, <2>1, <2>2, <2>3, <2>4, <2>5, <3>1 DEF Limited
  <2>6. CASE remaining = 0
    <3>1. remaining' = 0
      BY <2>1, <2>6 DEF RowsLeft
    <3> QED  BY <1>2, <2>1, <2>2, <2>3, <2>4, <2>6, <3>1 DEF Limited
  <2> QED  BY <2>3, <2>5, <2>6
<1> QED  BY <1>1, <1>7, <1>8, <1>9, <1>10, <1>11, <1>12, <1>13, <1>14, <1>15

LEMMA ListRowsInv ==
  ASSUME ScanInv, ListRows
  PROVE  ScanInv'
<1> USE DEF ScanInv
<1>1. TypeOK'
  BY ListRowsType
<1>2. PICK last \in Nat : FirstPassPage(last) \/ SecondPassPage(last)
  BY ListRowsPage
<1>3. /\ UNCHANGED <<server, remaining, out, limit, seen, emitted>>
      /\ batch = {} /\ ~finished /\ ~rustFinished
      /\ pc = "fetching" /\ pc' \in {"filling", "fetching"}
  BY DEF ListRows, Control
<1>4. \A r \in Rows, v \in Times :
        Held(r, v)' <=> Held(r, v) \/ [row |-> r, version |-> v] \in batch'
  BY ListRowsHeld
<1>5. /\ \A r \in Rows : r \in Nat /\ changedAt[r] \in Times /\ changedAt[r] <= clock
      /\ Never \notin Times /\ clock \in Times /\ alive \subseteq Rows
      /\ \A v \in Times : v \in Nat /\ v > Never
      /\ pageToken # NoToken => pageToken.after \in Rows
      /\ NoToken \notin Times /\ After(pageToken) \in Nat
      /\ \A r \in Rows, t \in Times \cup {Never} : [after |-> r, since |-> t] # NoToken
  <2>1. \A r \in Rows : changedAt[r] \in Times /\ changedAt[r] <= clock
    BY DEF TypeOK, Document
  <2>2. /\ \A r \in Rows : r \in Nat
        /\ Never \notin Times /\ \A v \in Times : v \in Nat /\ v > Never
        /\ NoToken \notin Times
    BY ConstantFacts DEF Times, Never
  <2>3. clock \in Times /\ alive \subseteq Rows /\ pageToken \in PageTokens \cup {NoToken}
    BY DEF TypeOK
  <2>4. (pageToken # NoToken => pageToken.after \in Rows) /\ After(pageToken) \in Nat
    BY <2>2, <2>3 DEF PageTokens, After
  <2>5. \A r \in Rows, t \in Times \cup {Never} : [after |-> r, since |-> t] \in PageTokens
    BY DEF PageTokens
  <2>6. \A r \in Rows, t \in Times \cup {Never} : [after |-> r, since |-> t] # NoToken
    BY <2>5, ConstantFacts
  <2> QED  BY <2>1, <2>2, <2>3, <2>4, <2>6
<1>6. \A e \in batch' : /\ e.row \in Rows /\ e.version \in Times
                        /\ e = [row |-> e.row, version |-> e.version]
  BY <1>1 DEF TypeOK, Entries
<1>7. \A r \in Rows, v \in Times : [row |-> r, version |-> v] \in batch' =>
        r \in alive /\ v = changedAt[r] /\ After(pageToken) < r /\ ~(pageToken # NoToken /\ Passed(r))
  BY <1>2, <1>5 DEF FirstPassPage, SecondPassPage, Passed, After
<1>8. pageToken' # NoToken => \A r \in Rows : Passed(r) /\ pageToken # NoToken => Passed(r)'
  BY <1>2, <1>5 DEF FirstPassPage, SecondPassPage, Passed, After
<1>9. \A r \in Rows, v \in Times : Held(r, v) /\ (tokenAt # Never => v > tokenAt) =>
        pageToken # NoToken /\ Passed(r) /\ ~(After(pageToken) < r)
  <2>1. tokenAt # Never /\ pageToken = NoToken => ~syncCheckDone
    BY <1>2 DEF FirstPassPage, SecondPassPage
  <2> SUFFICES ASSUME NEW r \in Rows, NEW v \in Times, Held(r, v), tokenAt # Never => v > tokenAt
               PROVE  pageToken # NoToken /\ Passed(r) /\ ~(After(pageToken) < r)
    OBVIOUS
  <2>2. pageToken # NoToken /\ r <= pageToken.after
    BY <2>1 DEF OncePerPass, Passed
  <2> QED  BY <2>2, <1>5 DEF Passed, After
<1>10. Document'
  BY <1>3 DEF Document, server
<1>11. Tokens'
  <2>1. rustFinished' <=> pageToken' = NoToken /\ (syncToken' = NoToken \/ syncCheckDone')
    BY DEF ListRows, FinishedAfter
  <2>2. issues' = issues
    BY <1>3 DEF server
  <2>3. CASE FirstPassPage(last)
    BY <2>1, <2>2, <2>3, <1>3, <1>5 DEF FirstPassPage, Tokens
  <2>4. CASE SecondPassPage(last)
    BY <2>1, <2>2, <2>4, <1>3, <1>5 DEF SecondPassPage, Tokens
  <2> QED  BY <1>2, <2>3, <2>4
<1>12. Control'
  <2>1. finished' = rustFinished' /\ (pc' = "fetching" => batch' = {} /\ ~rustFinished')
    BY DEF ListRows
  <2>2. tokenAt' <= clock /\ syncAt' <= clock
    BY <1>2, <1>5 DEF FirstPassPage, SecondPassPage, Control, TypeOK
  <2> QED  BY <2>1, <2>2, <1>3 DEF Control, server
<1>13. Versioned'
  <2>1. \A r \in alive : removedAt[r] = Never
    BY <1>5 DEF Document
  <2> SUFFICES ASSUME NEW r \in Rows, NEW v \in Times, Held(r, v)'
               PROVE  v <= changedAt[r] /\ (removedAt[r] # Never => v < removedAt[r])
    BY <1>3 DEF Versioned, server
  <2>2. CASE Held(r, v)
    BY <2>2 DEF Versioned
  <2>3. CASE [row |-> r, version |-> v] \in batch'
    <3>1. r \in alive /\ v = changedAt[r]
      BY <2>3, <1>7
    <3> QED  BY <3>1, <2>1, <1>5
  <2> QED  BY <2>2, <2>3, <1>4
<1>14. Ordered'
  <2> SUFFICES ASSUME NEW r \in Rows, NEW e \in batch', e.row = r
               PROVE  /\ \A i \in DOMAIN seen[r] : seen[r][i] < e.version
                      /\ \A f \in batch' : f.row = r => f = e
    BY <1>3 DEF Ordered
  <2>1. /\ [row |-> r, version |-> e.version] \in batch' /\ e.version \in Times
        /\ e.version = changedAt[r]
    BY <1>6, <1>7
  <2>2. \A f \in batch' : f.row = r => f = e
    BY <1>6, <1>7
  <2>3. ASSUME NEW i \in DOMAIN seen[r] PROVE seen[r][i] < e.version
    <3>1. seen[r][i] \in Times /\ Held(r, seen[r][i])
      BY HeldIsVersion
    <3>2. CASE FirstPassPage(last)
      BY <3>1, <3>2, <2>1, <1>7, <1>9 DEF FirstPassPage
    <3>3. CASE SecondPassPage(last)
      <4>1. tokenAt \in Times /\ e.version > tokenAt /\ After(pageToken) < r
        BY <2>1, <3>3 DEF SecondPassPage
      <4> QED  BY <4>1, <3>1, <2>1, <1>5, <1>9
    <3> QED  BY <1>2, <3>2, <3>3
  <2> QED  BY <2>2, <2>3
<1>15. OncePerPass'
  <2> SUFFICES ASSUME NEW r \in Rows, NEW v \in Times, Held(r, v)'
        PROVE  /\ tokenAt' = Never => pageToken' # NoToken /\ r <= pageToken'.after
               /\ tokenAt' # Never /\ v > tokenAt' => syncCheckDone' /\ Passed(r)'
               /\ \A w \in Times : Held(r, w)' /\ (v > tokenAt' <=> w > tokenAt') => v = w
    BY DEF OncePerPass
  <2>1. CASE FirstPassPage(last)
    <3>1. v <= clock
      <4>1. v <= changedAt[r]
        BY <1>13, <1>3 DEF Versioned, server
      <4> QED  BY <4>1, <1>5
    <3>2. tokenAt' = Never => pageToken' # NoToken /\ r <= pageToken'.after
      <4> SUFFICES ASSUME tokenAt' = Never PROVE pageToken' # NoToken /\ r <= pageToken'.after
        OBVIOUS
      <4>1. /\ last \in Rows /\ After(pageToken) < last
            /\ pageToken' = [after |-> last, since |-> Never]
        BY <2>1, <1>5 DEF FirstPassPage
      <4>2. pageToken' # NoToken
        BY <4>1, <1>5
      <4>3. r <= last
        <5>1. CASE Held(r, v)
          BY <5>1, <4>1, <2>1, <1>5, <1>9 DEF FirstPassPage
        <5>2. CASE [row |-> r, version |-> v] \in batch'
          BY <5>2, <2>1 DEF FirstPassPage
        <5> QED  BY <5>1, <5>2, <1>4
      <4> QED  BY <4>1, <4>2, <4>3
    <3>3. ~(tokenAt' # Never /\ v > tokenAt')
      BY <2>1, <3>1, <1>5 DEF FirstPassPage
    <3>4. ASSUME NEW w \in Times, Held(r, w)' PROVE v = w
      <4>1. Held(r, v) /\ Held(r, w) => v = w
        BY <2>1, <1>5 DEF FirstPassPage, OncePerPass
      <4>2. tokenAt = Never
        BY <2>1 DEF FirstPassPage
      <4> QED  BY <4>1, <4>2, <3>4, <1>4, <1>7, <1>9
    <3> QED  BY <3>2, <3>3, <3>4
  <2>2. CASE SecondPassPage(last)
    <3>1. tokenAt' = tokenAt /\ tokenAt \in Times /\ tokenAt # Never /\ syncCheckDone'
      BY <2>2, <1>5 DEF SecondPassPage
    <3>2. ASSUME v > tokenAt PROVE Passed(r)'
      <4>1. CASE Held(r, v)
        <5>1. Passed(r) /\ pageToken # NoToken
          BY <4>1, <3>1, <3>2, <1>9 DEF OncePerPass
        <5> QED  BY <5>1, <1>8 DEF Passed
      <4>2. CASE [row |-> r, version |-> v] \in batch'
        BY <4>2, <2>2 DEF SecondPassPage, Passed
      <4> QED  BY <4>1, <4>2, <1>4
    <3>3. ASSUME NEW w \in Times, Held(r, w)', v > tokenAt <=> w > tokenAt PROVE v = w
      <4>1. Held(r, v) /\ Held(r, w) => v = w
        BY <3>3 DEF OncePerPass
      <4>2. \A u \in Times : [row |-> r, version |-> u] \in batch' =>
              u = changedAt[r] /\ u > tokenAt /\ After(pageToken) < r
        BY <2>2 DEF SecondPassPage
      <4>3. \A u \in Times : Held(r, u) /\ u > tokenAt => ~(After(pageToken) < r)
        BY <3>1, <1>9
      <4> QED  BY <4>1, <4>2, <4>3, <3>3, <1>4
    <3> QED  BY <3>1, <3>2, <3>3
  <2> QED  BY <1>2, <2>1, <2>2
<1>16. FirstPass'
  <2> SUFFICES ASSUME NEW r \in InitialRows, removedAt[r] = Never,
                      tokenAt' # Never \/ (pageToken' # NoToken /\ r <= pageToken'.after)
               PROVE  \E v \in Times : Held(r, v)'
    BY <1>3 DEF FirstPass, server
  <2>1. r \in Rows /\ r \in alive
    BY ConstantFacts DEF Document
  <2>2. CASE FirstPassPage(last)
    <3>1. CASE After(pageToken) < r
      <4>1. r <= last
        BY <2>1, <2>2, <3>1 DEF FirstPassPage
      <4>2. [row |-> r, version |-> changedAt[r]] \in batch'
        BY <2>1, <2>2, <3>1, <4>1, <1>5 DEF FirstPassPage
      <4> QED  BY <2>1, <4>2, <1>4, <1>5
    <3>2. CASE ~(After(pageToken) < r)
      <4>1. pageToken # NoToken /\ r <= pageToken.after
        BY <2>1, <3>2, <1>5, ConstantFacts DEF After
      <4>2. \E v \in Times : Held(r, v)
        BY <4>1 DEF FirstPass
      <4> QED  BY <2>1, <4>2, <1>4
    <3> QED  BY <3>1, <3>2
  <2>3. CASE SecondPassPage(last)
    <3>1. \E v \in Times : Held(r, v)
      BY <2>3, <1>5 DEF SecondPassPage, FirstPass
    <3> QED  BY <2>1, <3>1, <1>4
  <2> QED  BY <1>2, <2>2, <2>3
<1>17. SecondPass'
  <2>1. CASE FirstPassPage(last)
    BY <2>1 DEF FirstPassPage, SecondPass
  <2>2. CASE SecondPassPage(last)
    <3> SUFFICES ASSUME NEW r \in alive, NEW v \in Times, v = changedAt[r],
                        tokenAt < v, v <= syncAt', Passed(r)'
                 PROVE  Held(r, v)'
      <4>1. tokenAt' = tokenAt /\ alive' = alive /\ changedAt' = changedAt
        BY <2>2, <1>3 DEF SecondPassPage, server
      <4>2. \A r \in alive : r \in Rows /\ changedAt[r] \in Times
        BY <1>5
      <4> QED  BY <4>1, <4>2 DEF SecondPass
    <3>1. r \in Rows /\ v \in Times
      BY <1>5
    <3>2. CASE After(pageToken) < r
      <4>1. r <= last
        BY <2>2, <3>1, <3>2, <1>5 DEF SecondPassPage, Passed
      <4>2. [row |-> r, version |-> v] \in batch'
        BY <2>2, <3>1, <3>2, <4>1, <1>5 DEF SecondPassPage
      <4> QED  BY <3>1, <4>2, <1>4
    <3>3. CASE ~(After(pageToken) < r)
      <4>1. pageToken # NoToken /\ Passed(r)
        BY <3>1, <3>3, <1>5, ConstantFacts DEF After, Passed
      <4>2. Held(r, v)
        BY <4>1, <2>2, <1>3, <1>5 DEF SecondPassPage, SecondPass
      <4> QED  BY <3>1, <4>2, <1>4
    <3> QED  BY <3>2, <3>3
  <2> QED  BY <1>2, <2>1, <2>2
<1>18. Limited'
  <2>1. RequestLimit' = RequestLimit /\ RequestLimit \in Nat
    BY <1>3, ConstantFacts DEF RequestLimit, LesserOf, TypeOK
  <2>2. finished' = rustFinished'
    BY DEF ListRows
  <2>3. PICK page \in SUBSET Rows : Cardinality(page) <= RequestLimit /\ batch' = VisibleRows(page)
    BY DEF ListRows, Matching
  <2> DEFINE shown == page \cap alive
  <2>4. IsFiniteSet(shown) /\ IsFiniteSet(page)
    BY ConstantFacts, FS_Subset
  <2>5. Cardinality(shown) <= Cardinality(page) /\ Cardinality(shown) \in Nat /\ Cardinality(page) \in Nat
    BY <2>4, FS_Subset, FS_CardinalityType
  <2> HIDE DEF shown
  <2>6. batch' = {[row |-> r, version |-> changedAt[r]] : r \in shown}
    BY <2>3 DEF VisibleRows, shown
  <2> DEFINE entry == [r \in shown |-> [row |-> r, version |-> changedAt[r]]]
  <2>7. entry \in Surjection(shown, batch')
    BY <2>6 DEF Surjection
  <2>8. IsFiniteSet(batch') /\ Cardinality(batch') <= RequestLimit /\ Cardinality(batch') \in Nat
    BY <2>1, <2>3, <2>4, <2>5, <2>7, FS_Surjection, FS_CardinalityType
  <2>9. limit > 0 => remaining # 0
    BY <1>3 DEF Limited
  <2>10. remaining \in Nat
    BY ConstantFacts DEF TypeOK
  <2> QED  BY <1>3, <2>1, <2>8, <2>9, <2>10 DEF Limited
<1> QED  BY <1>1, <1>10, <1>11, <1>12, <1>13, <1>14, <1>15, <1>16, <1>17, <1>18

LEMMA StepInv == ScanInv /\ [Next]_vars => ScanInv'
<1> SUFFICES ASSUME ScanInv, [Next]_vars PROVE ScanInv'  OBVIOUS
<1>1. TypeOK /\ Control
  BY DEF ScanInv
<1>2. TypeOK'
  BY <1>1, TypeStep
<1>3. CASE CallScan
  <2>1. Control'
    BY <1>1, <1>3 DEF CallScan, Control, BatchSpent, server, handle, history
  <2> QED  BY <1>2, <1>3, <2>1, QuietStep DEF CallScan, handle
<1>4. CASE NextBatch
  <2>1. Control'
    BY <1>1, <1>4 DEF NextBatch, ReturnChunk, Control, BatchSpent, server, handle, history
  <2>2. pc' # "failed" /\ pc # "failed"
    BY <1>4 DEF NextBatch, ReturnChunk
  <2> QED  BY <1>2, <1>4, <2>1, <2>2, QuietStep DEF NextBatch, handle
<1>5. CASE ListRows
  BY <1>5, ListRowsInv
<1>6. ASSUME NEW entry \in batch, EmitRow(entry) PROVE ScanInv'
  BY <1>6, EmitRowInv
<1>7. CASE ListRowsFails
  <2>1. Control'
    BY <1>1, <1>7 DEF ListRowsFails, Control, server, history
  <2>2. syncCheckDone => syncCheckDone'
    BY <1>7 DEF ListRowsFails, SyncCheckRecorded
  <2> QED  BY <1>2, <1>7, <2>1, <2>2, QuietStep DEF ListRowsFails
<1>8. CASE CloseScan
  <2>1. Control'
    BY <1>1, <1>8 DEF CloseScan, Control, server, handle, history
  <2> QED  BY <1>2, <1>8, <2>1, QuietStep DEF CloseScan, handle
<1>9. ASSUME NEW r \in Rows, EditRow(r) \/ DeleteRow(r) PROVE ScanInv'
  BY <1>9, EditInv
<1>10. CASE UNCHANGED vars
  <2>1. Control'
    BY <1>1, <1>10 DEF Control, vars, server, handle, cursor, history
  <2> QED  BY <1>2, <1>10, <2>1, QuietStep DEF vars, handle, cursor
<1> QED  BY <1>3, <1>4, <1>5, <1>6, <1>7, <1>8, <1>9, <1>10 DEF Next, ScanStep

LEMMA InvKept == Spec => []ScanInv
BY InitInv, StepInv, PTL DEF Spec
-----------------------------------------------------------------------------
LEMMA RowsReadAreHeld ==
  ASSUME ScanInv, Complete
  PROVE  /\ tokenAt # Never /\ pageToken = NoToken /\ batch = {}
         /\ rustFinished
         /\ \A r \in Rows, v \in Times : Held(r, v) => \E i \in DOMAIN seen[r] : seen[r][i] = v
<1>1. batch = {} /\ rustFinished
  BY ConstantFacts DEF ScanInv, Control, Complete, TypeOK
<1>2. tokenAt # Never /\ pageToken = NoToken
  BY <1>1 DEF ScanInv, Tokens, Complete
<1> QED  BY <1>1, <1>2 DEF Held

LEMMA NoRowLostNow == ScanInv => NoRowLost
<1> SUFFICES ASSUME ScanInv, Complete, NEW r \in InitialRows, removedAt[r] = Never
             PROVE  seen[r] # <<>>
  BY DEF NoRowLost
<1>1. PICK v \in Times : Held(r, v)
  BY RowsReadAreHeld DEF ScanInv, FirstPass
<1>2. \E i \in DOMAIN seen[r] : seen[r][i] = v
  BY <1>1, RowsReadAreHeld, ConstantFacts
<1> QED  BY <1>2

(* A complete scan has every row that was there throughout it, however the *)
(* pages were cut and whatever was edited meanwhile.                       *)
THEOREM RowsKept == Spec => []NoRowLost
BY InvKept, NoRowLostNow, PTL

LEMMA SeenIsHistoryNow == ScanInv => SeenIsHistory
<1> SUFFICES ASSUME ScanInv, NEW r \in Rows
             PROVE  /\ \A i, j \in DOMAIN seen[r] : i < j => seen[r][i] < seen[r][j]
                    /\ removedAt[r] # Never => \A i \in DOMAIN seen[r] : seen[r][i] < removedAt[r]
  BY DEF SeenIsHistory
<1>1. \A i, j \in DOMAIN seen[r] : i < j => seen[r][i] < seen[r][j]
  BY DEF ScanInv, Ordered
<1>2. \A i \in DOMAIN seen[r] : seen[r][i] \in Times /\ Held(r, seen[r][i])
  BY HeldIsVersion DEF ScanInv
<1> QED  BY <1>1, <1>2 DEF ScanInv, Versioned

(* Rows never come in an older version after a newer one, nor after they   *)
(* were deleted, and twice only when they changed in between.              *)
THEOREM HistoryKept == Spec => []SeenIsHistory
BY InvKept, SeenIsHistoryNow, PTL

LEMMA CatchesUpNow == ScanInv => SyncCheckCatchesUp
<1> SUFFICES ASSUME ScanInv, Complete, issues
             PROVE  /\ syncCheckDone
                    /\ \A r \in alive : tokenAt < changedAt[r] /\ changedAt[r] <= syncAt =>
                         seen[r] # <<>> /\ seen[r][Len(seen[r])] = changedAt[r]
  BY DEF SyncCheckCatchesUp
<1>1. syncCheckDone /\ pc # "failed"
  BY RowsReadAreHeld DEF ScanInv, Tokens, Complete
<1>2. ASSUME NEW r \in alive, tokenAt < changedAt[r], changedAt[r] <= syncAt
      PROVE  seen[r] # <<>> /\ seen[r][Len(seen[r])] = changedAt[r]
  <2>1. r \in Rows /\ changedAt[r] \in Times /\ Times \subseteq Nat
    BY ConstantFacts DEF ScanInv, TypeOK, Times
  <2>2. Held(r, changedAt[r])
    BY <1>1, <1>2, RowsReadAreHeld DEF ScanInv, SecondPass, Passed
  <2>3. PICK i \in DOMAIN seen[r] : seen[r][i] = changedAt[r]
    BY <2>1, <2>2, RowsReadAreHeld
  <2>4. seen[r] \in Seq(Times) /\ DOMAIN seen[r] = 1..Len(seen[r]) /\ Len(seen[r]) \in Nat
    BY <2>1 DEF ScanInv, TypeOK
  <2> DEFINE n == Len(seen[r])
  <2>5. n \in DOMAIN seen[r] /\ i <= n /\ i \in Nat
    BY <2>3, <2>4
  <2>6. seen[r][n] \in Times /\ Held(r, seen[r][n])
    BY <2>1, <2>5, HeldIsVersion DEF ScanInv
  <2>7. seen[r][n] <= changedAt[r]
    BY <2>1, <2>6 DEF ScanInv, Versioned
  <2>8. i < n => seen[r][i] < seen[r][n]
    BY <2>1, <2>3, <2>5 DEF ScanInv, Ordered
  <2>9. seen[r][n] \in Nat /\ changedAt[r] \in Nat /\ n \in Nat
    BY <2>1, <2>4, <2>6
  <2>10. i = n
    BY <2>3, <2>5, <2>7, <2>8, <2>9
  <2> QED  BY <2>3, <2>4, <2>5, <2>10
<1> QED  BY <1>1, <1>2

(* What the sync check is for: a change made between the last page and the *)
(* check is in the result of a complete scan, in its final version.        *)
THEOREM ChangesCaughtUp == Spec => []SyncCheckCatchesUp
BY InvKept, CatchesUpNow, PTL

LEMMA LimitNow == ScanInv => LimitOverrun
<1> SUFFICES ASSUME ScanInv, limit > 0 PROVE emitted < limit + RequestLimit
  BY DEF LimitOverrun
<1>1. limit \in Nat /\ emitted \in Nat /\ remaining \in Nat
  BY ConstantFacts DEF ScanInv, TypeOK
<1>2. RequestLimit \in Nat \ {0}
  BY <1>1, ConstantFacts DEF RequestLimit, LesserOf
<1>3. Cardinality(batch) \in Nat
  BY FS_CardinalityType DEF ScanInv, Limited
<1> QED  BY <1>1, <1>2, <1>3 DEF ScanInv, Limited

(* A pushed LIMIT bounds what the scan produces, for any limit and any     *)
(* page and vector size.                                                   *)
THEOREM OverrunBounded == Spec => []LimitOverrun
BY InvKept, LimitNow, PTL

-----------------------------------------------------------------------------
(* The refinement of ScanOutcome, step by step.                            *)

(* The scan does not stop short of its LIMIT.                              *)
LimitMet == limit > 0 /\ remaining = 0 => emitted >= limit

LEMMA LimitMetStep == ScanInv /\ LimitMet /\ [Next]_vars => LimitMet'
<1> SUFFICES ASSUME ScanInv, LimitMet, [Next]_vars PROVE LimitMet'  OBVIOUS
<1>1. limit \in Nat /\ remaining \in Nat /\ emitted \in Nat
  BY ConstantFacts DEF ScanInv, TypeOK
<1>2. ASSUME NEW entry \in batch, EmitRow(entry) PROVE LimitMet'
  <2>1. limit' = limit /\ emitted' = emitted + 1 /\ remaining' = RowsLeft
    BY <1>2 DEF EmitRow
  <2>2. limit > 0 /\ remaining > 0 => emitted + remaining = limit
    BY DEF ScanInv, Limited
  <2> QED  BY <1>1, <2>1, <2>2 DEF LimitMet, RowsLeft
<1>3. ASSUME UNCHANGED <<limit, remaining, emitted>> PROVE LimitMet'
  BY <1>3 DEF LimitMet
<1>4. CASE CallScan \/ NextBatch \/ CloseScan
  BY <1>3, <1>4 DEF CallScan, NextBatch, CloseScan, history
<1>5. CASE ListRows
  BY <1>3, <1>5 DEF ListRows
<1>6. CASE ListRowsFails
  BY <1>3, <1>6 DEF ListRowsFails, history
<1>7. ASSUME NEW r \in Rows, EditRow(r) \/ DeleteRow(r) PROVE LimitMet'
  BY <1>3, <1>7 DEF EditRow, DeleteRow, Touch, cursor, history
<1>8. CASE UNCHANGED vars
  BY <1>3, <1>8 DEF vars, cursor, history
<1> QED  BY <1>2, <1>4, <1>5, <1>6, <1>7, <1>8 DEF Next, ScanStep

LEMMA InitOutcome == Init => Outcome!Init /\ LimitMet
<1> SUFFICES ASSUME Init PROVE Outcome!Init /\ LimitMet  OBVIOUS
<1>1. {r \in InitialRows : removedAt[r] = Never} = InitialRows
  BY ConstantFacts DEF Init
<1>2. Verdict = "open" /\ limit \in Nat
  BY ConstantFacts DEF Init, Verdict
<1>3. LimitMet
  BY <1>2 DEF Init, LimitMet
<1> QED  BY <1>1, <1>2, <1>3 DEF Init, Outcome!Init

(* A scan that is over has everything, or enough.                          *)
LEMMA EndsWell ==
  ASSUME ScanInv, LimitMet, pc \in {"idle", "filling"}, finished, batch = {}, pc' = "ended",
         UNCHANGED <<server, limit, batch, seen, emitted, rustFinished>>
  PROVE  Outcome!Next
<1>1. Verdict = "open" /\ Verdict' = IF rustFinished THEN "complete" ELSE "enough"
  BY DEF Verdict
<1>2. ASSUME rustFinished, NEW r \in InitialRows, removedAt[r] = Never PROVE seen[r] # <<>>
  <2>1. tokenAt # Never
    BY <1>2 DEF ScanInv, Tokens
  <2>2. PICK v \in Times : Held(r, v)
    BY <1>2, <2>1 DEF ScanInv, FirstPass
  <2>3. \E i \in DOMAIN seen[r] : seen[r][i] = v
    BY <2>2 DEF Held
  <2> QED  BY <2>3
<1>3. ~rustFinished => limit > 0 /\ emitted >= limit
  BY DEF ScanInv, Control, LimitMet
<1>4. /\ alive' = alive /\ changedAt' = changedAt /\ removedAt' = removedAt
      /\ limit' = limit /\ batch' = batch /\ seen' = seen /\ emitted' = emitted
  BY DEF server
<1>5. Outcome!End(IF rustFinished THEN "complete" ELSE "enough")
  BY <1>1, <1>2, <1>3, <1>4 DEF Outcome!End, Outcome!document
<1> QED  BY <1>5 DEF Outcome!Next

LEMMA Abandoned ==
  ASSUME pc \in {"idle", "filling", "fetching"}, pc' \in {"failed", "closed"},
         UNCHANGED <<server, limit, batch, seen, emitted>>
  PROVE  Outcome!Next
<1>1. Verdict = "open" /\ Verdict' = "abandoned"
  BY DEF Verdict
<1>2. Outcome!End("abandoned")
  BY <1>1 DEF server, Outcome!End, Outcome!document
<1> QED  BY <1>2 DEF Outcome!Next

(* What leaves the abstract scan as it is.                                 *)
LEMMA NothingSeen ==
  ASSUME UNCHANGED <<server, limit, batch, seen, emitted>>, Verdict' = Verdict
  PROVE  UNCHANGED Outcome!vars
BY DEF server, Outcome!vars, Outcome!document, Outcome!reading

LEMMA EmitRowGives ==
  ASSUME ScanInv, NEW entry \in batch, EmitRow(entry)
  PROVE  Outcome!Next
<1>1. /\ UNCHANGED <<server, limit>> /\ batch' = batch \ {entry} /\ emitted' = emitted + 1
      /\ seen' = [seen EXCEPT ![entry.row] = Append(@, entry.version)]
  BY DEF EmitRow
<1>2. Verdict = "open" /\ Verdict' = "open"
  <2>1. pc = "filling" /\ out' # 0
    BY DEF EmitRow, ScanInv, TypeOK
  <2>2. pc' \in {"filling", "idle"}
    BY <2>1 DEF EmitRow, ReturnChunk
  <2> QED  BY <2>1, <2>2 DEF Verdict
<1>3. Outcome!Give(entry)
  BY <1>1, <1>2 DEF server, Outcome!Give, Outcome!document
<1> QED  BY <1>3 DEF Outcome!Next

LEMMA ListRowsReads ==
  ASSUME ScanInv, ListRows
  PROVE  Outcome!Next
<1>1. PICK page \in SUBSET Rows : batch' = VisibleRows(page)
  BY DEF ListRows, Matching
<1> DEFINE S == page \cap alive
<1>2. batch' = {[row |-> r, version |-> changedAt[r]] : r \in S}
  BY <1>1 DEF VisibleRows
<1>3. /\ pc = "fetching" /\ pc' \in {"filling", "fetching"} /\ batch = {}
      /\ UNCHANGED <<server, limit, seen, emitted>>
  BY DEF ListRows, ScanInv, Control
<1>4. Verdict = "open" /\ Verdict' = "open"
  BY <1>3 DEF Verdict
<1>5. ASSUME NEW r \in S, NEW i \in DOMAIN seen[r] PROVE seen[r][i] < changedAt[r]
  <2>1. ScanInv'
    BY ListRowsInv
  <2>2. [row |-> r, version |-> changedAt[r]] \in batch'
    BY <1>2
  <2>3. r \in Rows /\ seen' = seen
    BY <1>3
  <2> DEFINE entry == [row |-> r, version |-> changedAt[r]]
  <2>4. entry \in batch' /\ entry.row = r /\ entry.version = changedAt[r]
    BY <2>2
  <2> HIDE DEF entry
  <2>5. seen'[r][i] < entry.version
    BY <2>1, <2>3, <2>4 DEF ScanInv, Ordered
  <2> QED  BY <2>3, <2>4, <2>5
<1>6. S \subseteq alive /\ S \in SUBSET Rows
  OBVIOUS
<1> HIDE DEF S
<1>7. Outcome!Read(S)
  BY <1>2, <1>3, <1>4, <1>5, <1>6 DEF server, Outcome!Read, Outcome!document
<1> QED  BY <1>6, <1>7 DEF Outcome!Next

LEMMA EditsAreEdits ==
  ASSUME ScanInv, NEW r \in Rows, EditRow(r) \/ DeleteRow(r)
  PROVE  Outcome!Next
<1> DEFINE steady == {s \in InitialRows : removedAt[s] = Never}
<1>1. /\ changedAt' = [changedAt EXCEPT ![r] = clock + 1]
      /\ UNCHANGED <<limit, batch, seen, emitted, pc, rustFinished>>
  BY DEF EditRow, DeleteRow, Touch, handle, cursor, history
<1>2. changedAt'[r] = clock + 1 /\ changedAt'[r] > changedAt[r]
  BY <1>1, ConstantFacts DEF ScanInv, TypeOK, Document, Times
<1>3. Verdict' = Verdict
  BY <1>1 DEF Verdict
<1>4. \/ alive' = alive \cup {r} /\ steady' = steady
      \/ alive' = alive \ {r} /\ steady' = steady \ {r}
  <2>1. CASE EditRow(r)
    BY <2>1 DEF EditRow
  <2>2. CASE DeleteRow(r)
    <3>1. alive' = alive \ {r} /\ removedAt' = [removedAt EXCEPT ![r] = clock + 1]
      BY <2>2 DEF DeleteRow
    <3>2. clock + 1 # Never /\ removedAt \in [Rows -> Times \cup {Never}]
      BY ConstantFacts DEF ScanInv, TypeOK, Times, Never
    <3>3. steady' = steady \ {r}
      BY <3>1, <3>2, ConstantFacts
    <3> QED  BY <3>1, <3>3
  <2> QED  BY <2>1, <2>2
<1>5. Outcome!Edit(r)
  BY <1>1, <1>2, <1>3, <1>4 DEF Outcome!Edit, Outcome!reading
<1> QED  BY <1>5 DEF Outcome!Next

LEMMA StepOutcome ==
  ASSUME ScanInv, LimitMet, [Next]_vars
  PROVE  [Outcome!Next]_(Outcome!vars)
<1>1. CASE CallScan
  <2>1. /\ pc = "idle" /\ UNCHANGED <<server, limit, batch, seen, emitted, rustFinished>>
        /\ pc' = IF finished /\ batch = {} THEN "ended" ELSE "filling"
    BY <1>1 DEF CallScan, BatchSpent, handle, history
  <2>2. CASE finished /\ batch = {}
    BY <2>1, <2>2, EndsWell
  <2>3. CASE ~(finished /\ batch = {})
    <3>1. Verdict' = Verdict
      BY <2>1, <2>3 DEF Verdict
    <3> QED  BY <2>1, <3>1, NothingSeen
  <2> QED  BY <2>2, <2>3
<1>2. CASE NextBatch
  <2>1. /\ pc = "filling" /\ batch = {}
        /\ UNCHANGED <<server, limit, batch, seen, emitted, rustFinished>>
        /\ pc' \in {"ended", "idle", "fetching"} /\ (pc' = "ended" => finished)
    BY <1>2 DEF NextBatch, BatchSpent, ReturnChunk, handle, history
  <2>2. CASE pc' = "ended"
    BY <2>1, <2>2, EndsWell
  <2>3. CASE pc' # "ended"
    <3>1. Verdict' = Verdict
      BY <2>1, <2>3 DEF Verdict
    <3> QED  BY <2>1, <3>1, NothingSeen
  <2> QED  BY <2>2, <2>3
<1>3. CASE ListRows
  BY <1>3, ListRowsReads
<1>4. ASSUME NEW entry \in batch, EmitRow(entry) PROVE Outcome!Next
  BY <1>4, EmitRowGives
<1>5. CASE ListRowsFails
  BY <1>5, Abandoned DEF ListRowsFails, history
<1>6. CASE CloseScan
  BY <1>6, Abandoned DEF CloseScan, history
<1>7. ASSUME NEW r \in Rows, EditRow(r) \/ DeleteRow(r) PROVE Outcome!Next
  BY <1>7, EditsAreEdits
<1>8. CASE UNCHANGED vars
  <2>1. UNCHANGED <<server, limit, batch, seen, emitted, pc, rustFinished>>
    BY <1>8 DEF vars, handle, cursor, history
  <2>2. Verdict' = Verdict
    BY <2>1 DEF Verdict
  <2> QED  BY <2>1, <2>2, NothingSeen
<1> QED  BY <1>1, <1>2, <1>3, <1>4, <1>5, <1>6, <1>7, <1>8 DEF Next, ScanStep

(* The scan implements the safety part of ScanOutcome: what it hands over, *)
(* whatever the paging, are rows as they were, newer ones only, and it     *)
(* does not call complete or enough what is not.                           *)
THEOREM ScanImplementsOutcome == Spec => Outcome!Safety
<1>1. Init => Outcome!Init /\ ScanInv /\ LimitMet
  BY InitOutcome, InitInv
<1>2. ScanInv /\ LimitMet /\ [Next]_vars =>
        ScanInv' /\ LimitMet' /\ [Outcome!Next]_(Outcome!vars)
  BY StepInv, LimitMetStep, StepOutcome
<1> QED  BY <1>1, <1>2, PTL DEF Spec, Outcome!Safety

(***************************************************************************)
(* UpdateScan.                                                             *)
(***************************************************************************)

UpdateInv ==
  /\ ScanInv
  /\ limit = 0
  /\ vector \in [Rows -> Nat] /\ unapplied \in [Rows -> Nat] /\ writes \in [Rows -> Nat]
  /\ \A r \in Rows : writes[r] + vector[r] = Len(seen[r])
  /\ pc \in {"filling", "fetching"} /\ out = 0 => VectorWritten
  /\ pc = "ended" => VectorWritten

LEMMA UpdateInitInv == UpdateInit => UpdateInv
<1> SUFFICES ASSUME UpdateInit PROVE UpdateInv  OBVIOUS
<1>1. ScanInv
  BY InitInv DEF UpdateInit
<1>2. \A r \in Rows : Len(seen[r]) = 0
  BY DEF UpdateInit, Init
<1> QED  BY <1>1, <1>2 DEF UpdateInit, UpdateInv, VectorWritten

(* A step that leaves the vector and what DuckDB has seen alone.           *)
LEMMA ScanSide ==
  ASSUME UpdateInv, ScanInv', UNCHANGED <<limit, seen, vector, writes>>,
         unapplied' \in [Rows -> Nat],
         (pc' \in {"filling", "fetching"} /\ out' = 0) \/ pc' = "ended" => VectorWritten
  PROVE  UpdateInv'
BY DEF UpdateInv, VectorWritten

LEMMA FillVectorInv == UpdateInv /\ FillVector => UpdateInv'
<1> SUFFICES ASSUME UpdateInv, NEW entry \in batch, EmitRow(entry),
                    vector' = [vector EXCEPT ![entry.row] = @ + 1],
                    UNCHANGED <<waits, unapplied, writes>>
             PROVE  UpdateInv'
  BY DEF FillVector
<1>1. ScanInv' /\ limit' = 0
  BY EmitRowInv DEF EmitRow, UpdateInv
<1>2. TypeOK /\ TypeOK' /\ entry.row \in Rows /\ entry.version \in Times
  BY <1>1 DEF UpdateInv, ScanInv, TypeOK, Entries
<1>3. vector \in [Rows -> Nat] /\ vector' \in [Rows -> Nat]
  BY <1>2 DEF UpdateInv
<1>4. ASSUME NEW r \in Rows PROVE writes'[r] + vector'[r] = Len(seen'[r])
  <2>1. seen[r] \in Seq(Times) /\ seen \in [Rows -> Seq(Times)]
    BY <1>2 DEF TypeOK
  <2>2. seen'[r] = IF r = entry.row THEN Append(seen[r], entry.version) ELSE seen[r]
    BY <2>1 DEF EmitRow
  <2>3. Len(seen'[r]) = IF r = entry.row THEN Len(seen[r]) + 1 ELSE Len(seen[r])
    BY <1>2, <2>1, <2>2
  <2>4. vector'[r] = IF r = entry.row THEN vector[r] + 1 ELSE vector[r]
    BY <1>3
  <2>5. writes'[r] = writes[r] /\ writes[r] \in Nat /\ writes[r] + vector[r] = Len(seen[r])
    BY DEF UpdateInv
  <2> QED  BY <1>3, <2>3, <2>4, <2>5
<1>5. out' # 0 /\ pc' # "ended"
  BY <1>2 DEF EmitRow, ReturnChunk, TypeOK
<1> QED  BY <1>1, <1>3, <1>4, <1>5 DEF UpdateInv

LEMMA ScanOnInv == UpdateInv /\ ScanOn => UpdateInv'
<1> SUFFICES ASSUME UpdateInv, ScanOn PROVE UpdateInv'  OBVIOUS
<1> USE DEF UpdateInv
<1>1. Next
  BY DEF ScanOn, Next, ScanStep
<1>2. ScanInv'
  BY <1>1, StepInv
<1>3. UNCHANGED <<limit, seen, vector, unapplied, writes>>
  BY DEF ScanOn, update, CallScan, NextBatch, ListRows, ListRowsFails, history
<1>4. (pc' \in {"filling", "fetching"} /\ out' = 0) \/ pc' = "ended" => VectorWritten
  BY DEF ScanOn, CallScan, NextBatch, ReturnChunk, ListRows, ListRowsFails
<1> QED  BY <1>2, <1>3, <1>4, ScanSide

LEMMA WriteRowInv ==
  ASSUME UpdateInv, NEW r \in Rows, WriteRow(r)
  PROVE  UpdateInv'
<1> USE DEF UpdateInv
<1>1. UNCHANGED vars
  BY DEF WriteRow
<1>2. ScanInv'
  BY <1>1, StepInv
<1>3. UNCHANGED <<limit, seen, pc, out>>
  BY <1>1 DEF vars, cursor, history
<1>4. /\ vector' \in [Rows -> Nat] /\ unapplied' \in [Rows -> Nat] /\ writes' \in [Rows -> Nat]
      /\ \A s \in Rows : writes'[s] + vector'[s] = writes[s] + vector[s]
  <2>1. vector \in [Rows -> Nat] /\ unapplied \in [Rows -> Nat] /\ writes \in [Rows -> Nat]
    OBVIOUS
  <2>2. /\ vector[r] > 0 /\ vector' = [vector EXCEPT ![r] = @ - 1]
        /\ unapplied' = [unapplied EXCEPT ![r] = @ + 1]
        /\ writes' = [writes EXCEPT ![r] = @ + 1]
    BY DEF WriteRow
  <2> HIDE DEF UpdateInv
  <2> QED  BY <2>1, <2>2
<1>5. pc = "idle"
  BY DEF WriteRow
<1> QED  BY <1>2, <1>3, <1>4, <1>5

LEMMA WriteFailsInv == UpdateInv /\ WriteFails => UpdateInv'
<1> SUFFICES ASSUME UpdateInv, WriteFails PROVE UpdateInv'  OBVIOUS
<1> USE DEF UpdateInv, WriteFails
<1>1. TypeOK'
  BY DEF ScanInv, TypeOK, server, handle, history
<1>2. Control'
  BY DEF ScanInv, Control, server, handle, history
<1>3. ScanInv'
  BY <1>1, <1>2, QuietStep DEF handle
<1>4. UNCHANGED <<limit, seen, vector, unapplied, writes>> /\ pc' = "failed"
  BY DEF history, update
<1> QED  BY <1>3, <1>4, ScanSide

(* Edits of the document, the statement's own or anybody else's.           *)
LEMMA DocumentSide ==
  ASSUME UpdateInv, NEW r \in Rows, EditRow(r) \/ DeleteRow(r) \/ UNCHANGED vars,
         UNCHANGED <<vector, writes>>, unapplied' \in [Rows -> Nat]
  PROVE  UpdateInv'
<1> USE DEF UpdateInv
<1>1. ScanInv'
  BY EditInv, StepInv
<1>2. UNCHANGED <<limit, seen, pc, out>>
  BY DEF EditRow, DeleteRow, Touch, vars, cursor, history
<1> QED  BY <1>1, <1>2, ScanSide

LEMMA UpdateStepInv == UpdateInv /\ [UpdateNext]_updateVars => UpdateInv'
<1> SUFFICES ASSUME UpdateInv, [UpdateNext]_updateVars PROVE UpdateInv'  OBVIOUS
<1>1. CASE FillVector
  BY <1>1, FillVectorInv
<1>2. CASE ScanOn
  BY <1>2, ScanOnInv
<1>3. ASSUME NEW r \in Rows, WriteRow(r) PROVE UpdateInv'
  BY <1>3, WriteRowInv
<1>4. CASE WriteFails
  BY <1>4, WriteFailsInv
<1>5. ASSUME NEW r \in Rows, ApplyWrite(r) PROVE UpdateInv'
  <2>1. /\ EditRow(r) \/ UNCHANGED vars
        /\ UNCHANGED <<vector, writes>> /\ unapplied' \in [Rows -> Nat]
    BY <1>5 DEF ApplyWrite, UpdateInv
  <2> QED  BY <2>1, DocumentSide
<1>6. ASSUME NEW r \in Rows, OtherDeletes(r) PROVE UpdateInv'
  BY <1>6, DocumentSide DEF OtherDeletes, update, UpdateInv
<1>7. CASE UNCHANGED updateVars
  <2>1. UNCHANGED vars /\ UNCHANGED <<vector, unapplied, writes>>
    BY <1>7 DEF updateVars, update
  <2>2. ScanInv'
    BY <2>1, StepInv DEF UpdateInv
  <2>3. UNCHANGED <<limit, seen, pc, out>>
    BY <2>1 DEF vars, cursor, history
  <2> QED  BY <2>1, <2>2, <2>3, ScanSide DEF UpdateInv
<1> QED  BY <1>1, <1>2, <1>3, <1>4, <1>5, <1>6, <1>7 DEF UpdateNext, UpdateStep

LEMMA UpdateInvKept == UpdateSpec => []UpdateInv
BY UpdateInitInv, UpdateStepInv, PTL DEF UpdateSpec
-----------------------------------------------------------------------------
LEMMA EveryRowUpdatedNow == UpdateInv => EveryRowUpdated
<1> SUFFICES ASSUME UpdateInv, pc = "ended", NEW r \in InitialRows, removedAt[r] = Never
             PROVE  writes[r] > 0
  BY DEF EveryRowUpdated, Updated
<1>1. r \in Rows /\ seen[r] \in Seq(Times)
  BY ConstantFacts DEF UpdateInv, ScanInv, TypeOK
<1>2. seen[r] # <<>>
  BY NoRowLostNow DEF UpdateInv, NoRowLost, Complete
<1>3. vector[r] = 0 /\ writes[r] \in Nat
  BY <1>1 DEF UpdateInv, VectorWritten
<1>4. Len(seen[r]) \in Nat \ {0}
  BY <1>1, <1>2
<1> QED  BY <1>1, <1>3, <1>4 DEF UpdateInv

(* An UPDATE that runs to its end misses no row that was there throughout, *)
(* although its own writes change the table it is reading.                 *)
THEOREM AllRowsUpdated == UpdateSpec => []EveryRowUpdated
BY UpdateInvKept, EveryRowUpdatedNow, PTL

(* Each pass gives DuckDB a row once.                                      *)
LEMMA SeenTwiceAtMost ==
  ASSUME ScanInv, NEW r \in Rows
  PROVE  /\ Len(seen[r]) \in 0..2
         /\ Len(seen[r]) = 2 => syncCheckDone /\ tokenAt < seen[r][2]
<1>1. seen[r] \in Seq(Times) /\ Len(seen[r]) \in Nat /\ DOMAIN seen[r] = 1..Len(seen[r])
  BY DEF ScanInv, TypeOK
<1>2. /\ \A v \in Times : v \in Nat /\ v > Never
      /\ tokenAt \in Times \cup {Never} /\ Never \in Int
  BY ConstantFacts DEF ScanInv, TypeOK, Times, Never
<1>3. \A i \in DOMAIN seen[r] : seen[r][i] \in Times /\ Held(r, seen[r][i])
  BY HeldIsVersion DEF ScanInv
<1>4. \A i, j \in DOMAIN seen[r] : i < j =>
        /\ seen[r][i] <= tokenAt /\ tokenAt < seen[r][j]
        /\ syncCheckDone
  <2> SUFFICES ASSUME NEW i \in DOMAIN seen[r], NEW j \in DOMAIN seen[r], i < j
               PROVE  seen[r][i] <= tokenAt /\ tokenAt < seen[r][j] /\ syncCheckDone
    OBVIOUS
  <2>1. seen[r][i] < seen[r][j]
    BY DEF ScanInv, Ordered
  <2>2. ~(seen[r][i] > tokenAt <=> seen[r][j] > tokenAt)
    BY <1>2, <1>3, <2>1 DEF ScanInv, OncePerPass
  <2>3. seen[r][i] <= tokenAt /\ tokenAt < seen[r][j] /\ tokenAt # Never
    BY <1>2, <1>3, <2>1, <2>2
  <2> QED  BY <1>3, <2>3 DEF ScanInv, OncePerPass
<1>5. ~(Len(seen[r]) > 2)
  <2> SUFFICES ASSUME Len(seen[r]) > 2 PROVE FALSE  OBVIOUS
  <2>1. 1 \in DOMAIN seen[r] /\ 2 \in DOMAIN seen[r] /\ 3 \in DOMAIN seen[r]
    BY <1>1
  <2>2. tokenAt < seen[r][2] /\ seen[r][2] <= tokenAt
    BY <1>4, <2>1
  <2> QED  BY <1>2, <1>3, <2>1, <2>2
<1>6. Len(seen[r]) = 2 => syncCheckDone /\ tokenAt < seen[r][2]
  BY <1>1, <1>4
<1>7. Len(seen[r]) \in 0..2
  <2> DEFINE n == Len(seen[r])
  <2>1. n \in Nat /\ ~(n > 2)
    BY <1>1, <1>5
  <2> HIDE DEF n
  <2>2. n \in 0..2
    BY <2>1
  <2> QED  BY <2>2 DEF n
<1> QED  BY <1>6, <1>7

LEMMA RewrittenNow == UpdateInv => RewrittenBySyncCheckOnly
<1> SUFFICES ASSUME UpdateInv, NEW r \in Rows
             PROVE  /\ writes[r] <= 2
                    /\ writes[r] = 2 => syncCheckDone /\ Len(seen[r]) = 2 /\ tokenAt < seen[r][2]
  BY DEF RewrittenBySyncCheckOnly
<1>1. writes[r] \in Nat /\ vector[r] \in Nat /\ writes[r] + vector[r] = Len(seen[r])
  BY DEF UpdateInv
<1>2. /\ Len(seen[r]) \in 0..2
      /\ Len(seen[r]) = 2 => syncCheckDone /\ tokenAt < seen[r][2]
  BY SeenTwiceAtMost DEF UpdateInv
<1>3. writes[r] <= 2 /\ (writes[r] = 2 => Len(seen[r]) = 2)
  <2> DEFINE n == Len(seen[r])
             w == writes[r]
             v == vector[r]
  <2>1. w \in Nat /\ v \in Nat /\ w + v = n /\ n \in 0..2
    BY <1>1, <1>2
  <2> HIDE DEF n, w, v
  <2>2. w <= 2 /\ (w = 2 => n = 2)
    BY <2>1
  <2> QED  BY <2>2 DEF n, w
<1> QED  BY <1>2, <1>3

(* The statement's own writes come back to it through the one sync check   *)
(* and not otherwise: no row is written three times, whatever the sizes.   *)
THEOREM RewritesBounded == UpdateSpec => []RewrittenBySyncCheckOnly
BY UpdateInvKept, RewrittenNow, PTL
-----------------------------------------------------------------------------
(* An UPDATE is given what ScanOutcome promises to any query, although the *)
(* edits it must put up with are its own: its writes are edits, and a      *)
(* write that fails ends the scan.                                         *)
THEOREM UpdateReadsOutcome == UpdateSpec => Outcome!Safety
<1>1. UpdateInit => Outcome!Init
  BY InitOutcome DEF UpdateInit
<1>2. UpdateInv /\ [UpdateNext]_updateVars => [Outcome!Next]_(Outcome!vars)
  <2> SUFFICES ASSUME UpdateInv, [UpdateNext]_updateVars PROVE [Outcome!Next]_(Outcome!vars)
    OBVIOUS
  <2>1. ScanInv /\ LimitMet
    BY DEF UpdateInv, LimitMet
  <2>2. ASSUME [Next]_vars PROVE [Outcome!Next]_(Outcome!vars)
    BY <2>1, <2>2, StepOutcome
  <2>3. CASE FillVector
    <3>1. \E entry \in batch : EmitRow(entry)
      BY <2>3 DEF FillVector
    <3> QED  BY <2>2, <3>1 DEF Next, ScanStep
  <2>4. CASE ScanOn
    BY <2>2, <2>4 DEF ScanOn, Next, ScanStep
  <2>5. CASE WriteFails
    <3>1. pc \in {"idle", "filling", "fetching"} /\ pc' \in {"failed", "closed"}
          /\ UNCHANGED <<server, limit, batch, seen, emitted>>
      BY <2>5 DEF WriteFails, InSink, history
    <3> QED  BY <3>1, Abandoned
  <2>6. ASSUME NEW r \in Rows, WriteRow(r) \/ ApplyWrite(r) \/ OtherDeletes(r)
        PROVE  [Outcome!Next]_(Outcome!vars)
    <3>1. EditRow(r) \/ DeleteRow(r) \/ UNCHANGED vars
      BY <2>6 DEF WriteRow, ApplyWrite, OtherDeletes
    <3> QED  BY <2>2, <3>1 DEF Next
  <2>7. CASE UNCHANGED updateVars
    BY <2>2, <2>7 DEF updateVars
  <2> QED  BY <2>3, <2>4, <2>5, <2>6, <2>7 DEF UpdateNext, UpdateStep
<1> QED  BY <1>1, <1>2, UpdateInvKept, PTL DEF UpdateSpec, Outcome!Safety
=============================================================================
