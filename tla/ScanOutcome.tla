---------------------------- MODULE ScanOutcome ----------------------------
(***************************************************************************)
(* What a scan promises the query it reads a table for, while others edit  *)
(* the table: every row it hands over had this version at a moment of the  *)
(* scan, never one it had before what was handed over already, and the     *)
(* scan ends as complete only with every row that was there all along, or  *)
(* with as many rows as the LIMIT wants.  How the listing is cut into      *)
(* pages, and that it has two passes, is nobody's concern here.  TableScan *)
(* is shown to implement this specification.                               *)
(***************************************************************************)
EXTENDS Integers, Sequences

CONSTANTS
  Rows,         \* row keys
  InitialRows   \* the rows that exist when the scan starts

VARIABLES
  present,   \* the rows that exist
  version,   \* per row, the version it has, or had last
  steady,    \* the rows that have existed since the scan started
  wanted,    \* a LIMIT, 0 for none
  held,      \* what has been read and not handed over yet
  given,     \* per row, the versions handed over, in order
  count,     \* the number of rows handed over
  verdict    \* how the scan ended, "open" as long as it has not

document == <<present, version, steady>>
reading == <<wanted, held, given, count, verdict>>
vars == <<document, reading>>

Init ==
  /\ present = InitialRows
  /\ version = [r \in Rows |-> 0]
  /\ steady = InitialRows
  /\ wanted \in Nat
  /\ held = {}
  /\ given = [r \in Rows |-> <<>>]
  /\ count = 0
  /\ verdict = "open"

(* Others add, change or delete a row, which gets a later version.         *)
Edit(r) ==
  /\ version'[r] > version[r]
  /\ version' = [version EXCEPT ![r] = version'[r]]
  /\ \/ present' = present \cup {r} /\ steady' = steady
     \/ present' = present \ {r} /\ steady' = steady \ {r}
  /\ UNCHANGED reading

(* Rows are read as they are, unless they were handed over as they are.    *)
Read(S) ==
  /\ verdict = "open" /\ held = {}
  /\ S \subseteq present
  /\ \A r \in S : \A i \in DOMAIN given[r] : given[r][i] < version[r]
  /\ held' = {[row |-> r, version |-> version[r]] : r \in S}
  /\ UNCHANGED <<document, wanted, given, count, verdict>>

Give(entry) ==
  /\ verdict = "open" /\ entry \in held
  /\ held' = held \ {entry}
  /\ given' = [given EXCEPT ![entry.row] = Append(@, entry.version)]
  /\ count' = count + 1
  /\ UNCHANGED <<document, wanted, verdict>>

(* The scan ends: with all rows, with enough of them, or with an error or  *)
(* because the query does not want any more.                               *)
End(v) ==
  /\ verdict = "open" /\ verdict' = v
  /\ v = "complete" => held = {} /\ \A r \in steady : given[r] # <<>>
  /\ v = "enough" => wanted > 0 /\ count >= wanted
  /\ UNCHANGED <<document, wanted, held, given, count>>

Next ==
  \/ \E r \in Rows : Edit(r)
  \/ \E S \in SUBSET Rows : Read(S)
  \/ \E entry \in held : Give(entry)
  \/ \E v \in {"complete", "enough", "abandoned"} : End(v)

(* Safety and, separately, the promise that a scan ends.                   *)
Safety == Init /\ [][Next]_vars
Spec == Safety /\ <>(verdict # "open")
=============================================================================
