-------------------------- MODULE MutationOutcome --------------------------
(***************************************************************************)
(* What the extension promises a DuckDB statement about one remote write   *)
(* whose request the API has already accepted: the document decides what   *)
(* becomes of the write, the client announces exactly one verdict, and     *)
(* only an unknown verdict may be announced without the document's having  *)
(* decided.  MutationWait, the polling loop of src/src/mutation/status.rs, *)
(* is shown to implement this specification.                               *)
(***************************************************************************)

VARIABLES
  policy,   \* the attachment's options: [wait, allowWarnings]
  effect,   \* what the document has made of the write so far
  verdict   \* what the client has announced to the statement

vars == <<policy, effect, verdict>>

Effects == {"open", "clean", "warned"}

(* "none": no verdict yet; "ok": the write is reported as a success;       *)
(* "warning": refused because it completed with a warning; "unknown":      *)
(* time-out, failed status check or unusable write response.               *)
Verdicts == {"none", "ok", "warning", "unknown"}

(* A policy the ATTACH options can produce: warnings are only configurable *)
(* together with waiting.                                                  *)
Policies == {p \in [wait : BOOLEAN, allowWarnings : BOOLEAN] :
               p.allowWarnings => p.wait}

TypeOK ==
  /\ policy \in Policies
  /\ effect \in Effects
  /\ verdict \in Verdicts

(* The effects under which the verdict v may be announced.                 *)
Supports(p, e, v) ==
  \/ v = "ok" /\ (~p.wait \/ e = "clean" \/ (e = "warned" /\ p.allowWarnings))
  \/ v = "warning" /\ p.wait /\ e = "warned" /\ ~p.allowWarnings
  \/ v = "unknown" /\ p.wait

Init ==
  /\ policy \in Policies
  /\ effect \in Effects
  /\ verdict = "none"

(* The document finishes the write, possibly after the client gave up.     *)
Settle ==
  /\ effect = "open"
  /\ effect' \in {"clean", "warned"}
  /\ UNCHANGED <<policy, verdict>>

Announce ==
  /\ verdict = "none"
  /\ verdict' \in {v \in Verdicts : Supports(policy, effect, v)}
  /\ UNCHANGED <<policy, effect>>

Next == Settle \/ Announce

(* Safety and, separately, the promise that a verdict comes at all.        *)
Safety == Init /\ [][Next]_vars
Spec == Safety /\ WF_vars(Announce)
=============================================================================
