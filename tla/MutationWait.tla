---------------------------- MODULE MutationWait ----------------------------
(***************************************************************************)
(* wait_for_mutation and poll_mutation_status (src/src/mutation/status.rs) *)
(* from the moment the API has accepted a write: the client asks for the   *)
(* write's status until it is completed, refused or out of time, while the *)
(* document completes the write whenever it likes.  Time is counted in     *)
(* ticks since `started`, the Instant taken when polling begins.           *)
(***************************************************************************)
EXTENDS Integers

CONSTANTS
  Timeouts,        \* the values of MUTATION_TIMEOUT_SECONDS
  PollInterval,    \* MUTATION_POLL_INTERVAL
  RequestTimeout,  \* REQUEST_TIMEOUT of the HTTP transport
  MaxOversleep     \* how late a timer may fire

ASSUME WaitAssumption ==
  /\ Timeouts \subseteq Nat \ {0}
  /\ PollInterval \in Nat \ {0}
  /\ RequestTimeout \in Nat \ {0}
  /\ MaxOversleep \in Nat

VARIABLES
  config,       \* the options fixed by ATTACH
  remote,       \* the write, as the status endpoint sees it
  pc,           \* where the client is
  reply,        \* the answer to the outstanding status request, if any
  elapsed,      \* started.elapsed()
  sentAt,       \* when the last status request was sent
  wakeAt,       \* when the current sleep is due to end
  outcome,      \* the Result of wait_for_mutation
  polls,        \* history: number of status requests sent
  completedAt   \* history: when the write completed

client == <<pc, sentAt, wakeAt, outcome, polls>>
document == <<remote, completedAt>>
vars == <<config, document, client, reply, elapsed>>

Completed == {"clean", "warned"}
(* "unseen": the endpoint still answers 404 for this requestId.            *)
RemoteStates == {"unseen", "pending"} \cup Completed
(* Not completed; the status of a pending write may have a warning by then *)
(* ("pendingWarned"), the 404 of an unseen one has none.                   *)
Incomplete == {"unseen", "pending", "pendingWarned"}
(* "unusable": any other HTTP error, or a body mutation_status rejects.    *)
Replies == {"none", "unusable"} \cup Incomplete \cup Completed
Outcomes == {"none", "ok", "warning", "timeout", "check_failed", "bad_response"}
Never == -1

Configs == {c \in [wait : BOOLEAN, allowWarnings : BOOLEAN, timeout : Timeouts] :
              c.allowWarnings => c.wait}

TypeOK ==
  /\ config \in Configs
  /\ remote \in RemoteStates
  /\ pc \in {"accepted", "fetching", "sleeping", "done"}
  /\ reply \in Replies
  /\ elapsed \in Nat
  /\ sentAt \in Nat
  /\ wakeAt \in Nat
  /\ outcome \in Outcomes
  /\ polls \in Nat
  /\ completedAt \in Nat \cup {Never}

LowerOf(a, b) == IF a <= b THEN a ELSE b
HigherOf(a, b) == IF a <= b THEN b ELSE a

Init ==
  /\ config \in Configs
  /\ remote \in RemoteStates
  /\ completedAt = IF remote \in Completed THEN 0 ELSE Never
  /\ pc = "accepted"
  /\ reply = "none"
  /\ elapsed = 0
  /\ sentAt = 0
  /\ wakeAt = 0
  /\ outcome = "none"
  /\ polls = 0
-----------------------------------------------------------------------------
(* The document and the clock.                                             *)

(* The document makes progress: the write becomes visible, then completes. *)
RemoteProgress ==
  /\ \/ remote = "unseen" /\ remote' \in {"pending"} \cup Completed
     \/ remote = "pending" /\ remote' \in Completed
  /\ completedAt' = IF remote' \in Completed THEN elapsed ELSE Never
  /\ UNCHANGED <<config, client, reply, elapsed>>

(* What the status endpoint may say of a write in this state.              *)
Answers(state) ==
  {state, "unusable"} \cup (IF state = "pending" THEN {"pendingWarned"} ELSE {})

(* The status endpoint answers the outstanding request with what it knows  *)
(* at that instant; the client reads the answer later.                     *)
ServerAnswers ==
  /\ pc = "fetching"
  /\ reply = "none"
  /\ reply' \in Answers(remote)
  /\ UNCHANGED <<config, document, client, elapsed>>

(* Time passes while the client awaits a response or a timer.              *)
Tick ==
  /\ \/ pc = "fetching" /\ elapsed < sentAt + RequestTimeout
     \/ pc = "sleeping" /\ elapsed < wakeAt + MaxOversleep
  /\ elapsed' = elapsed + 1
  /\ UNCHANGED <<config, document, client, reply>>
-----------------------------------------------------------------------------
(* The client.                                                             *)

(* Mutant: > for >=.                                                       *)
DeadlineOverrun == elapsed > config.timeout

DeadlinePassed == elapsed >= config.timeout

Finish(result) ==
  /\ pc' = "done"
  /\ outcome' = result
  /\ reply' = "none"
  /\ UNCHANGED <<config, document, elapsed, sentAt, wakeAt, polls>>

SendStatusRequest ==
  /\ pc' = "fetching"
  /\ sentAt' = elapsed
  /\ polls' = polls + 1
  /\ reply' = "none"
  /\ UNCHANGED <<config, document, elapsed, wakeAt, outcome>>

(* Mutant: sleep the rest of the time-out away.                            *)
SleepToDeadline == config.timeout - elapsed

(* min(MUTATION_POLL_INTERVAL, timeout - elapsed)                          *)
SleepSpan == LowerOf(PollInterval, config.timeout - elapsed)

(* Without WAIT_FOR_MUTATIONS an accepted write is a successful one.       *)
SkipWait ==
  /\ pc = "accepted"
  /\ ~config.wait
  /\ Finish("ok")

(* Mutant: a missing requestId means there is nothing to wait for.         *)
AcceptWriteResponse ==
  /\ pc = "accepted"
  /\ config.wait
  /\ Finish("ok")

(* The write response is not JSON, or has no usable requestId.             *)
RejectWriteResponse ==
  /\ pc = "accepted"
  /\ config.wait
  /\ Finish("bad_response")

(* The first check is made whatever the deadline.                          *)
StartPolling ==
  /\ pc = "accepted"
  /\ config.wait
  /\ SendStatusRequest

(* Connection errors, at any time.                                         *)
RequestFails ==
  /\ pc = "fetching"
  /\ Finish("check_failed")

(* Mutant: a client built without a request time-out.                      *)
RequestHangs ==
  /\ FALSE
  /\ UNCHANGED vars

(* reqwest gives a request up after REQUEST_TIMEOUT.                       *)
RequestTimesOut ==
  /\ pc = "fetching"
  /\ elapsed >= sentAt + RequestTimeout
  /\ Finish("check_failed")

ReceiveUnusable ==
  /\ pc = "fetching"
  /\ reply = "unusable"
  /\ Finish("check_failed")

(* Mutant: the warning is not looked at.                                   *)
ReceiveCompletedUnread ==
  /\ pc = "fetching"
  /\ reply \in Completed
  /\ Finish("ok")

(* Mutant: the document's word is passed on instead of a verdict.          *)
ReceiveCompletedRaw ==
  /\ pc = "fetching"
  /\ reply \in Completed
  /\ Finish(reply)

(* completed: true                                                         *)
ReceiveCompleted ==
  /\ pc = "fetching"
  /\ reply \in Completed
  /\ Finish(IF reply = "warned" /\ ~config.allowWarnings THEN "warning" ELSE "ok")

SleepOrGiveUp ==
  \/ /\ DeadlinePassed
     /\ Finish("timeout")
  \/ /\ ~DeadlinePassed
     /\ pc' = "sleeping"
     /\ wakeAt' = elapsed + SleepSpan
     /\ reply' = "none"
     /\ UNCHANGED <<config, document, elapsed, sentAt, outcome, polls>>

(* Mutant: the warning is looked at before `completed` is.                 *)
ReceiveWarningFirst ==
  /\ pc = "fetching"
  /\ reply \in Incomplete
  /\ IF reply = "pendingWarned" /\ ~config.allowWarnings
     THEN Finish("warning")
     ELSE SleepOrGiveUp

(* completed: false, whatever its warning says, or the 404 that stands for *)
(* it.                                                                     *)
ReceivePending ==
  /\ pc = "fetching"
  /\ reply \in Incomplete
  /\ SleepOrGiveUp

(* Mutant: the deadline is not read again after the sleep.                 *)
WakeUnchecked ==
  /\ pc = "sleeping"
  /\ elapsed >= wakeAt
  /\ SendStatusRequest

(* The timer has fired: the deadline is read again before another request. *)
Wake ==
  /\ pc = "sleeping"
  /\ elapsed >= wakeAt
  /\ \/ DeadlinePassed /\ Finish("timeout")
     \/ ~DeadlinePassed /\ SendStatusRequest

ClientStep ==
  \/ SkipWait \/ RejectWriteResponse \/ StartPolling
  \/ RequestTimesOut \/ ReceiveUnusable \/ ReceiveCompleted \/ ReceivePending
  \/ Wake

Next == ClientStep \/ RequestFails \/ RemoteProgress \/ ServerAnswers \/ Tick

(* The runtime polls the future whenever it is ready and time passes; the  *)
(* document and the server owe nothing.                                    *)
Spec == Init /\ [][Next]_vars /\ WF_vars(ClientStep) /\ WF_vars(Tick)
-----------------------------------------------------------------------------
(* A verdict about the document is never wrong: a wait that returns Ok     *)
(* means the write completed, without a warning unless warnings are        *)
(* allowed, and a warning error means it completed with one: the warning   *)
(* of a write that is still pending is no verdict (the code's order of the *)
(* completed and warning checks, and the 404 default).                     *)
VerdictMatchesDocument ==
  config.wait =>
    /\ outcome = "ok" => remote \in Completed
    /\ outcome = "ok" /\ remote = "warned" => config.allowWarnings
    /\ outcome = "warning" => remote = "warned" /\ ~config.allowWarnings

(* "did not complete within N seconds" is only said at the deadline, and   *)
(* of a write that was still incomplete one request, one poll interval and *)
(* one late timer before it: a completion earlier than that is always      *)
(* noticed.                                                                *)
TimeoutIsHonest ==
  outcome = "timeout" =>
    /\ elapsed >= config.timeout
    /\ completedAt # Never =>
         completedAt + RequestTimeout + PollInterval + MaxOversleep >= config.timeout

(* The statement is never held up longer than the timeout plus one request *)
(* sent just before it, or plus one late timer.                            *)
BoundedWait ==
  elapsed <= config.timeout + HigherOf(RequestTimeout - 1, MaxOversleep)

(* The status endpoint is asked at most once per poll interval: the last,  *)
(* clipped, sleep is never followed by another request.                    *)
PollsAreSpaced ==
  polls > 0 => (polls - 1) * PollInterval <= sentAt

-----------------------------------------------------------------------------
(* The polling loop implements MutationOutcome.                            *)
Outcome == INSTANCE MutationOutcome WITH
  policy <- [wait |-> config.wait, allowWarnings |-> config.allowWarnings],
  effect <- IF remote \in Completed THEN remote ELSE "open",
  verdict <- IF outcome \in {"none", "ok", "warning"} THEN outcome ELSE "unknown"

(* Every verdict is announced once and is supported by what the document   *)
(* had done by then; an announcement always comes.                         *)
ImplementsOutcome == Outcome!Spec
=============================================================================
