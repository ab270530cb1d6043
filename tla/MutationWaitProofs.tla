-------------------------- MODULE MutationWaitProofs -------------------------
(***************************************************************************)
(* Proofs about the polling loop of MutationWait, for every set of         *)
(* timeouts and every value of the poll interval, the request time-out and *)
(* the lateness of timers.                                                 *)
(***************************************************************************)
EXTENDS MutationWait, TLAPS

(* What an answer, a clock reading and a wake-up time still say about the  *)
(* document and the deadline when the client gets to act on them.          *)
ReplyInv ==
  /\ reply \in Completed => remote = reply
  /\ completedAt # Never <=> remote \in Completed
  /\ completedAt <= elapsed

ClockInv ==
  /\ pc = "accepted" => elapsed = 0 /\ polls = 0
  /\ pc = "fetching" =>
       sentAt < config.timeout /\ elapsed <= sentAt + RequestTimeout
  /\ pc = "sleeping" =>
       /\ wakeAt <= config.timeout
       /\ elapsed <= wakeAt + MaxOversleep
       /\ wakeAt <= sentAt + RequestTimeout + PollInterval
  /\ sentAt <= elapsed

(* An answer that was not "completed" bounds the completion from below.    *)
StaleInv ==
  (pc = "sleeping" \/ (pc = "fetching" /\ reply \in Incomplete)) =>
    (completedAt # Never => completedAt >= sentAt)

(* A sleep that is not clipped by the deadline lasts a whole interval.     *)
PollInv ==
  /\ pc = "sleeping" => polls > 0 /\ (wakeAt = config.timeout \/ polls * PollInterval <= wakeAt)
  /\ pc = "fetching" => polls > 0
  /\ PollsAreSpaced

(* A verdict is announced exactly when the wait is over.                   *)
VerdictInv ==
  /\ VerdictMatchesDocument
  /\ (pc = "done") <=> (outcome # "none")
  /\ (outcome \notin {"none", "ok"}) => config.wait
  /\ pc \in {"fetching", "sleeping"} => config.wait

(* The inductive invariant behind the properties of the loop.              *)
WaitInv ==
  /\ ReplyInv
  /\ ClockInv
  /\ StaleInv
  /\ PollInv
  /\ VerdictInv
  /\ BoundedWait
  /\ TimeoutIsHonest

(* Lemmas about the arithmetic of the deadline.                            *)
LEMMA SleepSpanBounds ==
  ASSUME WaitAssumption, TypeOK, ~DeadlinePassed
  PROVE  /\ SleepSpan \in Nat
         /\ SleepSpan <= PollInterval
         /\ elapsed + SleepSpan <= config.timeout
<1>1. config.timeout \in Nat /\ elapsed \in Nat /\ PollInterval \in Nat
  BY DEF WaitAssumption, TypeOK, Configs
<1>2. elapsed < config.timeout
  BY <1>1 DEF DeadlinePassed
<1>3. QED
  BY <1>1, <1>2 DEF SleepSpan, LowerOf

(* TypeOK is inductive: every handler assigns values of the right kind.    *)
THEOREM TypeCorrect == Spec => []TypeOK
<1>1. Init => TypeOK
  BY DEF Init, TypeOK, RemoteStates, Completed, Incomplete, Replies, Outcomes, Configs, Never
<1>2. TypeOK /\ [Next]_vars => TypeOK'
  <2> SUFFICES ASSUME TypeOK, [Next]_vars PROVE TypeOK'
    OBVIOUS
  <2> USE WaitAssumption DEF TypeOK, RemoteStates, Completed, Incomplete, Replies, Outcomes
  <2>1. CASE SkipWait
    BY <2>1 DEF SkipWait, Finish, document
  <2>2. CASE RejectWriteResponse
    BY <2>2 DEF RejectWriteResponse, Finish, document
  <2>3. CASE StartPolling
    BY <2>3 DEF StartPolling, SendStatusRequest, document
  <2>4. CASE RequestTimesOut
    BY <2>4 DEF RequestTimesOut, Finish, document
  <2>5. CASE ReceiveUnusable
    BY <2>5 DEF ReceiveUnusable, Finish, document
  <2>6. CASE ReceiveCompleted
    BY <2>6 DEF ReceiveCompleted, Finish, document
  <2>7. CASE ReceivePending
    <3>1. CASE DeadlinePassed /\ Finish("timeout")
      BY <2>7, <3>1 DEF Finish, document
    <3>2. CASE ~DeadlinePassed /\ wakeAt' = elapsed + SleepSpan
                /\ pc' = "sleeping" /\ reply' = "none"
                /\ UNCHANGED <<config, document, elapsed, sentAt, outcome, polls>>
      BY <3>2, SleepSpanBounds DEF document
    <3>3. QED
      BY <2>7, <3>1, <3>2 DEF ReceivePending, SleepOrGiveUp
  <2>8. CASE Wake
    <3>1. CASE Finish("timeout")
      BY <3>1 DEF Finish, document
    <3>2. CASE SendStatusRequest
      BY <3>2 DEF SendStatusRequest, document
    <3>3. QED
      BY <2>8, <3>1, <3>2 DEF Wake
  <2>9. CASE RequestFails
    BY <2>9 DEF RequestFails, Finish, document
  <2>10. CASE RemoteProgress
    BY <2>10 DEF RemoteProgress, client
  <2>11. CASE ServerAnswers
    BY <2>11 DEF ServerAnswers, Answers, client, document
  <2>12. CASE Tick
    BY <2>12 DEF Tick, client, document
  <2>13. CASE UNCHANGED vars
    BY <2>13 DEF vars, client, document
  <2>14. QED
    BY <2>1, <2>2, <2>3, <2>4, <2>5, <2>6, <2>7, <2>8, <2>9, <2>10, <2>11,
       <2>12, <2>13 DEF Next, ClientStep
<1>3. QED
  BY <1>1, <1>2, PTL DEF Spec

-----------------------------------------------------------------------------
(* Nothing has been sent, and no time has passed, when the wait starts.    *)
LEMMA InitWaitInv == Init => WaitInv
<1> SUFFICES ASSUME Init PROVE WaitInv
  OBVIOUS
<1>1. config.timeout \in Nat /\ RequestTimeout \in Nat \ {0} /\ MaxOversleep \in Nat
  BY WaitAssumption DEF Init, Configs, WaitAssumption
<1>2. ReplyInv
  BY DEF Init, ReplyInv, Completed, RemoteStates, Never
<1>3. ClockInv /\ StaleInv /\ PollInv
  BY DEF Init, ClockInv, StaleInv, PollInv, PollsAreSpaced
<1>4. VerdictInv /\ TimeoutIsHonest
  BY DEF Init, VerdictInv, VerdictMatchesDocument, TimeoutIsHonest
<1>5. BoundedWait
  BY <1>1 DEF Init, BoundedWait, HigherOf
<1>6. QED
  BY <1>2, <1>3, <1>4, <1>5 DEF WaitInv

(* Ending the wait keeps everything that was known about the document; the *)
(* caller supplies what justifies the verdict.                             *)
LEMMA FinishKeepsInv ==
  ASSUME NEW result \in Outcomes \ {"none"},
         TypeOK, WaitInv, Finish(result),
         result # "ok" => config.wait,
         config.wait /\ result = "ok" =>
           remote \in Completed /\ (remote = "warned" => config.allowWarnings),
         config.wait /\ result = "warning" => remote = "warned" /\ ~config.allowWarnings,
         result = "timeout" => 
           /\ elapsed >= config.timeout
           /\ completedAt # Never =>
                completedAt + RequestTimeout + PollInterval + MaxOversleep >= config.timeout
  PROVE  WaitInv'
<1> USE DEF Finish, document
<1>1. ReplyInv'
  BY DEF WaitInv, ReplyInv, Completed
<1>2. ClockInv' /\ StaleInv' /\ BoundedWait'
  BY DEF WaitInv, ClockInv, StaleInv, BoundedWait, HigherOf
<1>3. PollInv'
  BY DEF WaitInv, PollInv, PollsAreSpaced
<1>4. VerdictInv'
  BY DEF WaitInv, VerdictInv, VerdictMatchesDocument, Completed
<1>5. TimeoutIsHonest'
  BY DEF TimeoutIsHonest
<1>6. QED
  BY <1>1, <1>2, <1>3, <1>4, <1>5 DEF WaitInv

(* A status request is only sent at the start or strictly before the       *)
(* deadline, a whole poll interval after the one before.                   *)
LEMMA SendKeepsInv ==
  ASSUME TypeOK, WaitInv, SendStatusRequest, config.wait, outcome = "none",
         elapsed < config.timeout,
         polls * PollInterval <= elapsed
  PROVE  WaitInv'
<1> USE DEF SendStatusRequest, document
<1>0. /\ elapsed \in Nat /\ polls \in Nat /\ PollInterval \in Nat
      /\ RequestTimeout \in Nat \ {0} /\ config.timeout \in Nat
      /\ MaxOversleep \in Nat
  BY WaitAssumption DEF TypeOK, Configs, WaitAssumption
<1>1. ReplyInv'
  BY DEF WaitInv, ReplyInv, Completed
<1>2. ClockInv' /\ StaleInv' /\ BoundedWait'
  BY <1>0 DEF Incomplete, WaitInv, ClockInv, StaleInv, BoundedWait, HigherOf
<1>3. PollInv'
  <2>1. polls' - 1 = polls
    BY <1>0
  <2>2. PollsAreSpaced'
    BY <2>1 DEF PollsAreSpaced
  <2>3. QED
    BY <1>0, <2>2 DEF PollInv
<1>4. VerdictInv' /\ TimeoutIsHonest'
  BY DEF WaitInv, VerdictInv, VerdictMatchesDocument, TimeoutIsHonest
<1>5. QED
  BY <1>1, <1>2, <1>3, <1>4 DEF WaitInv

(* Every handler of the poller, and every step of the document, keeps it.  *)
LEMMA WaitInvStep == TypeOK /\ WaitInv /\ [Next]_vars => WaitInv'
<1> SUFFICES ASSUME TypeOK, WaitInv, [Next]_vars PROVE WaitInv'
  OBVIOUS
<1>0. /\ elapsed \in Nat /\ polls \in Nat /\ PollInterval \in Nat \ {0}
      /\ sentAt \in Nat /\ wakeAt \in Nat
      /\ RequestTimeout \in Nat \ {0} /\ config.timeout \in Nat \ {0}
      /\ MaxOversleep \in Nat /\ completedAt \in Nat \cup {-1}
  BY WaitAssumption DEF TypeOK, Configs, WaitAssumption, Never
<1>1. CASE SkipWait
  <2>1. ~config.wait /\ Finish("ok")
    BY <1>1 DEF SkipWait
  <2>2. QED
    BY <2>1, FinishKeepsInv DEF Outcomes
<1>2. CASE RejectWriteResponse
  <2>1. config.wait /\ Finish("bad_response")
    BY <1>2 DEF RejectWriteResponse
  <2>2. QED
    BY <2>1, FinishKeepsInv DEF Outcomes
<1>3. CASE StartPolling
  <2>1. config.wait /\ SendStatusRequest
    BY <1>3 DEF StartPolling
  <2>2. elapsed = 0 /\ polls = 0 /\ outcome = "none"
    BY <1>3 DEF StartPolling, WaitInv, ClockInv, VerdictInv
  <2>3. elapsed < config.timeout /\ polls * PollInterval <= elapsed
    BY <1>0, <2>2
  <2>4. QED
    BY <2>1, <2>2, <2>3, SendKeepsInv
<1>4. CASE RequestTimesOut \/ ReceiveUnusable \/ RequestFails
  <2>1. pc = "fetching" /\ Finish("check_failed")
    BY <1>4 DEF RequestTimesOut, ReceiveUnusable, RequestFails
  <2>2. config.wait
    BY <2>1 DEF WaitInv, VerdictInv
  <2>3. QED
    BY <2>1, <2>2, FinishKeepsInv DEF Outcomes
<1>5. CASE ReceiveCompleted
  <2>1. config.wait /\ reply = remote /\ remote \in Completed
    BY <1>5 DEF ReceiveCompleted, WaitInv, ReplyInv, VerdictInv
  <2>2. CASE reply = "warned" /\ ~config.allowWarnings
    <3>1. Finish("warning")
      BY <1>5, <2>2 DEF ReceiveCompleted
    <3>2. QED
      BY <2>1, <2>2, <3>1, FinishKeepsInv DEF Outcomes
  <2>3. CASE ~(reply = "warned" /\ ~config.allowWarnings)
    <3>1. Finish("ok")
      BY <1>5, <2>3 DEF ReceiveCompleted
    <3>2. config.allowWarnings \in BOOLEAN
      BY DEF TypeOK, Configs
    <3>3. remote = "warned" => config.allowWarnings
      BY <2>1, <2>3, <3>2
    <3>4. QED
      BY <2>1, <3>1, <3>3, FinishKeepsInv DEF Outcomes
  <2>4. QED
    BY <2>2, <2>3
<1>6. CASE ReceivePending
  <2>1. pc = "fetching" /\ reply \in Incomplete /\ config.wait
    BY <1>6 DEF ReceivePending, SleepOrGiveUp, WaitInv, VerdictInv
  <2>2. /\ completedAt # Never => completedAt >= sentAt
        /\ elapsed <= sentAt + RequestTimeout
        /\ sentAt <= elapsed
    BY <2>1 DEF WaitInv, StaleInv, ClockInv
  <2>3. CASE DeadlinePassed /\ Finish("timeout")
    <3>1. elapsed >= config.timeout
      BY <2>3 DEF DeadlinePassed
    <3>2. completedAt # Never =>
            completedAt + RequestTimeout + PollInterval + MaxOversleep >= config.timeout
      BY <1>0, <2>2, <3>1 DEF Never
    <3>3. QED
      BY <2>1, <2>3, <3>1, <3>2, FinishKeepsInv DEF Outcomes
  <2>4. CASE /\ ~DeadlinePassed /\ pc' = "sleeping" /\ wakeAt' = elapsed + SleepSpan
             /\ reply' = "none"
             /\ UNCHANGED <<config, document, elapsed, sentAt, outcome, polls>>
    <3>1. elapsed < config.timeout
      BY <1>0, <2>4 DEF DeadlinePassed
    <3>2. /\ SleepSpan \in Nat /\ SleepSpan <= PollInterval
          /\ elapsed + SleepSpan <= config.timeout
      BY <2>4, SleepSpanBounds, WaitAssumption
    <3>3. SleepSpan = PollInterval \/ elapsed + SleepSpan = config.timeout
      BY <1>0, <3>1 DEF SleepSpan, LowerOf
    <3>4. ReplyInv' /\ StaleInv'
      BY <2>2, <2>4 DEF WaitInv, ReplyInv, StaleInv, document, Completed
    <3>5. ClockInv'
      BY <1>0, <2>2, <2>4, <3>2 DEF ClockInv
    <3>6. PollInv'
      <4>1. (polls - 1) * PollInterval <= sentAt /\ polls > 0
        BY <1>0, <2>1 DEF WaitInv, PollInv, PollsAreSpaced
      <4>2. (polls - 1) * PollInterval + PollInterval = polls * PollInterval
        BY <1>0
      <4>3. (polls - 1) * PollInterval \in Int /\ polls * PollInterval \in Int
        BY <1>0
      <4>4. polls * PollInterval <= elapsed + PollInterval
        BY <1>0, <2>2, <4>1, <4>2, <4>3
      <4>5. wakeAt' = config.timeout \/ polls * PollInterval <= wakeAt'
        BY <2>4, <3>3, <4>4
      <4>6. PollsAreSpaced'
        BY <2>4 DEF WaitInv, PollInv, PollsAreSpaced
      <4>7. QED
        BY <2>4, <4>1, <4>5, <4>6 DEF PollInv
    <3>7. VerdictInv' /\ BoundedWait' /\ TimeoutIsHonest'
      BY <2>1, <2>4 DEF WaitInv, VerdictInv, VerdictMatchesDocument, BoundedWait,
         TimeoutIsHonest, document
    <3>8. QED
      BY <3>4, <3>5, <3>6, <3>7 DEF WaitInv
  <2>5. QED
    BY <1>6, <2>3, <2>4 DEF ReceivePending, SleepOrGiveUp
<1>7. CASE Wake
  <2>1. pc = "sleeping" /\ elapsed >= wakeAt /\ config.wait /\ outcome = "none"
    BY <1>7 DEF Wake, WaitInv, VerdictInv, TypeOK
  <2>2. CASE DeadlinePassed /\ Finish("timeout")
    <3>1. elapsed >= config.timeout
      BY <2>2 DEF DeadlinePassed
    <3>2. /\ completedAt # Never => completedAt >= sentAt
          /\ elapsed <= wakeAt + MaxOversleep
          /\ wakeAt <= sentAt + RequestTimeout + PollInterval
      BY <2>1 DEF WaitInv, StaleInv, ClockInv
    <3>3. completedAt # Never =>
            completedAt + RequestTimeout + PollInterval + MaxOversleep >= config.timeout
      BY <1>0, <3>1, <3>2 DEF Never
    <3>4. QED
      BY <2>1, <2>2, <3>1, <3>3, FinishKeepsInv DEF Outcomes
  <2>3. CASE ~DeadlinePassed /\ SendStatusRequest
    <3>1. elapsed < config.timeout
      BY <1>0, <2>3 DEF DeadlinePassed
    <3>2. polls * PollInterval <= wakeAt
      BY <1>0, <2>1, <3>1 DEF WaitInv, PollInv
    <3>3. polls * PollInterval \in Int
      BY <1>0
    <3>4. polls * PollInterval <= elapsed
      BY <1>0, <2>1, <3>2, <3>3
    <3>5. QED
      BY <2>1, <2>3, <3>1, <3>4, SendKeepsInv
  <2>4. QED
    BY <1>7, <2>2, <2>3 DEF Wake
<1>8. CASE RemoteProgress
  <2>1. ReplyInv' /\ StaleInv'
    BY <1>0, <1>8 DEF RemoteProgress, client, WaitInv, ReplyInv, ClockInv, StaleInv,
       Completed, Never
  <2>2. ClockInv' /\ PollInv' /\ BoundedWait'
    BY <1>8 DEF RemoteProgress, client, WaitInv, ClockInv, PollInv, PollsAreSpaced, BoundedWait
  <2>3. VerdictInv'
    BY <1>8 DEF RemoteProgress, client, WaitInv, VerdictInv, VerdictMatchesDocument, Completed
  <2>4. TimeoutIsHonest'
    BY <1>0, <1>8 DEF RemoteProgress, client, WaitInv, TimeoutIsHonest, Never
  <2>5. QED
    BY <2>1, <2>2, <2>3, <2>4 DEF WaitInv
<1>9. CASE ServerAnswers
  <2>1. ReplyInv' /\ StaleInv'
    BY <1>0, <1>9 DEF ServerAnswers, Answers, Incomplete, client, document, WaitInv, ReplyInv, StaleInv,
       Completed, Never
  <2>2. ClockInv' /\ PollInv' /\ BoundedWait'
    BY <1>9 DEF ServerAnswers, client, document, WaitInv, ClockInv, PollInv,
       PollsAreSpaced, BoundedWait
  <2>3. VerdictInv' /\ TimeoutIsHonest'
    BY <1>9 DEF ServerAnswers, client, document, WaitInv, VerdictInv,
       VerdictMatchesDocument, TimeoutIsHonest
  <2>4. QED
    BY <2>1, <2>2, <2>3 DEF WaitInv
<1>10. CASE Tick
  <2>1. ReplyInv' /\ StaleInv'
    BY <1>0, <1>10 DEF Tick, client, document, WaitInv, ReplyInv, StaleInv, Completed
  <2>2. ClockInv'
    BY <1>0, <1>10 DEF Tick, client, document, WaitInv, ClockInv
  <2>3. PollInv'
    BY <1>10 DEF Tick, client, document, WaitInv, PollInv, PollsAreSpaced
  <2>4. VerdictInv'
    BY <1>10 DEF Tick, client, document, WaitInv, VerdictInv, VerdictMatchesDocument
  <2>5. BoundedWait'
    BY <1>0, <1>10 DEF Tick, client, document, WaitInv, ClockInv, BoundedWait, HigherOf
  <2>6. TimeoutIsHonest'
    BY <1>10 DEF Tick, client, document, WaitInv, VerdictInv, TimeoutIsHonest
  <2>7. QED
    BY <2>1, <2>2, <2>3, <2>4, <2>5, <2>6 DEF WaitInv
<1>11. CASE UNCHANGED vars
  BY <1>11 DEF vars, client, document, WaitInv, ReplyInv, ClockInv, StaleInv, PollInv,
     PollsAreSpaced, VerdictInv, VerdictMatchesDocument, BoundedWait, TimeoutIsHonest
<1>12. QED
  BY <1>1, <1>2, <1>3, <1>4, <1>5, <1>6, <1>7, <1>8, <1>9, <1>10, <1>11
     DEF Next, ClientStep

(* WaitInv holds in every state of every behaviour.                        *)
LEMMA WaitInvHolds == Spec => []WaitInv
<1>1. QED
  BY InitWaitInv, WaitInvStep, TypeCorrect, PTL DEF Spec

(* The verdict on a write, Ok or "completed with a warning", is what the   *)
(* document did with it, for every timeout and polling schedule.           *)
THEOREM VerdictsMatch == Spec => []VerdictMatchesDocument
<1>1. WaitInv => VerdictMatchesDocument
  BY DEF WaitInv, VerdictInv
<1>2. QED
  BY <1>1, WaitInvHolds, PTL

(* A write that completes early enough is never reported as timed out.     *)
THEOREM TimeoutsAreHonest == Spec => []TimeoutIsHonest
<1>1. WaitInv => TimeoutIsHonest
  BY DEF WaitInv
<1>2. QED
  BY <1>1, WaitInvHolds, PTL

(* The wait overruns its timeout by less than a request or a late timer.   *)
THEOREM WaitIsBounded == Spec => []BoundedWait
<1>1. WaitInv => BoundedWait
  BY DEF WaitInv
<1>2. QED
  BY <1>1, WaitInvHolds, PTL

(* Status requests are at least a poll interval apart.                     *)
THEOREM PollsSpaced == Spec => []PollsAreSpaced
<1>1. WaitInv => PollsAreSpaced
  BY DEF WaitInv, PollInv
<1>2. QED
  BY <1>1, WaitInvHolds, PTL
-----------------------------------------------------------------------------
(* The polling loop implements the safety part of MutationOutcome: one     *)
(* verdict per write, announced only when the document's effect at that    *)
(* moment supports it.                                                     *)
THEOREM ImplementsOutcomeSafety == Spec => Outcome!Safety
<1>1. Init => Outcome!Init
  <2> SUFFICES ASSUME Init PROVE Outcome!Init
    OBVIOUS
  <2>1. config.wait \in BOOLEAN /\ config.allowWarnings \in BOOLEAN
        /\ (config.allowWarnings => config.wait)
    BY DEF Init, Configs
  <2>2. [wait |-> config.wait, allowWarnings |-> config.allowWarnings] \in Outcome!Policies
    BY <2>1 DEF Outcome!Policies
  <2>3. QED
    BY <2>2 DEF Init, Outcome!Init, Outcome!Effects, Completed, RemoteStates
<1>2. TypeOK /\ WaitInv /\ [Next]_vars => [Outcome!Next]_(Outcome!vars)
  <2> SUFFICES ASSUME TypeOK, WaitInv, [Next]_vars
               PROVE  [Outcome!Next]_(Outcome!vars)
    OBVIOUS
  <2> DEFINE eff == IF remote \in Completed THEN remote ELSE "open"
             ver == IF outcome \in {"none", "ok", "warning"} THEN outcome ELSE "unknown"
  <2>0. /\ config.wait \in BOOLEAN /\ config.allowWarnings \in BOOLEAN
        /\ (pc = "done") <=> (outcome # "none")
        /\ pc \in {"fetching", "sleeping"} => config.wait
    BY DEF TypeOK, Configs, WaitInv, VerdictInv
  <2>1. ASSUME NEW result \in Outcomes \ {"none"}, pc # "done", Finish(result),
               result # "ok" => config.wait,
               config.wait /\ result = "ok" =>
                 remote \in Completed /\ (remote = "warned" => config.allowWarnings),
               result = "warning" => remote = "warned" /\ ~config.allowWarnings
        PROVE  Outcome!Announce
    <3>1. outcome = "none" /\ outcome' = result /\ config' = config /\ remote' = remote
      BY <2>0, <2>1 DEF Finish, document
    <3>2. ver = "none" /\ ver' = IF result \in {"ok", "warning"} THEN result ELSE "unknown"
      BY <3>1, <2>1 DEF Outcomes
    <3>3. ver' \in Outcome!Verdicts
      BY <3>2 DEF Outcome!Verdicts
    <3>4. Outcome!Supports([wait |-> config.wait, allowWarnings |-> config.allowWarnings],
                           eff, ver')
      BY <2>0, <2>1, <3>2 DEF Outcome!Supports, Completed
    <3>5. QED
      BY <3>1, <3>2, <3>3, <3>4 DEF Outcome!Announce
  <2>2. ASSUME UNCHANGED <<config, remote, outcome>>
        PROVE  UNCHANGED Outcome!vars
    BY <2>2 DEF Outcome!vars
  <2>3. CASE SkipWait
    BY <2>1, <2>3, <2>0 DEF SkipWait, Outcomes, Outcome!Next
  <2>4. CASE RejectWriteResponse
    BY <2>1, <2>4 DEF RejectWriteResponse, Outcomes, Outcome!Next
  <2>5. CASE RequestTimesOut \/ ReceiveUnusable \/ RequestFails
    BY <2>0, <2>1, <2>5 DEF RequestTimesOut, ReceiveUnusable, RequestFails, Outcomes, Outcome!Next
  <2>6. CASE ReceiveCompleted
    <3>1. config.wait /\ reply = remote /\ remote \in Completed /\ pc # "done"
      BY <2>6 DEF ReceiveCompleted, WaitInv, ReplyInv, VerdictInv
    <3>2. CASE reply = "warned" /\ ~config.allowWarnings
      BY <2>1, <2>6, <3>1, <3>2 DEF ReceiveCompleted, Outcomes, Outcome!Next
    <3>3. CASE ~(reply = "warned" /\ ~config.allowWarnings)
      <4>1. Finish("ok")
        BY <2>6, <3>3 DEF ReceiveCompleted
      <4>2. remote = "warned" => config.allowWarnings
        BY <2>0, <3>1, <3>3
      <4>3. QED
        BY <2>1, <3>1, <4>1, <4>2 DEF Outcomes, Outcome!Next
    <3>4. QED
      BY <3>2, <3>3
  <2>7. CASE StartPolling
    BY <2>2, <2>7 DEF StartPolling, SendStatusRequest, document
  <2>8. CASE ReceivePending
    <3>1. CASE Finish("timeout")
      BY <2>0, <2>1, <2>8, <3>1 DEF ReceivePending, SleepOrGiveUp, Outcomes, Outcome!Next
    <3>2. CASE ~Finish("timeout")
      BY <2>2, <2>8, <3>2 DEF ReceivePending, SleepOrGiveUp, document
    <3>3. QED
      BY <3>1, <3>2
  <2>9. CASE Wake
    <3>1. CASE Finish("timeout")
      BY <2>0, <2>1, <2>9, <3>1 DEF Wake, Outcomes, Outcome!Next
    <3>2. CASE SendStatusRequest
      BY <2>2, <3>2 DEF SendStatusRequest, document
    <3>3. QED
      BY <2>9, <3>1, <3>2 DEF Wake
  <2>10. CASE RemoteProgress
    <3>1. UNCHANGED <<config, outcome>>
      BY <2>10 DEF RemoteProgress, client
    <3>2. CASE remote' \in Completed
      <4>1. eff = "open" /\ eff' \in {"clean", "warned"}
        BY <2>10, <3>2 DEF RemoteProgress, Completed
      <4>2. Outcome!Settle
        BY <3>1, <4>1 DEF Outcome!Settle
      <4>3. QED
        BY <4>2 DEF Outcome!Next
    <3>3. CASE remote' \notin Completed
      <4>1. eff' = eff
        BY <2>10, <3>3 DEF RemoteProgress, Completed
      <4>2. QED
        BY <3>1, <4>1 DEF Outcome!vars
    <3>4. QED
      BY <3>2, <3>3
  <2>11. CASE ServerAnswers \/ Tick \/ UNCHANGED vars
    BY <2>2, <2>11 DEF ServerAnswers, Tick, vars, client, document
  <2>12. QED
    BY <2>3, <2>4, <2>5, <2>6, <2>7, <2>8, <2>9, <2>10, <2>11 DEF Next, ClientStep
<1>3. QED
  BY <1>1, <1>2, TypeCorrect, WaitInvHolds, PTL DEF Spec, Outcome!Safety
=============================================================================
