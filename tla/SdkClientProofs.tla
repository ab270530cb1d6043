-------------------------- MODULE SdkClientProofs --------------------------
(***************************************************************************)
(* Proofs about FetchRequest, for every set of requests, and about         *)
(* SdkClient, which makes them, for every set of calls and clients.        *)
(***************************************************************************)
EXTENDS SdkClient, TLAPS

(***************************************************************************)
(* FetchRequest.                                                           *)
(***************************************************************************)

(* Who owns the box: the registry, the handler or the cancelling future    *)
(* while they have taken the request out, and nobody once it is freed.     *)
BoxInv(q) ==
  /\ q \in registry => freed[q] = 0 /\ handler[q] = "idle"
  /\ handler[q] = "completing" => freed[q] = 0 /\ q \notin registry
  /\ future[q] = "completing" => freed[q] = 0 /\ q \notin registry
  /\ handler[q] \in {"completing", "closing"} => future[q] \notin {"completing", "closing"}
  /\ freed[q] = 0 =>
       \/ future[q] \in {"new", "completing"}
       \/ handler[q] = "completing"
       \/ q \in registry

(* Where a request is in its life.                                         *)
LifeInv(q) ==
  /\ future[q] = "new" => freed[q] = 0 /\ handler[q] = "idle"
  /\ future[q] = "starting" => q \in registry
  /\ future[q] \in {"new", "starting", "refused"} <=> fetch[q] = "none"
  /\ future[q] \in {"new", "completing", "closing", "ready", "refused", "dropped"} =>
       q \notin registry
  /\ handler[q] = "idle" =>
       \/ future[q] \in {"new", "completing", "closing", "refused", "dropped"}
       \/ q \in registry
  /\ q \in registry /\ future[q] \notin {"starting", "storing"} => q \in stored
  /\ future[q] \in {"completing", "closing"} => q \in stored

(* Who closes the fetch object.                                            *)
ObjectInv(q) ==
  /\ closed[q] = IF fetch[q] = "closed" THEN 1 ELSE 0
  /\ q \in registry => fetch[q] \in {"none", "loading"}
  /\ fetch[q] \in {"none", "loading"} => handler[q] = "idle"
  /\ handler[q] \in {"completing", "closing"} => fetch[q] = "done"
  /\ future[q] \in {"completing", "closing"} => fetch[q] # "closed"
  /\ handler[q] = "done" => fetch[q] = "closed" \/ future[q] \in {"completing", "closing"}
  /\ future[q] = "ready" => handler[q] \in {"closing", "done"}
  /\ future[q] = "dropped" => handler[q] \in {"completing", "closing"} \/ fetch[q] = "closed"

(* Where the result comes from, and who is told.                           *)
ResultInv(q) ==
  /\ result[q] # "none" =>
       handler[q] \in {"closing", "done"} \/ future[q] \in {"closing", "dropped"}
  /\ handler[q] = "completing" => settled[q] # "none"
  /\ future[q] \in {"rechecking", "parked"} => waker[q] \/ woken[q]
  /\ future[q] = "parked" /\ result[q] # "none" /\ handler[q] # "closing" => woken[q]

RequestInv(q) == BoxInv(q) /\ LifeInv(q) /\ ObjectInv(q) /\ ResultInv(q)

(* The inductive invariant: every request has one owner at a time.         *)
FetchInv == \A q \in Requests : RequestInv(q)

RequestStep(q) == FutureStep(q) \/ HandlerStep(q) \/ PollUnasked(q) \/ DropFuture(q)

(* Everything about request d is as it was.                                *)
SameAt(d) ==
  /\ d \in registry' <=> d \in registry
  /\ d \in stored' <=> d \in stored
  /\ future'[d] = future[d] /\ handler'[d] = handler[d]
  /\ fetch'[d] = fetch[d] /\ closed'[d] = closed[d] /\ freed'[d] = freed[d]
  /\ result'[d] = result[d] /\ waker'[d] = waker[d] /\ woken'[d] = woken[d]
  /\ settled'[d] = settled[d]

(* The invariant of a request is about that request alone.                 *)
LEMMA InvariantIsLocal ==
  ASSUME NEW d \in Requests, RequestInv(d), SameAt(d)
  PROVE  RequestInv(d)'
BY DEF RequestInv, BoxInv, LifeInv, ObjectInv, ResultInv, SameAt

(* A step of one request leaves the others alone: they share the registry  *)
(* and nothing else.                                                       *)
LEMMA OthersUntouched ==
  ASSUME TypeOK, NEW q \in Requests, RequestStep(q), NEW d \in Requests, d # q
  PROVE  SameAt(d)
<1>1. CASE Register(q)
  BY <1>1 DEF Register, FutureAt, SameAt, TypeOK, shim, shared
<1>2. CASE StartFetch(q)
  BY <1>2 DEF StartFetch, FutureAt, SameAt, TypeOK, shim, shared
<1>3. CASE StartRefused(q)
  BY <1>3 DEF StartRefused, FutureAt, TakeFetch, FreeBox, SameAt, TypeOK, shim, shared
<1>4. CASE StoreFetch(q)
  BY <1>4 DEF StoreFetch, FutureAt, SameAt, TypeOK, shim, shared
<1>5. CASE TakeResult(q)
  BY <1>5 DEF TakeResult, FutureAt, Resolve, SameAt, TypeOK, shim, shared
<1>6. CASE RegisterWaker(q)
  BY <1>6 DEF RegisterWaker, FutureAt, SameAt, TypeOK, shim, shared
<1>7. CASE RecheckResult(q)
  BY <1>7 DEF RecheckResult, FutureAt, Resolve, SameAt, TypeOK, shim, shared
<1>8. CASE PollAgain(q)
  BY <1>8 DEF PollAgain, FutureAt, SameAt, TypeOK, shim, shared
<1>9. CASE PollUnasked(q)
  BY <1>9 DEF PollUnasked, FutureAt, SameAt, TypeOK, shim, shared
<1>10. CASE BeginFinish(q)
  BY <1>10 DEF BeginFinish, TakeFetch, FetchTaken, HandlerAt, SameAt, TypeOK, shim, shared
<1>11. CASE FinishPublishes(q)
  BY <1>11 DEF FinishPublishes, PublishResult, FreeBox, HandlerAt, SameAt, TypeOK, shim, shared
<1>12. CASE FinishWakes(q)
  BY <1>12 DEF FinishWakes, WakeFuture, CloseFetch, HandlerAt, SameAt, TypeOK, shim, shared
<1>13. CASE DropFuture(q)
  BY <1>13 DEF DropFuture, FutureAt, SameAt, TypeOK, shim, shared
<1>14. CASE BeginCancel(q)
  BY <1>14 DEF BeginCancel, FutureAt, TakeFetch, FetchTaken, SameAt, TypeOK, shim, shared
<1>15. CASE CancelPublishes(q)
  BY <1>15 DEF CancelPublishes, FutureAt, PublishResult, FreeBox, WakeFuture, SameAt, TypeOK, shim, shared
<1>16. CASE CancelCloses(q)
  BY <1>16 DEF CancelCloses, FutureAt, CloseFetch, FreeBox, SameAt, TypeOK, shim, shared
<1>17. QED
  BY <1>1, <1>2, <1>3, <1>4, <1>5, <1>6, <1>7, <1>8, <1>9, <1>10, <1>11, <1>12, <1>13, <1>14, <1>15, <1>16
     DEF RequestStep, FutureStep, HandlerStep

(* The step of a request leaves its variables in their types: no counter   *)
(* passes one, because nobody frees or closes what is not his.             *)
LEMMA TypesKept ==
  ASSUME TypeOK, NEW q \in Requests, RequestInv(q), RequestStep(q)
  PROVE  TypeOK'
<1>1. CASE Register(q)
  BY <1>1 DEF Register, FutureAt, TypeOK, shim, shared
<1>2. CASE StartFetch(q)
  BY <1>2 DEF StartFetch, FutureAt, TypeOK, shim, shared
<1>3. CASE StartRefused(q)
  BY <1>3 DEF StartRefused, FutureAt, TakeFetch, FreeBox, RequestInv, BoxInv, LifeInv, Outcomes, TypeOK, shim, shared
<1>4. CASE StoreFetch(q)
  BY <1>4 DEF StoreFetch, FutureAt, TypeOK, shim, shared
<1>5. CASE TakeResult(q)
  BY <1>5 DEF TakeResult, FutureAt, Resolve, Outcomes, TypeOK, shim, shared
<1>6. CASE RegisterWaker(q)
  BY <1>6 DEF RegisterWaker, FutureAt, TypeOK, shim, shared
<1>7. CASE RecheckResult(q)
  BY <1>7 DEF RecheckResult, FutureAt, Resolve, Outcomes, TypeOK, shim, shared
<1>8. CASE PollAgain(q)
  BY <1>8 DEF PollAgain, FutureAt, TypeOK, shim, shared
<1>9. CASE PollUnasked(q)
  BY <1>9 DEF PollUnasked, FutureAt, TypeOK, shim, shared
<1>10. CASE BeginFinish(q)
  BY <1>10 DEF BeginFinish, TakeFetch, FetchTaken, HandlerAt, Outcomes, TypeOK, shim, shared
<1>11. CASE FinishPublishes(q)
  BY <1>11 DEF FinishPublishes, PublishResult, FreeBox, HandlerAt, RequestInv, BoxInv, TypeOK, shim, shared
<1>12. CASE FinishWakes(q)
  BY <1>12 DEF FinishWakes, WakeFuture, CloseFetch, HandlerAt, RequestInv, ObjectInv, TypeOK, shim, shared
<1>13. CASE DropFuture(q)
  BY <1>13 DEF DropFuture, FutureAt, TypeOK, shim, shared
<1>14. CASE BeginCancel(q)
  BY <1>14 DEF BeginCancel, FutureAt, TakeFetch, FetchTaken, TypeOK, shim, shared
<1>15. CASE CancelPublishes(q)
  BY <1>15 DEF CancelPublishes, FutureAt, PublishResult, FreeBox, WakeFuture, RequestInv, BoxInv, Outcomes, TypeOK, shim, shared
<1>16. CASE CancelCloses(q)
  BY <1>16 DEF CancelCloses, FutureAt, CloseFetch, FreeBox, RequestInv, BoxInv, LifeInv, ObjectInv, TypeOK, shim, shared
<1>17. QED
  BY <1>1, <1>2, <1>3, <1>4, <1>5, <1>6, <1>7, <1>8, <1>9, <1>10, <1>11, <1>12, <1>13, <1>14, <1>15, <1>16
     DEF RequestStep, FutureStep, HandlerStep

(* The step of a request keeps its own invariant.                          *)
LEMMA InvariantKept ==
  ASSUME TypeOK, NEW q \in Requests, RequestInv(q), RequestStep(q)
  PROVE  RequestInv(q)'
<1>1. CASE Register(q)
  BY <1>1 DEF Register, FutureAt, TypeOK, shim, shared,
              RequestInv, BoxInv, LifeInv, ObjectInv, ResultInv
<1>2. CASE StartFetch(q)
  BY <1>2 DEF StartFetch, FutureAt, TypeOK, shim, shared,
              RequestInv, BoxInv, LifeInv, ObjectInv, ResultInv
<1>3. CASE StartRefused(q)
  BY <1>3 DEF StartRefused, FutureAt, TakeFetch, FreeBox, TypeOK, shim, shared,
              RequestInv, BoxInv, LifeInv, ObjectInv, ResultInv
<1>4. CASE StoreFetch(q)
  BY <1>4 DEF StoreFetch, FutureAt, TypeOK, shim, shared,
              RequestInv, BoxInv, LifeInv, ObjectInv, ResultInv
<1>5. CASE TakeResult(q)
  BY <1>5 DEF TakeResult, FutureAt, Resolve, TypeOK, shim, shared,
              RequestInv, BoxInv, LifeInv, ObjectInv, ResultInv
<1>6. CASE RegisterWaker(q)
  BY <1>6 DEF RegisterWaker, FutureAt, TypeOK, shim, shared,
              RequestInv, BoxInv, LifeInv, ObjectInv, ResultInv
<1>7. CASE RecheckResult(q)
  BY <1>7 DEF RecheckResult, FutureAt, Resolve, TypeOK, shim, shared,
              RequestInv, BoxInv, LifeInv, ObjectInv, ResultInv
<1>8. CASE PollAgain(q)
  BY <1>8 DEF PollAgain, FutureAt, TypeOK, shim, shared,
              RequestInv, BoxInv, LifeInv, ObjectInv, ResultInv
<1>9. CASE PollUnasked(q)
  BY <1>9 DEF PollUnasked, FutureAt, TypeOK, shim, shared,
              RequestInv, BoxInv, LifeInv, ObjectInv, ResultInv
<1>10. CASE BeginFinish(q)
  BY <1>10 DEF BeginFinish, TakeFetch, FetchTaken, HandlerAt, TypeOK, shim, shared,
              RequestInv, BoxInv, LifeInv, ObjectInv, ResultInv
<1>11. CASE FinishPublishes(q)
  BY <1>11 DEF FinishPublishes, PublishResult, FreeBox, HandlerAt, TypeOK, shim, shared,
              RequestInv, BoxInv, LifeInv, ObjectInv, ResultInv
<1>12. CASE FinishWakes(q)
  BY <1>12 DEF FinishWakes, WakeFuture, CloseFetch, HandlerAt, TypeOK, shim, shared,
              RequestInv, BoxInv, LifeInv, ObjectInv, ResultInv
<1>13. CASE DropFuture(q)
  BY <1>13 DEF DropFuture, FutureAt, TypeOK, shim, shared,
              RequestInv, BoxInv, LifeInv, ObjectInv, ResultInv
<1>14. CASE BeginCancel(q)
  BY <1>14 DEF BeginCancel, FutureAt, TakeFetch, FetchTaken, TypeOK, shim, shared,
              RequestInv, BoxInv, LifeInv, ObjectInv, ResultInv
<1>15. CASE CancelPublishes(q)
  BY <1>15 DEF CancelPublishes, FutureAt, PublishResult, FreeBox, WakeFuture, TypeOK, shim, shared,
              RequestInv, BoxInv, LifeInv, ObjectInv, ResultInv
<1>16. CASE CancelCloses(q)
  BY <1>16 DEF CancelCloses, FutureAt, CloseFetch, FreeBox, TypeOK, shim, shared,
              RequestInv, BoxInv, LifeInv, ObjectInv, ResultInv
<1>17. QED
  BY <1>1, <1>2, <1>3, <1>4, <1>5, <1>6, <1>7, <1>8, <1>9, <1>10, <1>11, <1>12, <1>13, <1>14, <1>15, <1>16
     DEF RequestStep, FutureStep, HandlerStep

(* Types and invariant hold at the start.                                  *)
LEMMA InvariantInit == Init => TypeOK /\ FetchInv
BY DEF Init, TypeOK, Outcomes, FetchInv, RequestInv, BoxInv, LifeInv, ObjectInv, ResultInv

(* Every step keeps them, for every request.                               *)
LEMMA InvariantStep ==
  ASSUME TypeOK, FetchInv, [Next]_vars
  PROVE  TypeOK' /\ FetchInv'
<1>1. CASE UNCHANGED vars
  BY <1>1 DEF vars, shim, shared, TypeOK, FetchInv, RequestInv, BoxInv, LifeInv, ObjectInv,
              ResultInv
<1>2. ASSUME NEW q \in Requests, RequestStep(q)
      PROVE  TypeOK' /\ FetchInv'
  <2>1. TypeOK' /\ RequestInv(q)'
    BY <1>2, TypesKept, InvariantKept DEF FetchInv
  <2>2. ASSUME NEW d \in Requests, d # q PROVE RequestInv(d)'
    BY <1>2, <2>2, OthersUntouched, InvariantIsLocal DEF FetchInv
  <2>3. QED
    BY <2>1, <2>2 DEF FetchInv
<1>3. QED
  BY <1>1, <1>2 DEF Next, RequestStep

(* The invariant holds in every state of every behaviour.                  *)
LEMMA InvariantHolds == Spec => [](TypeOK /\ FetchInv)
<1>1. QED
  BY InvariantInit, InvariantStep, PTL DEF Spec
-----------------------------------------------------------------------------
(* No box is freed twice and no fetch object closed twice, whatever the    *)
(* order of cancellation and completion.                                   *)
THEOREM FreedAndClosedOnce == Spec => []TypeOK
BY InvariantHolds, PTL

(* A request that is over has left nothing behind.                         *)
THEOREM NothingIsLeaked == Spec => []NothingLeaks
<1>1. TypeOK /\ FetchInv => NothingLeaks
  BY DEF TypeOK, FetchInv, RequestInv, BoxInv, LifeInv, ObjectInv, ResultInv, NothingLeaks, Over
<1>2. QED
  BY <1>1, InvariantHolds, PTL

(* No future stays parked on a result that is there.                       *)
THEOREM NoWakeupIsLost == Spec => []NoLostWakeup
<1>1. FetchInv => NoLostWakeup
  BY DEF FetchInv, RequestInv, ResultInv, NoLostWakeup
<1>2. QED
  BY <1>1, InvariantHolds, PTL

(***************************************************************************)
(* SdkClient.                                                              *)
(***************************************************************************)

(* The lock is held by the one operation of its client that is beyond it,  *)
(* and the slot is empty but between that operation's response and its     *)
(* judgement.                                                              *)
LockInv ==
  /\ \A q \in Requests :
       call[q] \in {"sending", "judging", "dropping"} <=> execution[clientOf[q]] = q
  /\ \A c \in Clients : execution[c] # Nobody => clientOf[execution[c]] = c
  /\ \A c \in Clients : exchange[c] # Nobody =>
       exchange[c] = execution[c] /\ call[exchange[c]] = "judging"

(* What an operation knows when it is judged.                              *)
JudgedInv == \A q \in Requests :
  /\ call[q] \in {"new", "queued", "sending"} => reply[q] = "none" /\ answer[q] = Plain("none")
  /\ call[q] = "judging" =>
       IF exchange[clientOf[q]] = q
         THEN reply[q] \in Replies /\ sdkResult[q] \in Decoded(reply[q])
         ELSE reply[q] = "none" /\ sdkResult[q] = "failed"

(* The inductive invariant.                                                *)
SdkInv == SdkTypeOK /\ LockInv /\ JudgedInv /\ OwnAnswer

(* What the operations do to a request is a step of FetchRequest.          *)
LEMMA StepsOfRequests == [SdkNext]_allVars => [Next]_vars
BY DEF SdkNext, Execute, OperationRefused, CallStep, BeginOperation, ReceiveResponse,
       TransportFails, Judge, FinishDrop, DropQueued, DropSending, RequestFuture,
       RequestHandler, RequestPolled, allVars, vars, Next

(* What FetchRequest promises holds under SDK clients as well.             *)
LEMMA RequestsUnderClients == SdkSpec => [](TypeOK /\ FetchInv)
<1>1. SdkInit => TypeOK /\ FetchInv
  BY InvariantInit DEF SdkInit
<1>2. TypeOK /\ FetchInv /\ [SdkNext]_allVars => TypeOK' /\ FetchInv'
  BY InvariantStep, StepsOfRequests
<1>3. QED
  BY <1>1, <1>2, PTL DEF SdkSpec

LEMMA SdkInvInit == SdkInit => SdkInv
<1> SUFFICES ASSUME SdkInit PROVE SdkInv
  OBVIOUS
<1>1. TypeOK
  BY InvariantInit DEF SdkInit
<1>2. SdkTypeOK
  BY <1>1 DEF SdkInit, SdkTypeOK, Plain
<1>3. LockInv /\ JudgedInv /\ OwnAnswer
  BY ClientAssumption DEF SdkInit, LockInv, JudgedInv, OwnAnswer
<1>4. QED
  BY <1>2, <1>3 DEF SdkInv

(* The steps of the request itself leave the operations alone.             *)
LEMMA SdkInvUntouched ==
  ASSUME SdkInv, TypeOK', UNCHANGED sdkVars
  PROVE  SdkInv'
<1>1. SdkTypeOK'
  BY DEF SdkInv, SdkTypeOK, sdkVars, locks
<1>2. LockInv'
  BY DEF SdkInv, LockInv, sdkVars, locks
<1>3. JudgedInv'
  BY DEF SdkInv, JudgedInv, sdkVars, locks
<1>4. OwnAnswer'
  BY DEF SdkInv, OwnAnswer, sdkVars, locks
<1>5. QED
  BY <1>1, <1>2, <1>3, <1>4 DEF SdkInv

(* Waiting for the lock.                                                   *)
LEMMA ExecuteKeeps ==
  ASSUME SdkInv, TypeOK', NEW q \in Requests, Execute(q)
  PROVE  SdkInv'
<1> USE ClientAssumption DEF SdkInv, SdkTypeOK, Execute, CallAt, locks
<1>1. SdkTypeOK'
  BY DEF Plain, Body, ResponseBody, Judgement
<1>2. LockInv'
  BY DEF LockInv
<1>3. JudgedInv'
  BY DEF LockInv, JudgedInv
<1>4. OwnAnswer'
  BY DEF LockInv, JudgedInv, OwnAnswer
<1>5. QED
  BY <1>1, <1>2, <1>3, <1>4

(* The lock is free, so nobody is on the way to the slot that is cleared.  *)
LEMMA BeginKeeps ==
  ASSUME SdkInv, TypeOK', NEW q \in Requests, BeginOperation(q)
  PROVE  SdkInv'
<1> USE ClientAssumption DEF SdkInv, SdkTypeOK, BeginOperation, CallAt, locks
<1>1. SdkTypeOK'
  BY DEF Plain, Body, ResponseBody, Judgement
<1>2. LockInv'
  BY DEF LockInv
<1>3. JudgedInv'
  BY DEF LockInv, JudgedInv
<1>4. OwnAnswer'
  BY DEF LockInv, JudgedInv, OwnAnswer
<1>5. QED
  BY <1>1, <1>2, <1>3, <1>4

(* No request, no exchange.                                                *)
LEMMA RefusedKeeps ==
  ASSUME SdkInv, TypeOK', NEW q \in Requests, OperationRefused(q)
  PROVE  SdkInv'
<1> USE ClientAssumption DEF SdkInv, SdkTypeOK, OperationRefused, CallAt, locks
<1>1. SdkTypeOK'
  BY DEF Plain, Body, ResponseBody, Judgement
<1>2. LockInv'
  BY DEF LockInv
<1>3. JudgedInv'
  BY DEF LockInv, JudgedInv
<1>4. OwnAnswer'
  BY DEF LockInv, JudgedInv, OwnAnswer
<1>5. QED
  BY <1>1, <1>2, <1>3, <1>4

(* The slot takes the response of the operation that holds the lock.       *)
LEMMA ReceiveKeeps ==
  ASSUME SdkInv, TypeOK', NEW q \in Requests, ReceiveResponse(q)
  PROVE  SdkInv'
<1> USE ClientAssumption DEF SdkInv, SdkTypeOK, ReceiveResponse, CallAt, locks
<1>1. SdkTypeOK'
  BY DEF Plain, Body, ResponseBody, Judgement
<1>2. LockInv'
  BY DEF LockInv
<1>3. JudgedInv'
  BY DEF LockInv, JudgedInv
<1>4. OwnAnswer'
  BY DEF LockInv, JudgedInv, OwnAnswer
<1>5. QED
  BY <1>1, <1>2, <1>3, <1>4

(* A request that failed leaves the slot empty.                            *)
LEMMA FailKeeps ==
  ASSUME SdkInv, TypeOK', NEW q \in Requests, TransportFails(q)
  PROVE  SdkInv'
<1> USE ClientAssumption DEF SdkInv, SdkTypeOK, TransportFails, CallAt, locks
<1>1. SdkTypeOK'
  BY DEF Plain, Body, ResponseBody, Judgement
<1>2. LockInv'
  BY DEF LockInv
<1>3. JudgedInv'
  BY DEF LockInv, JudgedInv
<1>4. OwnAnswer'
  BY DEF LockInv, JudgedInv, OwnAnswer
<1>5. QED
  BY <1>1, <1>2, <1>3, <1>4

(* The exchange that is taken is the operation's own.                      *)
LEMMA JudgeKeeps ==
  ASSUME SdkInv, TypeOK', NEW q \in Requests, Judge(q)
  PROVE  SdkInv'
<1> USE ClientAssumption DEF SdkInv, SdkTypeOK, Judge, Release, CallAt, locks
<1>1. SdkTypeOK'
  BY DEF Plain, Body, ResponseBody, Judgement
<1>2. LockInv'
  BY DEF LockInv
<1>3. JudgedInv'
  BY DEF LockInv, JudgedInv
<1>4. OwnAnswer'
  BY DEF LockInv, JudgedInv, OwnAnswer, Judgement, HasExpectedStatus, ResponseBody, Decoded, Replies, Body, Plain
<1>5. QED
  BY <1>1, <1>2, <1>3, <1>4

(* Leaving the queue.                                                      *)
LEMMA DropQueuedKeeps ==
  ASSUME SdkInv, TypeOK', NEW q \in Requests, DropQueued(q)
  PROVE  SdkInv'
<1> USE ClientAssumption DEF SdkInv, SdkTypeOK, DropQueued, CallAt, locks
<1>1. SdkTypeOK'
  BY DEF Plain, Body, ResponseBody, Judgement
<1>2. LockInv'
  BY DEF LockInv
<1>3. JudgedInv'
  BY DEF LockInv, JudgedInv
<1>4. OwnAnswer'
  BY DEF LockInv, JudgedInv, OwnAnswer
<1>5. QED
  BY <1>1, <1>2, <1>3, <1>4

(* The lock stays until the request has been cancelled.                    *)
LEMMA DropSendingKeeps ==
  ASSUME SdkInv, TypeOK', NEW q \in Requests, DropSending(q)
  PROVE  SdkInv'
<1> USE ClientAssumption DEF SdkInv, SdkTypeOK, DropSending, CallAt, locks
<1>1. SdkTypeOK'
  BY DEF Plain, Body, ResponseBody, Judgement
<1>2. LockInv'
  BY DEF LockInv
<1>3. JudgedInv'
  BY DEF LockInv, JudgedInv
<1>4. OwnAnswer'
  BY DEF LockInv, JudgedInv, OwnAnswer
<1>5. QED
  BY <1>1, <1>2, <1>3, <1>4

(* Then it is given back.                                                  *)
LEMMA FinishDropKeeps ==
  ASSUME SdkInv, TypeOK', NEW q \in Requests, FinishDrop(q)
  PROVE  SdkInv'
<1> USE ClientAssumption DEF SdkInv, SdkTypeOK, FinishDrop, Release, CallAt, locks
<1>1. SdkTypeOK'
  BY DEF Plain, Body, ResponseBody, Judgement
<1>2. LockInv'
  BY DEF LockInv
<1>3. JudgedInv'
  BY DEF LockInv, JudgedInv
<1>4. OwnAnswer'
  BY DEF LockInv, JudgedInv, OwnAnswer
<1>5. QED
  BY <1>1, <1>2, <1>3, <1>4

LEMMA SdkInvStep == SdkInv /\ (TypeOK /\ FetchInv) /\ (TypeOK /\ FetchInv)' /\ [SdkNext]_allVars => SdkInv'
<1> SUFFICES ASSUME SdkInv, TypeOK', [SdkNext]_allVars PROVE SdkInv'
  OBVIOUS
<1>1. CASE UNCHANGED allVars
  BY <1>1, SdkInvUntouched DEF allVars
<1>2. ASSUME NEW q \in Requests,
             RequestFuture(q) \/ RequestHandler(q) \/ RequestPolled(q)
      PROVE  SdkInv'
  BY <1>2, SdkInvUntouched DEF RequestFuture, RequestHandler, RequestPolled
<1>3. ASSUME NEW q \in Requests, CallStep(q)
      PROVE  SdkInv'
  BY <1>3, BeginKeeps, ReceiveKeeps, FailKeeps, JudgeKeeps, FinishDropKeeps DEF CallStep
<1>4. ASSUME NEW q \in Requests,
             Execute(q) \/ OperationRefused(q) \/ DropQueued(q) \/ DropSending(q)
      PROVE  SdkInv'
  BY <1>4, ExecuteKeeps, RefusedKeeps, DropQueuedKeeps, DropSendingKeeps
<1>5. QED
  BY <1>1, <1>2, <1>3, <1>4 DEF SdkNext

LEMMA SdkInvHolds == SdkSpec => []SdkInv
<1>1. QED
  BY SdkInvInit, SdkInvStep, RequestsUnderClients, PTL DEF SdkSpec
-----------------------------------------------------------------------------
(* Types, and with them: nothing is freed or closed twice, on any client.  *)
THEOREM SdkTypes == SdkSpec => []SdkTypeOK
<1>1. SdkInv => SdkTypeOK
  BY DEF SdkInv
<1>2. QED
  BY <1>1, SdkInvHolds, PTL

(* Every call is answered from its own response, whoever else uses its     *)
(* client and whichever calls are dropped.                                 *)
THEOREM AnswersAreOwn == SdkSpec => []OwnAnswer
<1>1. SdkInv => OwnAnswer
  BY DEF SdkInv
<1>2. QED
  BY <1>1, SdkInvHolds, PTL

(* Requests made through SDK clients behave as FetchRequest says.          *)
THEOREM RequestsBehave == SdkSpec => [](NothingLeaks /\ NoLostWakeup)
<1>1. TypeOK /\ FetchInv => NothingLeaks /\ NoLostWakeup
  BY DEF TypeOK, FetchInv, RequestInv, BoxInv, LifeInv, ObjectInv, ResultInv, NothingLeaks, Over,
         NoLostWakeup
<1>2. QED
  BY <1>1, RequestsUnderClients, PTL
=============================================================================
