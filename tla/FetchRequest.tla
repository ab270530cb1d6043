---------------------------- MODULE FetchRequest ----------------------------
(***************************************************************************)
(* HTTP requests in the browser build: the Rust future that waits for one  *)
(* (src/src/sdk/transport/fetch.rs), the C++ registry between it and       *)
(* Emscripten Fetch (src/src/cpp/emscripten_fetch.cpp) and the event       *)
(* handler that finishes it.  Rust hands the handler a boxed reference to  *)
(* the shared result; whoever takes the request out of the registry owns   *)
(* the box and the fetch object.                                           *)
(*                                                                         *)
(* A step is what happens between two lock operations, so the future and   *)
(* the handler interleave as two threads would.  The build is single       *)
(* threaded: a handler runs while block_on sleeps between two polls, or    *)
(* inside emscripten_fetch and emscripten_fetch_close, and the waker does  *)
(* nothing.  What holds here needs none of that, and so holds for the      *)
(* build as well.  Emscripten Fetch and the executor are external.         *)
(***************************************************************************)
EXTENDS Integers, FiniteSets

CONSTANT Requests  \* the requests made; identifiers are never reused

VARIABLES
  future,    \* where the code that awaits the request is
  handler,   \* where FinishFetch is
  registry,  \* the requests in fetches
  stored,    \* the requests whose context knows its fetch object
  fetch,     \* Emscripten's fetch object
  closed,    \* history: times the object was closed
  freed,     \* history: times the box was freed
  result,    \* Shared.result
  waker,     \* whether Shared.waker holds one
  woken,     \* whether the executor was told to poll again
  settled,   \* how the request went on the network
  outcome    \* what the future resolved to

shim == <<handler, registry, stored, fetch, closed>>
shared == <<freed, result, waker, woken>>
vars == <<future, shim, shared, settled, outcome>>

Outcomes == {"none", "response", "error"}

TypeOK ==
  /\ future \in [Requests -> {"new", "starting", "storing", "polling", "registering",
                              "rechecking", "parked", "cancelling", "completing", "closing",
                              "ready", "refused", "dropped"}]
  /\ handler \in [Requests -> {"idle", "completing", "closing", "done"}]
  /\ registry \subseteq Requests
  /\ stored \subseteq Requests
  /\ fetch \in [Requests -> {"none", "loading", "done", "closed"}]
  /\ closed \in [Requests -> 0..1]
  /\ freed \in [Requests -> 0..1]
  /\ result \in [Requests -> Outcomes]
  /\ waker \in [Requests -> BOOLEAN]
  /\ woken \in [Requests -> BOOLEAN]
  /\ settled \in [Requests -> Outcomes]
  /\ outcome \in [Requests -> Outcomes]

Init ==
  /\ future = [q \in Requests |-> "new"]
  /\ handler = [q \in Requests |-> "idle"]
  /\ registry = {}
  /\ stored = {}
  /\ fetch = [q \in Requests |-> "none"]
  /\ closed = [q \in Requests |-> 0]
  /\ freed = [q \in Requests |-> 0]
  /\ result = [q \in Requests |-> "none"]
  /\ waker = [q \in Requests |-> FALSE]
  /\ woken = [q \in Requests |-> FALSE]
  /\ settled = [q \in Requests |-> "none"]
  /\ outcome = [q \in Requests |-> "none"]

FutureAt(q, from, to) ==
  /\ future[q] = from
  /\ future' = [future EXCEPT ![q] = to]

HandlerAt(q, from, to) ==
  /\ handler[q] = from
  /\ handler' = [handler EXCEPT ![q] = to]

(* TakeFetch: the context leaves the registry, at most once.               *)
TakeFetch(q) ==
  /\ q \in registry
  /\ registry' = registry \ {q}

FetchTaken(q) == q \notin registry /\ UNCHANGED registry

FreeBox(q) == freed' = [freed EXCEPT ![q] = @ + 1]

CloseFetch(q) ==
  /\ fetch' = [fetch EXCEPT ![q] = "closed"]
  /\ closed' = [closed EXCEPT ![q] = @ + 1]
-----------------------------------------------------------------------------
(* send and rust_ext_emscripten_fetch_start.                               *)

(* The context is in the registry before the fetch exists.                 *)
Register(q) ==
  /\ FutureAt(q, "new", "starting")
  /\ registry' = registry \cup {q}
  /\ UNCHANGED <<handler, stored, fetch, closed, shared, settled, outcome>>

(* emscripten_fetch makes the object, which may settle from now on.        *)
StartFetch(q) ==
  /\ FutureAt(q, "starting", "storing")
  /\ fetch' = [fetch EXCEPT ![q] = "loading"]
  /\ UNCHANGED <<handler, registry, stored, closed, shared, settled, outcome>>

(* Mutant: nobody frees the box of a request that was never made.          *)
StartRefusedLeaking(q) ==
  /\ FutureAt(q, "starting", "refused")
  /\ TakeFetch(q)
  /\ outcome' = [outcome EXCEPT ![q] = "error"]
  /\ UNCHANGED <<handler, stored, fetch, closed, shared, settled>>

(* It makes none: the context goes, and send frees the box itself.         *)
StartRefused(q) ==
  /\ FutureAt(q, "starting", "refused")
  /\ TakeFetch(q)
  /\ FreeBox(q)
  /\ outcome' = [outcome EXCEPT ![q] = "error"]
  /\ UNCHANGED <<handler, stored, fetch, closed, result, waker, woken, settled>>

(* The object is stored in the context, unless the handler has taken it.   *)
StoreFetch(q) ==
  /\ FutureAt(q, "storing", "polling")
  /\ stored' = IF q \in registry THEN stored \cup {q} ELSE stored
  /\ UNCHANGED <<handler, registry, fetch, closed, shared, settled, outcome>>
-----------------------------------------------------------------------------
(* FetchFuture::poll.                                                      *)

Resolve(q) ==
  /\ outcome' = [outcome EXCEPT ![q] = result[q]]
  /\ result' = [result EXCEPT ![q] = "none"]

TakeResult(q) ==
  /\ \/ /\ result[q] # "none"
        /\ FutureAt(q, "polling", "ready")
        /\ Resolve(q)
     \/ /\ result[q] = "none"
        /\ FutureAt(q, "polling", "registering")
        /\ UNCHANGED <<result, outcome>>
  /\ UNCHANGED <<shim, freed, waker, woken, settled>>

RegisterWaker(q) ==
  /\ FutureAt(q, "registering", "rechecking")
  /\ waker' = [waker EXCEPT ![q] = TRUE]
  /\ UNCHANGED <<shim, freed, result, woken, settled, outcome>>

(* Mutant: the result is not looked at again.                              *)
ParkUnchecked(q) ==
  /\ FutureAt(q, "rechecking", "parked")
  /\ UNCHANGED <<shim, shared, settled, outcome>>

(* The result is looked at once more, now that the waker is in place.      *)
RecheckResult(q) ==
  /\ \/ /\ result[q] # "none"
        /\ FutureAt(q, "rechecking", "ready")
        /\ Resolve(q)
     \/ /\ result[q] = "none"
        /\ FutureAt(q, "rechecking", "parked")
        /\ UNCHANGED <<result, outcome>>
  /\ UNCHANGED <<shim, freed, waker, woken, settled>>

(* The executor polls a future it was told to poll.                        *)
PollAgain(q) ==
  /\ woken[q]
  /\ FutureAt(q, "parked", "polling")
  /\ woken' = [woken EXCEPT ![q] = FALSE]
  /\ UNCHANGED <<shim, freed, result, waker, settled, outcome>>

(* An executor may also poll unasked: block_on of platform.rs does, every  *)
(* millisecond, and ignores the waker.                                     *)
PollUnasked(q) ==
  /\ FutureAt(q, "parked", "polling")
  /\ UNCHANGED <<shim, shared, settled, outcome>>
-----------------------------------------------------------------------------
(* FinishFetch, for success, failure and timeout alike, and the callback.  *)

(* The event fires, once, while the object is loading, and the handler     *)
(* looks for the request.  A status, even an error status, is a response;  *)
(* status 0 is an error.                                                   *)
BeginFinish(q) ==
  /\ fetch[q] = "loading"
  /\ fetch' = [fetch EXCEPT ![q] = "done"]
  /\ \E how \in {"response", "error"} : settled' = [settled EXCEPT ![q] = how]
  /\ \/ TakeFetch(q) /\ HandlerAt(q, "idle", "completing")
     \/ FetchTaken(q) /\ HandlerAt(q, "idle", "done")
  /\ UNCHANGED <<future, stored, closed, shared, outcome>>

(* complete: the box is freed, the result stored, the waker called.        *)
PublishResult(q, how) ==
  /\ FreeBox(q)
  /\ result' = [result EXCEPT ![q] = how]

(* Mutant: the waker is taken but not called.                              *)
WakeNobody(q) ==
  /\ waker' = [waker EXCEPT ![q] = FALSE]
  /\ UNCHANGED woken

WakeFuture(q) ==
  /\ waker' = [waker EXCEPT ![q] = FALSE]
  /\ woken' = [woken EXCEPT ![q] = @ \/ waker[q]]

FinishPublishes(q) ==
  /\ HandlerAt(q, "completing", "closing")
  /\ PublishResult(q, settled[q])
  /\ UNCHANGED <<future, registry, stored, fetch, closed, waker, woken, settled, outcome>>

FinishWakes(q) ==
  /\ HandlerAt(q, "closing", "done")
  /\ WakeFuture(q)
  /\ CloseFetch(q)
  /\ UNCHANGED <<future, registry, stored, freed, result, settled, outcome>>
-----------------------------------------------------------------------------
(* Drop for FetchFuture and rust_ext_emscripten_fetch_cancel.              *)

(* A parked future is dropped.                                             *)
DropFuture(q) ==
  /\ FutureAt(q, "parked", "cancelling")
  /\ UNCHANGED <<shim, shared, settled, outcome>>

(* Mutant: the request is still in the registry while it is cancelled.     *)
BeginCancelKeeping(q) ==
  /\ \/ q \in registry /\ FutureAt(q, "cancelling", "completing")
     \/ q \notin registry /\ FutureAt(q, "cancelling", "dropped")
  /\ UNCHANGED <<shim, shared, settled, outcome>>

BeginCancel(q) ==
  /\ \/ TakeFetch(q) /\ FutureAt(q, "cancelling", "completing")
     \/ FetchTaken(q) /\ FutureAt(q, "cancelling", "dropped")
  /\ UNCHANGED <<handler, fetch, closed, stored, shared, settled, outcome>>

CancelPublishes(q) ==
  /\ FutureAt(q, "completing", "closing")
  /\ PublishResult(q, "error")
  /\ WakeFuture(q)
  /\ UNCHANGED <<shim, settled, outcome>>

(* Closing an object that is still loading fires its error event first,    *)
(* inside the call: the handler finds nothing in the registry, or would    *)
(* complete the request again.                                             *)
CancelCloses(q) ==
  /\ FutureAt(q, "closing", "dropped")
  /\ IF q \in stored THEN CloseFetch(q) ELSE UNCHANGED <<fetch, closed>>
  /\ IF fetch[q] = "loading" /\ q \in registry THEN FreeBox(q) ELSE UNCHANGED freed
  /\ UNCHANGED <<handler, registry, stored, result, waker, woken, settled, outcome>>

FutureStep(q) ==
  \/ Register(q) \/ StartFetch(q) \/ StartRefused(q) \/ StoreFetch(q)
  \/ TakeResult(q) \/ RegisterWaker(q) \/ RecheckResult(q) \/ PollAgain(q)
  \/ BeginCancel(q) \/ CancelPublishes(q) \/ CancelCloses(q)

HandlerStep(q) ==
  BeginFinish(q) \/ FinishPublishes(q) \/ FinishWakes(q)

Next == \E q \in Requests :
  FutureStep(q) \/ HandlerStep(q) \/ PollUnasked(q) \/ DropFuture(q)

(* The caller runs on and Emscripten settles every request: it is given a  *)
(* timeout.                                                                *)
Spec ==
  /\ Init
  /\ [][Next]_vars
  /\ \A q \in Requests : WF_vars(FutureStep(q)) /\ WF_vars(HandlerStep(q))
-----------------------------------------------------------------------------
Over(q) ==
  /\ future[q] \in {"ready", "refused", "dropped"}
  /\ handler[q] \in {"idle", "done"}

(* However a request ends, answered, refused or cancelled in the middle of *)
(* its completion, its box was freed, its fetch object closed and its      *)
(* context removed; TypeOK says that none of it happened twice.            *)
NothingLeaks == \A q \in Requests : Over(q) =>
  /\ freed[q] = 1
  /\ q \notin registry
  /\ fetch[q] # "none" => closed[q] = 1

(* A future does not stay parked on a result that is there: whoever stores *)
(* the result either finds the waker or is seen by the second look.  With  *)
(* an executor that waits to be woken, or a handler on another thread,     *)
(* poll's second look is what answers the call; block_on polls anyway.     *)
NoLostWakeup == \A q \in Requests :
  future[q] = "parked" /\ result[q] # "none" /\ handler[q] # "closing" => woken[q]
=============================================================================
