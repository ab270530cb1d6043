----------------------------- MODULE SdkClient -----------------------------
(***************************************************************************)
(* Operations on SDK clients (src/src/sdk.rs) over the browser transport   *)
(* of FetchRequest.  The SDK hands back a decoded value, but the extension *)
(* wants the text of the response: the transport leaves each exchange in a *)
(* slot of the client, and execute_inner takes it from there under the     *)
(* client's execution lock.  Every attached database has clients of its    *)
(* own, and as the code stands one user for each, who makes one call after *)
(* the other; the lock is shown to be enough for more.  The registry of    *)
(* fetches is shared by all clients.                                       *)
(*                                                                         *)
(* Each call makes one request and is named after it.  The SDK that builds *)
(* the request and decodes the answer is external.                         *)
(***************************************************************************)
EXTENDS FetchRequest

CONSTANTS
  Clients,
  Accepting,  \* the calls of execute_accepting_status
  Nobody

ASSUME ClientAssumption ==
  /\ Accepting \subseteq Requests
  /\ Nobody \notin Requests

VARIABLES
  clientOf,   \* the client each call is made on, any to start with
  call,       \* where the operation is
  execution,  \* who holds the execution lock of each client
  exchange,   \* whose exchange is in the slot of each client
  reply,      \* history: what came back on the network
  sdkResult,  \* what the SDK made of it
  answer      \* what the caller was given

locks == <<execution, exchange>>
sdkVars == <<clientOf, call, locks, reply, sdkResult, answer>>
allVars == <<vars, sdkVars>>

(* The status the operation expects, with a body that is text or is not,   *)
(* the further status the call accepts, or another.                        *)
Replies == {"text", "garbled", "accepted", "other"}

(* What the SDK may make of each: a value, a body it cannot decode, or an  *)
(* unexpected status.                                                      *)
Decoded(how) ==
  IF how \in {"text", "garbled"} THEN {"ok", "undecodable"} ELSE {"unexpected", "undecodable"}

Body(q) == [kind |-> "body", of |-> q]
Plain(kind) == [kind |-> kind, of |-> Nobody]

SdkTypeOK ==
  /\ TypeOK
  /\ clientOf \in [Requests -> Clients]
  /\ call \in [Requests -> {"new", "queued", "sending", "judging", "dropping", "done", "cancelled"}]
  /\ execution \in [Clients -> Requests \cup {Nobody}]
  /\ exchange \in [Clients -> Requests \cup {Nobody}]
  /\ reply \in [Requests -> Replies \cup {"none"}]
  /\ sdkResult \in [Requests -> {"none", "ok", "undecodable", "unexpected", "failed"}]
  /\ answer \in [Requests -> [kind : {"none", "body", "accepted", "error"},
                              of : Requests \cup {Nobody}]]

SdkInit ==
  /\ Init
  /\ clientOf \in [Requests -> Clients]
  /\ call = [q \in Requests |-> "new"]
  /\ execution = [c \in Clients |-> Nobody]
  /\ exchange = [c \in Clients |-> Nobody]
  /\ reply = [q \in Requests |-> "none"]
  /\ sdkResult = [q \in Requests |-> "none"]
  /\ answer = [q \in Requests |-> Plain("none")]

CallAt(q, from, to) ==
  /\ call[q] = from
  /\ call' = [call EXCEPT ![q] = to]

Release(q) == execution' = [execution EXCEPT ![clientOf[q]] = Nobody]
-----------------------------------------------------------------------------
(* execute_inner up to the request.                                        *)

Execute(q) ==
  /\ CallAt(q, "new", "queued")
  /\ UNCHANGED <<vars, clientOf, locks, reply, sdkResult, answer>>

(* Mutant: the operations of a client are not kept apart.                  *)
BeginOperationUnlocked(q) ==
  /\ CallAt(q, "queued", "sending")
  /\ exchange' = [exchange EXCEPT ![clientOf[q]] = Nobody]
  /\ UNCHANGED <<vars, clientOf, execution, reply, sdkResult, answer>>

(* The lock is granted, to any of those who wait, and the slot cleared.    *)
BeginOperation(q) ==
  /\ CallAt(q, "queued", "sending")
  /\ execution[clientOf[q]] = Nobody
  /\ execution' = [execution EXCEPT ![clientOf[q]] = q]
  /\ exchange' = [exchange EXCEPT ![clientOf[q]] = Nobody]
  /\ UNCHANGED <<vars, clientOf, reply, sdkResult, answer>>

(* The SDK refuses its input, or send a header, before a request is made.  *)
OperationRefused(q) ==
  /\ future[q] = "new"
  /\ CallAt(q, "sending", "judging")
  /\ sdkResult' = [sdkResult EXCEPT ![q] = "failed"]
  /\ UNCHANGED <<vars, clientOf, locks, reply, answer>>
-----------------------------------------------------------------------------
(* dispatch, once send_http_request returned, and the SDK's decoding.      *)

ReceiveResponse(q) ==
  /\ outcome[q] = "response"
  /\ CallAt(q, "sending", "judging")
  /\ exchange' = [exchange EXCEPT ![clientOf[q]] = q]
  /\ \E how \in Replies, decoded \in {"ok", "undecodable", "unexpected"} :
       /\ decoded \in Decoded(how)
       /\ reply' = [reply EXCEPT ![q] = how]
       /\ sdkResult' = [sdkResult EXCEPT ![q] = decoded]
  /\ UNCHANGED <<vars, clientOf, execution, answer>>

TransportFails(q) ==
  /\ outcome[q] = "error"
  /\ CallAt(q, "sending", "judging")
  /\ sdkResult' = [sdkResult EXCEPT ![q] = "failed"]
  /\ UNCHANGED <<vars, clientOf, locks, reply, answer>>
-----------------------------------------------------------------------------
(* execute_inner, once the operation returned.                             *)

HasExpectedStatus(e) == e # Nobody /\ reply[e] \in {"text", "garbled"}

ResponseBody(e) == IF reply[e] = "text" THEN Body(e) ELSE Plain("error")

(* The match on the SDK's result and the exchange e that was in the slot.  *)
Judgement(q, e) ==
  CASE sdkResult[q] = "ok" /\ e # Nobody -> ResponseBody(e)
    [] sdkResult[q] = "undecodable" /\ HasExpectedStatus(e) -> ResponseBody(e)
    [] sdkResult[q] = "unexpected" /\ e # Nobody /\ q \in Accepting /\ reply[q] = "accepted" ->
         Plain("accepted")
    [] OTHER -> Plain("error")

Judge(q) ==
  /\ CallAt(q, "judging", "done")
  /\ answer' = [answer EXCEPT ![q] = Judgement(q, exchange[clientOf[q]])]
  /\ exchange' = [exchange EXCEPT ![clientOf[q]] = Nobody]
  /\ Release(q)
  /\ UNCHANGED <<vars, clientOf, reply, sdkResult>>
-----------------------------------------------------------------------------
(* The operation is dropped where it waits: for the lock, or for the       *)
(* request.  Its parts go in the reverse order of their making, the lock   *)
(* after the request.                                                      *)

DropQueued(q) ==
  /\ CallAt(q, "queued", "cancelled")
  /\ UNCHANGED <<vars, clientOf, locks, reply, sdkResult, answer>>

DropSending(q) ==
  /\ CallAt(q, "sending", "dropping")
  /\ DropFuture(q)
  /\ UNCHANGED <<clientOf, locks, reply, sdkResult, answer>>

(* Mutant: the lock stays with the operation that was dropped.             *)
FinishDropLocked(q) ==
  /\ future[q] = "dropped"
  /\ CallAt(q, "dropping", "cancelled")
  /\ UNCHANGED <<vars, clientOf, locks, reply, sdkResult, answer>>

FinishDrop(q) ==
  /\ future[q] = "dropped"
  /\ CallAt(q, "dropping", "cancelled")
  /\ Release(q)
  /\ UNCHANGED <<vars, clientOf, exchange, reply, sdkResult, answer>>
-----------------------------------------------------------------------------
(* The request is made by the operation; from there it goes its own way.   *)
RequestFuture(q) ==
  /\ future[q] = "new" => call[q] = "sending"
  /\ FutureStep(q)
  /\ UNCHANGED sdkVars

RequestHandler(q) == HandlerStep(q) /\ UNCHANGED sdkVars
RequestPolled(q) == PollUnasked(q) /\ UNCHANGED sdkVars

CallStep(q) ==
  BeginOperation(q) \/ ReceiveResponse(q) \/ TransportFails(q) \/ Judge(q) \/ FinishDrop(q)

SdkNext == \E q \in Requests :
  \/ Execute(q) \/ OperationRefused(q) \/ CallStep(q)
  \/ DropQueued(q) \/ DropSending(q)
  \/ RequestFuture(q) \/ RequestHandler(q) \/ RequestPolled(q)

(* As for FetchRequest; a caller that was given the lock runs on, too.     *)
SdkSpec ==
  /\ SdkInit
  /\ [][SdkNext]_allVars
  /\ \A q \in Requests :
       /\ WF_allVars(CallStep(q))
       /\ WF_allVars(RequestFuture(q))
       /\ WF_allVars(RequestHandler(q))
-----------------------------------------------------------------------------
(* Whatever else happened on its client, before it or meanwhile, a call is *)
(* answered from its own response: with the text of it exactly when the    *)
(* expected status came with one, with "accepted" exactly when the status  *)
(* it would also accept came (and the SDK said so), and with an error      *)
(* otherwise.                                                              *)
OwnAnswer == \A q \in Requests : call[q] = "done" =>
  /\ reply[q] = "text" <=> answer[q] = Body(q)
  /\ answer[q] = Plain("accepted") <=>
       q \in Accepting /\ reply[q] = "accepted" /\ sdkResult[q] = "unexpected"
  /\ answer[q].kind = "body" => answer[q].of = q

(* Every call ends, although its turn comes after those of others who may  *)
(* be dropped while they hold the lock.                                    *)
CallEnds == \A q \in Requests :
  call[q] = "queued" ~> call[q] \in {"done", "cancelled"}
=============================================================================
