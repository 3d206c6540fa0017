----------------------------- MODULE SDBusQueue -----------------------------
(***************************************************************************)
(* The request queue of one SD slot (CSDBusReqAsyncQueue) together with    *)
(* the hand-over of its head to the host controller driver (CSDSlot).      *)
(*                                                                         *)
(* Every operation of the queue runs under the queue's critical section,   *)
(* so an operation is one action.  CompleteRequest is the exception: it    *)
(* calls itself, once for each request the controller answers on the spot, *)
(* and between two of its assignments threads that do not take the lock    *)
(* can look at a request.  `call' is its activation record, and every step *)
(* between two observable assignments is an action of its own.  Clients'   *)
(* callbacks run inside CompleteRequest, where the section can be entered  *)
(* again by the same thread.                                               *)
(*                                                                         *)
(* A completion takes the lock of the controller driver and then the       *)
(* section, a removal the other way round.  The module takes both in one   *)
(* step; the order of the locks is not its subject.  Requests with child   *)
(* requests are not modelled either: IsComplete is m_fCompleted.           *)
(***************************************************************************)
EXTENDS Naturals, Sequences, SequencesExt

CONSTANTS
    Request,        \* blocks of memory of the request free list
    NoRequest,      \* the NULL pointer
    RetryCount,     \* m_BusRequestRetryCount
    HandlesRetry,   \* requests of clients that set SD_CLIENT_HANDLES_RETRY
    MaxLock,        \* bound: nested SDHCDGetAndLockCurrentRequest calls
    Kinds,          \* bound: the kinds of requests that are issued
    Events          \* bound: what may disturb them, see Disturbance

ASSUME RetryAssumption == RetryCount \in Nat /\ MaxLock \in Nat
ASSUME RequestAssumption == NoRequest \notin Request /\ HandlesRetry \subseteq Request
ASSUME BoundAssumption == Kinds \subseteq {"async", "sync", "fast"} /\ Events \subseteq {"cancel", "detach", "host", "slot"}

(***************************************************************************)
(* SD_API_STATUS, as far as the queue tells its values apart.  TIMEOUT     *)
(* stands for the three errors that are retried, FAILED for the others.    *)
(***************************************************************************)
Failure == {"TIMEOUT", "FAILED", "CANCELED"}
Status == {"PENDING", "SUCCESS", "FASTPATH"} \cup Failure

(***************************************************************************)
(* What the controller driver may answer: to a submitted request, and when *)
(* it indicates that the request it owns is complete.                      *)
(***************************************************************************)
HandlerStatus(k) ==
    {"PENDING", "TIMEOUT", "FAILED"} \cup IF k = "fast" THEN {"FASTPATH"} ELSE {}
Kind == {"async", "sync", "fast"}
Disturbance == {"cancel", "detach", "host", "slot"}
IndicatedStatus == {"SUCCESS", "TIMEOUT", "FAILED", "CANCELED"}

VARIABLES
    queue,          \* the list from m_pQueueListHead to m_pQueueListLast
    fAttached,      \* m_fAttached of the queue
    hostAttached,   \* m_fHostAttached
    ready,          \* CheckSlotReady succeeds
    curHCOwned,     \* m_curHCOwned
    lockCount,      \* m_lcurHCLockCount
    call,           \* the running CompleteRequest: request, status, next step
    detach,         \* progress of CSDBusReqAsyncQueue::Detach
    status,         \* Status of a request; it is complete when not PENDING
    callback,       \* "armed" while pCallback is set, then the status it saw
    retry,          \* the retry count kept in SystemFlags
    kind,           \* asynchronous, synchronous, or SD_FAST_PATH_AVAILABLE is set
    stage,          \* where the thread that submits the request stands
    ret,            \* the status QueueBusRequest returned to that thread
    cancelling,     \* requests some thread is about to pass to RemoveRequest
    confirmed,      \* history: requests the controller finished with success
    abandoned       \* history: Detach gave up a request the controller owns

slotVars == <<fAttached, hostAttached, ready>>
hcVars == <<curHCOwned, lockCount>>
reqVars == <<status, callback, retry, kind>>
clientVars == <<stage, ret, cancelling>>
vars == <<queue, slotVars, hcVars, call, detach, reqVars, clientVars, confirmed, abandoned>>

NoCall == [req |-> NoRequest, st |-> "PENDING", pc |-> "none"]
Step == {"none", "first", "submit", "enter", "complete", "callback"}

IsComplete(r) == status[r] # "PENDING"

(***************************************************************************)
(* The queue's critical section is free, or its owner runs a callback from *)
(* which it may enter the section again.                                   *)
(***************************************************************************)
LockFree == call.pc = "none"
CanLock == call.pc \in {"none", "callback"}

Init ==
    /\ queue = <<>>
    /\ fAttached = TRUE /\ hostAttached = TRUE /\ ready = TRUE
    /\ curHCOwned = NoRequest /\ lockCount = 0
    /\ call = NoCall
    /\ detach = "none"
    /\ status = [r \in Request |-> "PENDING"]
    /\ callback = [r \in Request |-> "armed"]
    /\ retry = [r \in Request |-> RetryCount]
    /\ kind = [r \in Request |-> "async"]
    /\ stage = [r \in Request |-> "free"]
    /\ ret = [r \in Request |-> "PENDING"]
    /\ cancelling = {}
    /\ confirmed = {}
    /\ abandoned = FALSE

(***************************************************************************)
(* CompleteBusRequest: record the status and call the client, once.        *)
(***************************************************************************)
CompleteBusRequest(R, st) ==
    /\ status' = [r \in Request |-> IF r \in R THEN st ELSE status[r]]
    /\ callback' = [r \in Request |->
                      IF r \in R /\ callback[r] = "armed" THEN st ELSE callback[r]]

-----------------------------------------------------------------------------
(***************************************************************************)
(* Slips: variants of the definitions below, each with a mistake that one  *)
(* of the properties has to notice.  The specification does not use them.  *)
(***************************************************************************)
(* The status is recorded only after the test for a retry. *)
EnterCompleteLate ==
    /\ call.pc = "enter"
    /\ call' = IF queue # <<>> /\ Head(queue) = call.req
                 THEN [call EXCEPT !.pc = "complete"] ELSE NoCall
    /\ UNCHANGED <<queue, slotVars, hcVars, detach, reqVars, clientVars, confirmed,
                   abandoned>>

(* The next request is not submitted. *)
PopHeadOnly ==
    /\ call.pc = "callback"
    /\ queue' = Tail(queue)
    /\ call' = NoCall
    /\ UNCHANGED <<slotVars, hcVars, detach, reqVars, clientVars, confirmed, abandoned>>

(* The status of the controller is ignored. *)
CompleteAsSuccess(st) ==
    /\ hostAttached
    /\ LockFree
    /\ curHCOwned # NoRequest
    /\ call' = [req |-> curHCOwned, st |-> "SUCCESS", pc |-> "enter"]
    /\ confirmed' = IF st = "SUCCESS" THEN confirmed \cup {curHCOwned} ELSE confirmed
    /\ curHCOwned' = NoRequest
    /\ lockCount' = 0
    /\ abandoned' = FALSE
    /\ UNCHANGED <<queue, slotVars, detach, reqVars, clientVars>>

(* The head is unlinked like any other request. *)
RemoveAnyRequest(r) ==
    /\ r \in cancelling
    /\ LockFree \/ (CanLock /\ r # call.req)
    /\ cancelling' = cancelling \ {r}
    /\ queue' = SelectSeq(queue, LAMBDA q : q # r)
    /\ CompleteBusRequest(ToSet(queue) \cap {r}, "CANCELED")
    /\ UNCHANGED <<slotVars, hcVars, call, detach, retry, kind, stage, ret, confirmed,
                   abandoned>>

(* The head is completed but stays where it is. *)
CompleteCancelledHead(r) ==
    /\ r \in cancelling
    /\ LockFree \/ (CanLock /\ r # call.req)
    /\ cancelling' = cancelling \ {r}
    /\ queue' = SelectSeq(queue, LAMBDA q : q # r \/ q = Head(queue))
    /\ CompleteBusRequest(ToSet(queue) \cap {r}, "CANCELED")
    /\ UNCHANGED <<slotVars, hcVars, call, detach, retry, kind, stage, ret, confirmed,
                   abandoned>>

(* The requests behind the head are dropped without a word. *)
DropAllButHead ==
    /\ detach = "remove"
    /\ LockFree
    /\ detach' = "rest"
    /\ queue' = IF queue = <<>> THEN <<>> ELSE <<Head(queue)>>
    /\ UNCHANGED <<slotVars, hcVars, call, reqVars, clientVars, confirmed, abandoned>>

-----------------------------------------------------------------------------
NeedRetry(r, st) ==
    /\ r \notin HandlesRetry
    /\ st = "TIMEOUT"
    /\ retry[r] # 0

-----------------------------------------------------------------------------
(***************************************************************************)
(* The submitting thread, SDBusRequest_I or SDSynchronousBusRequest_I.  It *)
(* takes a block from the free list and initialises it; QueueBusRequest    *)
(* looks at m_fAttached before it takes the lock.                          *)
(***************************************************************************)
NewRequest(r, k) ==
    /\ stage[r] = "free"
    /\ status' = [status EXCEPT ![r] = "PENDING"]
    /\ callback' = [callback EXCEPT ![r] = "armed"]
    /\ retry' = [retry EXCEPT ![r] = RetryCount]
    /\ kind' = [kind EXCEPT ![r] = k]
    /\ confirmed' = confirmed \ {r}
    /\ IF fAttached
         THEN /\ stage' = [stage EXCEPT ![r] = "checked"]
              /\ ret' = [ret EXCEPT ![r] = "PENDING"]
         ELSE /\ stage' = [stage EXCEPT ![r] = "refused"]
              /\ ret' = [ret EXCEPT ![r] = "FAILED"]
    /\ UNCHANGED <<queue, slotVars, hcVars, call, detach, cancelling, abandoned>>

(***************************************************************************)
(* QueueBusRequest, under the lock: the first request of an empty queue is *)
(* submitted at once, any other waits and loses the fast path.             *)
(***************************************************************************)
QueueBusRequest(r) ==
    /\ stage[r] = "checked"
    /\ CanLock
    /\ queue' = Append(queue, r)
    /\ stage' = [stage EXCEPT ![r] = "submitted"]
    /\ IF queue = <<>>
         THEN /\ call' = [req |-> r, st |-> "PENDING", pc |-> "first"]
              /\ UNCHANGED kind
         ELSE /\ kind' = [kind EXCEPT ![r] = IF @ = "fast" THEN "sync" ELSE @]
              /\ UNCHANGED call
    /\ UNCHANGED <<slotVars, hcVars, detach, status, callback, retry, ret, cancelling,
                   confirmed, abandoned>>

(***************************************************************************)
(* SubmitRequestToHC: refused unless the slot can take a request; else the *)
(* handler is called, and again n times while the request asks for a       *)
(* retry.  st is the status it ends with.                                  *)
(***************************************************************************)
CanSubmit == fAttached /\ ready /\ hostAttached /\ curHCOwned = NoRequest

SubmitRequestToHC(r, st) ==
    IF CanSubmit
      THEN \E n \in 0 .. (IF NeedRetry(r, status[r]) THEN retry[r] ELSE 0) :
             /\ st \in HandlerStatus(kind[r])
             /\ st \in Failure => n = (IF NeedRetry(r, status[r]) THEN retry[r] ELSE 0)
             /\ retry' = [retry EXCEPT ![r] = @ - n]
             /\ curHCOwned' = IF st = "PENDING" THEN r ELSE NoRequest
             /\ lockCount' = 0
             /\ confirmed' = IF st = "FASTPATH" THEN confirmed \cup {r} ELSE confirmed
      ELSE /\ st = "FAILED"
           /\ UNCHANGED <<retry, hcVars, confirmed>>

(***************************************************************************)
(* The rest of QueueBusRequest for a request that became the head.  A fast *)
(* path request goes back to its caller, without a callback.  A failure    *)
(* without fast path is completed with fSync, FALSE, as its status, which  *)
(* reads as SD_API_STATUS_SUCCESS.                                         *)
(***************************************************************************)
SubmitFirst(st) ==
    LET r == call.req IN
    /\ call.pc = "first"
    /\ SubmitRequestToHC(r, st)
    /\ CASE st = "PENDING" ->
              /\ call' = NoCall
              /\ UNCHANGED <<queue, status, stage, ret>>
         [] st # "PENDING" /\ kind[r] = "fast" ->
              /\ queue' = Tail(queue)
              /\ status' = [status EXCEPT ![r] = st]
              /\ stage' = [stage EXCEPT ![r] = IF st \in Failure THEN "refused" ELSE @]
              /\ ret' = [ret EXCEPT ![r] = st]
              /\ call' = NoCall
         [] OTHER ->
              /\ call' = [req |-> r, st |-> "SUCCESS", pc |-> "enter"]
              /\ stage' = [stage EXCEPT ![r] = "refused"]
              /\ ret' = [ret EXCEPT ![r] = st]
              /\ UNCHANGED <<queue, status>>
    /\ UNCHANGED <<slotVars, detach, callback, kind, cancelling, abandoned>>

(***************************************************************************)
(* A submission that failed is completed by the submitting thread itself.  *)
(***************************************************************************)
CompleteRefused(r) ==
    /\ stage[r] = "refused"
    /\ r \notin ToSet(queue)
    /\ CompleteBusRequest({r}, ret[r])
    /\ stage' = [stage EXCEPT ![r] = "submitted"]
    /\ UNCHANGED <<queue, slotVars, hcVars, call, detach, retry, kind, ret, cancelling,
                   confirmed, abandoned>>

(***************************************************************************)
(* The last reference goes away and the block returns to the free list;    *)
(* nothing its fields held means anything any more.                        *)
(***************************************************************************)
Release(r) ==
    /\ stage[r] = "submitted"
    /\ r \notin ToSet(queue) \cup cancelling
    /\ stage' = [stage EXCEPT ![r] = "free"]
    /\ status' = [status EXCEPT ![r] = "PENDING"]
    /\ callback' = [callback EXCEPT ![r] = "armed"]
    /\ retry' = [retry EXCEPT ![r] = RetryCount]
    /\ kind' = [kind EXCEPT ![r] = "async"]
    /\ ret' = [ret EXCEPT ![r] = "PENDING"]
    /\ confirmed' = confirmed \ {r}
    /\ UNCHANGED <<queue, slotVars, hcVars, call, detach, cancelling, abandoned>>

-----------------------------------------------------------------------------
(***************************************************************************)
(* CompleteRequest, step by step.  It does nothing for a request that is   *)
(* not the head (an assertion in the code).                                *)
(***************************************************************************)
EnterComplete ==
    /\ call.pc = "enter"
    /\ IF queue # <<>> /\ Head(queue) = call.req
         THEN /\ status' = [status EXCEPT ![call.req] = call.st]
              /\ call' = [call EXCEPT !.pc = "complete"]
         ELSE /\ call' = NoCall
              /\ UNCHANGED status
    /\ UNCHANGED <<queue, slotVars, hcVars, detach, callback, retry, kind, clientVars,
                   confirmed, abandoned>>

(* A retriable failure puts the request back and submits it again. *)
RetryRequest ==
    LET r == call.req IN
    /\ call.pc = "complete"
    /\ NeedRetry(r, status[r])
    /\ status' = [status EXCEPT ![r] = "PENDING"]
    /\ retry' = [retry EXCEPT ![r] = @ - 1]
    /\ call' = [req |-> r, st |-> "PENDING", pc |-> "submit"]
    /\ UNCHANGED <<queue, slotVars, hcVars, detach, callback, kind, clientVars, confirmed,
                   abandoned>>

(* The client is called while the request is still the head. *)
CallClient ==
    /\ call.pc = "complete"
    /\ ~ NeedRetry(call.req, status[call.req])
    /\ CompleteBusRequest({call.req}, call.st)
    /\ call' = [call EXCEPT !.pc = "callback"]
    /\ UNCHANGED <<queue, slotVars, hcVars, detach, retry, kind, clientVars, confirmed,
                   abandoned>>

(* Back from the callback: unlink the head and submit the one behind it. *)
PopHead ==
    /\ call.pc = "callback"
    /\ queue' = Tail(queue)
    /\ call' = IF queue' = <<>> THEN NoCall
               ELSE [req |-> Head(queue'), st |-> "PENDING", pc |-> "submit"]
    /\ UNCHANGED <<slotVars, hcVars, detach, reqVars, clientVars, confirmed, abandoned>>

(* An answer on the spot is completed by a recursive call. *)
SubmitNext(st) ==
    /\ call.pc = "submit"
    /\ SubmitRequestToHC(call.req, st)
    /\ call' = IF st = "PENDING" THEN NoCall
               ELSE [req |-> call.req, st |-> st, pc |-> "enter"]
    /\ UNCHANGED <<queue, slotVars, detach, status, callback, kind, clientVars, abandoned>>

-----------------------------------------------------------------------------
(***************************************************************************)
(* The controller driver completes the request it owns.  What it says is   *)
(* dropped once the host has left the container of registered hosts.       *)
(***************************************************************************)
CompleteRequestFromHC(st) ==
    /\ hostAttached
    /\ LockFree
    /\ curHCOwned # NoRequest
    /\ call' = [req |-> curHCOwned, st |-> st, pc |-> "enter"]
    /\ confirmed' = IF st = "SUCCESS" THEN confirmed \cup {curHCOwned} ELSE confirmed
    /\ curHCOwned' = NoRequest
    /\ lockCount' = 0
    /\ abandoned' = FALSE
    /\ UNCHANGED <<queue, slotVars, detach, reqVars, clientVars>>

GetAndLockCurrentRequest ==
    /\ hostAttached
    /\ curHCOwned # NoRequest
    /\ lockCount < MaxLock
    /\ lockCount' = lockCount + 1
    /\ UNCHANGED <<queue, slotVars, curHCOwned, call, detach, reqVars, clientVars, confirmed,
                   abandoned>>

UnlockRequest ==
    /\ hostAttached
    /\ lockCount > 0
    /\ lockCount' = lockCount - 1
    /\ UNCHANGED <<queue, slotVars, curHCOwned, call, detach, reqVars, clientVars, confirmed,
                   abandoned>>

(***************************************************************************)
(* CancelRequestFromHC: a request the driver has locked is left alone.     *)
(* Otherwise its cancel handler is called; it may complete the request at  *)
(* once, from inside the call, or leave it to finish later.                *)
(***************************************************************************)
CancelRequestFromHC(r) ==
    \/ /\ hostAttached /\ curHCOwned = r /\ lockCount = 0
       /\ call' = [req |-> r, st |-> "CANCELED", pc |-> "enter"]
       /\ curHCOwned' = NoRequest
       /\ UNCHANGED lockCount
    \/ UNCHANGED <<call, hcVars>>

(***************************************************************************)
(* SDCancelBusRequest_I and SDFreeBusRequest_I test for completion without *)
(* the lock, and pass an incomplete request to RemoveRequest.              *)
(***************************************************************************)
CancelCheck(r) ==
    /\ "cancel" \in Events
    /\ stage[r] = "submitted" /\ kind[r] = "async"
    /\ ~ IsComplete(r)
    /\ cancelling' = cancelling \cup {r}
    /\ UNCHANGED <<queue, slotVars, hcVars, call, detach, reqVars, stage, ret, confirmed,
                   abandoned>>

RemoveRequest(r) ==
    /\ r \in cancelling
    /\ LockFree \/ (CanLock /\ r # call.req)
    /\ cancelling' = cancelling \ {r}
    /\ IF queue # <<>> /\ Head(queue) = r
         THEN /\ CancelRequestFromHC(r)
              /\ UNCHANGED <<queue, status, callback>>
         ELSE /\ \/ /\ r \notin ToSet(queue)    \* an assertion in the code
                    /\ UNCHANGED <<queue, status, callback>>
                 \/ \E i \in 2 .. Len(queue) :
                      /\ queue[i] = r
                      /\ queue' = RemoveAt(queue, i)
                      /\ CompleteBusRequest({r}, "CANCELED")
              /\ UNCHANGED <<call, hcVars>>
    /\ UNCHANGED <<slotVars, detach, retry, kind, stage, ret, confirmed, abandoned>>

-----------------------------------------------------------------------------
(***************************************************************************)
(* Detach, when the card is ejected or the controller goes away.  The host *)
(* clears m_fHostAttached first.  RemoveAllRequest completes all but the   *)
(* head and cancels the head; a head that is still there after that is     *)
(* completed as well, whether the controller is done with it or not.       *)
(***************************************************************************)
HostDetach ==
    /\ "host" \in Events
    /\ hostAttached
    /\ hostAttached' = FALSE
    /\ UNCHANGED <<queue, fAttached, ready, hcVars, call, detach, reqVars, clientVars,
                   confirmed, abandoned>>

StartDetach ==
    /\ detach = "none"
    /\ "detach" \in Events \/ ~ hostAttached
    /\ fAttached' = FALSE
    /\ detach' = "remove"
    /\ UNCHANGED <<queue, hostAttached, ready, hcVars, call, reqVars, clientVars, confirmed,
                   abandoned>>

RemoveAllRequest ==
    /\ detach = "remove"
    /\ LockFree
    /\ detach' = "rest"
    /\ IF queue = <<>>
         THEN UNCHANGED <<queue, status, callback, call, hcVars>>
         ELSE /\ CompleteBusRequest(ToSet(Tail(queue)), "CANCELED")
              /\ queue' = <<Head(queue)>>
              /\ CancelRequestFromHC(Head(queue))
    /\ UNCHANGED <<slotVars, retry, kind, clientVars, confirmed, abandoned>>

CompleteRest ==
    /\ detach = "rest"
    /\ LockFree
    /\ detach' = "none"
    /\ CompleteBusRequest(ToSet(queue), "CANCELED")
    /\ queue' = <<>>
    /\ abandoned' = (curHCOwned # NoRequest)
    /\ UNCHANGED <<slotVars, hcVars, call, retry, kind, clientVars, confirmed>>

(* A card is inserted: CSDBusReqAsyncQueue::Init. *)
Attach ==
    /\ detach = "none"
    /\ ~ fAttached
    /\ fAttached' = TRUE
    /\ UNCHANGED <<queue, hostAttached, ready, hcVars, call, detach, reqVars, clientVars,
                   confirmed, abandoned>>

(* The slot enters or leaves the states in which it accepts requests. *)
SlotStateChange ==
    /\ "slot" \in Events
    /\ ready' = ~ ready
    /\ UNCHANGED <<queue, fAttached, hostAttached, hcVars, call, detach, reqVars,
                   clientVars, confirmed, abandoned>>

-----------------------------------------------------------------------------
RunCompleteRequest ==
    \/ EnterComplete
    \/ RetryRequest
    \/ CallClient
    \/ PopHead
    \/ \E st \in Status : SubmitNext(st)

Next ==
    \/ RunCompleteRequest
    \/ \E st \in Status : SubmitFirst(st)
    \/ \E st \in IndicatedStatus : CompleteRequestFromHC(st)
    \/ GetAndLockCurrentRequest
    \/ UnlockRequest
    \/ \E r \in Request :
         \/ \E k \in Kinds : NewRequest(r, k)
         \/ QueueBusRequest(r)
         \/ CompleteRefused(r)
         \/ Release(r)
         \/ CancelCheck(r)
         \/ RemoveRequest(r)
    \/ HostDetach
    \/ StartDetach
    \/ RemoveAllRequest
    \/ CompleteRest
    \/ Attach
    \/ SlotStateChange

Spec == Init /\ [][Next]_vars

(***************************************************************************)
(* What liveness needs: the thread inside the queue goes on; a thread that *)
(* waits for the critical section gets it although others come and go      *)
(* (strong fairness: the section is handed to its waiters in turn); the    *)
(* controller answers what it owns, since the hardware times out; a host   *)
(* that goes away detaches its slots.                                      *)
(***************************************************************************)
Fairness ==
    /\ WF_vars(RunCompleteRequest \/ \E st \in Status : SubmitFirst(st))
    /\ WF_vars(\E st \in IndicatedStatus : CompleteRequestFromHC(st))
    /\ SF_vars(RemoveAllRequest \/ CompleteRest)
    /\ WF_vars(~ hostAttached /\ StartDetach)
    /\ \A r \in Request : SF_vars(QueueBusRequest(r)) /\ WF_vars(CompleteRefused(r))

FairSpec == Spec /\ Fairness

-----------------------------------------------------------------------------
CallOK ==
    \/ call = NoCall
    \/ call \in [req : Request, st : Status, pc : Step \ {"none"}]

(* Every variable has its type. *)
TypeOK ==
    /\ queue \in Seq(Request)
    /\ <<fAttached, hostAttached, ready>> \in BOOLEAN \X BOOLEAN \X BOOLEAN
    /\ curHCOwned \in Request \cup {NoRequest}
    /\ lockCount \in 0 .. MaxLock
    /\ CallOK
    /\ detach \in {"none", "remove", "rest"}
    /\ status \in [Request -> Status]
    /\ callback \in [Request -> Status \cup {"armed"}]
    /\ retry \in [Request -> 0 .. RetryCount]
    /\ kind \in [Request -> Kind]
    /\ stage \in [Request -> {"free", "checked", "submitted", "refused"}]
    /\ ret \in [Request -> Status]
    /\ cancelling \subseteq Request
    /\ confirmed \subseteq Request
    /\ abandoned \in BOOLEAN

(***************************************************************************)
(* The controller works on the head of the queue and on nothing else: the  *)
(* memory of a request that left the queue is not its any more.  Detach is *)
(* the only operation that takes the head away under its hands.            *)
(***************************************************************************)
OwnedIsHead ==
    curHCOwned # NoRequest /\ ~ abandoned =>
        queue # <<>> /\ Head(queue) = curHCOwned

(***************************************************************************)
(* No stall: whenever nobody is inside the queue, the head of a non-empty  *)
(* queue is with the controller, whose answer moves the queue on.          *)
(***************************************************************************)
HeadAtHC == queue # <<>> /\ LockFree => curHCOwned = Head(queue)

(***************************************************************************)
(* No request is lost: one that was accepted and is no longer queued is    *)
(* complete, and its client has been called unless the fast path handed    *)
(* the result back.  One that is still queued has had no callback.         *)
(***************************************************************************)
NoLostRequest ==
    \A r \in Request : stage[r] = "submitted" =>
        IF r \in ToSet(queue)
          THEN callback[r] = "armed" \/ (call.req = r /\ call.pc = "callback")
          ELSE IsComplete(r) /\ (callback[r] # "armed" \/ status[r] = "FASTPATH")

(***************************************************************************)
(* A client is told SUCCESS only when the controller said so, as long as   *)
(* QueueBusRequest took the request.                                       *)
(***************************************************************************)
AcceptedHonest ==
    \A r \in Request :
        callback[r] \in {"SUCCESS", "FASTPATH"} /\ ret[r] \notin Failure =>
            r \in confirmed

(***************************************************************************)
(* A client that leaves retries to the bus driver hears of a timeout or of *)
(* a CRC error only after the last retry, if the request was accepted.     *)
(***************************************************************************)
AcceptedRetried ==
    \A r \in Request \ HandlesRetry :
        callback[r] = "TIMEOUT" /\ ret[r] \notin Failure => retry[r] = 0

(***************************************************************************)
(* A completion of the controller never reaches the wrong request: when it *)
(* finds its request at the head, that request is the one it was given.    *)
(***************************************************************************)
CompletionHitsOwner ==
    call.pc = "enter" /\ queue # <<>> /\ Head(queue) = call.req =>
        ~ IsComplete(call.req) /\ callback[call.req] = "armed"

(***************************************************************************)
(* The queue implements the service.  A request leaves the line when its   *)
(* client is called, one step before the list forgets it; what the client  *)
(* was told is the outcome, or the status when there is no callback.       *)
(***************************************************************************)
Pending == IF call.pc = "callback" THEN Tail(queue) ELSE queue

OutcomeOf(r) ==
    IF stage[r] = "free" \/ r \in ToSet(Pending) THEN "none"
    ELSE IF callback[r] # "armed" THEN callback[r]
    ELSE IF IsComplete(r) THEN status[r] ELSE "none"

Service == INSTANCE SDRequestService WITH
    pending <- Pending,
    outcome <- [r \in Request |-> OutcomeOf(r)],
    Outcome <- Status \ {"PENDING"},
    Failed <- Failure

ServiceSpec == Service!Spec

(* Every request that was submitted is completed in the end. *)
EveryRequestCompletes ==
    \A r \in Request :
        stage[r] \in {"checked", "refused"} ~> stage[r] = "submitted" /\ IsComplete(r)

-----------------------------------------------------------------------------
(***************************************************************************)
(* The inductive invariant behind the safety properties.  Line relates the *)
(* list, the running CompleteRequest and the controller; Content says what *)
(* the fields of a request hold at each point of its way.                  *)
(***************************************************************************)
Places == 1 .. Len(queue)
Distinct == \A i, j \in Places : queue[i] = queue[j] => i = j
QueuedStage == \A i \in Places : stage[queue[i]] \in {"submitted", "refused"}

CallAtHead ==
    /\ call.pc \in {"first", "submit", "complete", "callback"} =>
           queue # <<>> /\ Head(queue) = call.req
    /\ call.pc = "first" => Len(queue) = 1
    /\ call.pc = "enter" => queue = <<>> \/ Head(queue) = call.req

(* While somebody is inside the queue, the controller owns nothing, except *)
(* what Detach gave up; as long as it owns that, the queue stays empty.    *)
OwnerDuringCall == call.pc # "none" => abandoned \/ curHCOwned = NoRequest
AbandonedEmpty == abandoned => curHCOwned # NoRequest /\ (LockFree => queue = <<>>)

Line ==
    /\ Distinct
    /\ QueuedStage
    /\ CallAtHead
    /\ OwnerDuringCall
    /\ AbandonedEmpty
    /\ OwnedIsHead
    /\ HeadAtHC

Untouched(r) == status[r] = "PENDING" /\ callback[r] = "armed"

Waiting ==
    \A i \in Places : call.pc = "none" \/ i # 1 => Untouched(queue[i])

HeadContent ==
    LET r == call.req IN
    /\ call.pc \in {"first", "submit"} => Untouched(r)
    /\ call.pc = "first" => stage[r] = "submitted"
    /\ call.pc = "enter" => call.st # "PENDING" /\ (queue # <<>> => Untouched(r))
    /\ call.pc = "complete" =>
           call.st # "PENDING" /\ status[r] = call.st /\ callback[r] = "armed"
    /\ call.pc = "callback" =>
           call.st # "PENDING" /\ status[r] = call.st /\ callback[r] = call.st

CallHonest ==
    call.pc \in {"enter", "complete"} /\ queue # <<>> /\ ret[call.req] \notin Failure
        /\ call.st \in {"SUCCESS", "FASTPATH"} => call.req \in confirmed

OffQueue ==
    \A r \in Request :
        /\ stage[r] = "checked" => Untouched(r)
        /\ stage[r] = "refused" => ret[r] \in Failure
        /\ stage[r] = "submitted" /\ (\A i \in Places : queue[i] # r) =>
              IsComplete(r) /\ (callback[r] # "armed" \/ status[r] = "FASTPATH")

Content ==
    /\ Waiting
    /\ HeadContent
    /\ CallHonest
    /\ OffQueue
    /\ AcceptedHonest
    /\ AcceptedRetried

IInv == TypeOK /\ Line /\ Content

-----------------------------------------------------------------------------
(***************************************************************************)
(* What comments and assertions of the code say, and the code does not do. *)
(***************************************************************************)
(* "Real status should be return from callback from this point." *)
HonestCallback ==
    \A r \in Request : callback[r] = "SUCCESS" => r \in confirmed

(* HandleRemoveDevice, after Detach: ASSERT(m_curHCOwned==NULL). *)
NothingOwnedAfterDetach ==
    [][detach = "rest" /\ detach' = "none" => curHCOwned' = NoRequest]_vars
=============================================================================
