--------------------------- MODULE SDSyncRequest ---------------------------
(***************************************************************************)
(* Synchronous requests of one device (CSDDevice::SDSynchronousBusRequest, *)
(* and SDReadWriteRegistersDirect, which makes one for each register) on   *)
(* top of the request queue of its slot.  A caller holds the request lock  *)
(* of the slot, resets the one event that the device keeps for this        *)
(* purpose, queues its request and, unless the request is complete when    *)
(* it looks, waits for the event, which the request's callback signals.    *)
(*                                                                         *)
(* The queue goes on as in SDBusQueue, with requests of other clients in   *)
(* it; every step of the queue that calls back a synchronous request also  *)
(* signals the event.                                                      *)
(***************************************************************************)
EXTENDS SDBusQueue

CONSTANTS
    Caller,         \* threads that issue synchronous requests
    NoCaller,
    SyncKinds,      \* bound: "sync", or "fast" where the fast path is allowed
    Registers       \* bound: how many registers a call may be for; 0 for a single request

ASSUME CallerAssumption ==
    NoCaller \notin Caller /\ SyncKinds \subseteq {"sync", "fast"} /\ Registers \subseteq Nat

VARIABLES
    requestLock,    \* owner of m_RequestLock
    hSyncEvent,     \* m_hSyncEvent, an auto-reset event
    at,             \* where each caller stands
    mine,           \* the caller's pNewRequest
    registers       \* registers to go in SDReadWriteRegistersDirect; else 0

callerVars == <<requestLock, hSyncEvent, at, mine, registers>>
syncVars == <<vars, callerVars>>

SyncInit ==
    /\ Init
    /\ requestLock = NoCaller
    /\ hSyncEvent = FALSE
    /\ at = [c \in Caller |-> "out"]
    /\ mine = [c \in Caller |-> NoRequest]
    /\ registers = [c \in Caller |-> 0]

(* Nothing of a request is left for its caller to do in the queue. *)
Queued(r) == stage[r] = "submitted" /\ ~ (call.req = r /\ call.pc = "first")

(***************************************************************************)
(* m_RequestLock is held by a synchronous caller until it returns, and by  *)
(* the thread in SDBusRequest until its request is queued or completed.    *)
(* That thread may take it again in a callback that it runs meanwhile.     *)
(***************************************************************************)
RequestLockFree ==
    requestLock = NoCaller /\ \A r \in Request : stage[r] = "free" \/ Queued(r)

InSubmittersCallback ==
    call.pc = "callback" /\ \E r \in Request : stage[r] = "refused"

-----------------------------------------------------------------------------
(* Slip: a request that may take the fast path is given no callback. *)
CalledBackSlowOnly ==
    \E r \in Request : kind[r] = "sync" /\ callback[r] = "armed" /\ callback'[r] # "armed"

-----------------------------------------------------------------------------
(***************************************************************************)
(* The event is reset and a new request is made for the queue.             *)
(***************************************************************************)
MakeRequest(c, r, k) ==
    /\ hSyncEvent' = FALSE
    /\ NewRequest(r, k)
    /\ mine' = [mine EXCEPT ![c] = r]
    /\ at' = [at EXCEPT ![c] = "queue"]

(***************************************************************************)
(* SDSynchronousBusRequest_I, or SDReadWriteRegistersDirect_I for n        *)
(* registers, up to the point where the request goes into the queue.       *)
(***************************************************************************)
BeginSync(c, r, k, n) ==
    /\ at[c] = "out"
    /\ RequestLockFree
    /\ requestLock' = c
    /\ MakeRequest(c, r, k)
    /\ registers' = [registers EXCEPT ![c] = n]

(* IsComplete, without any lock of the queue. *)
TestComplete(c) ==
    /\ at[c] = "queue" /\ Queued(mine[c])
    /\ at' = [at EXCEPT ![c] = IF IsComplete(mine[c]) THEN "complete" ELSE "wait"]
    /\ UNCHANGED <<vars, requestLock, hSyncEvent, mine, registers>>

WaitForSyncEvent(c) ==
    /\ at[c] = "wait"
    /\ hSyncEvent
    /\ hSyncEvent' = FALSE
    /\ at' = [at EXCEPT ![c] = "complete"]
    /\ UNCHANGED <<vars, requestLock, mine, registers>>

(***************************************************************************)
(* The request is taken for complete.  SDSynchronousBusRequest returns its *)
(* status, or that of QueueBusRequest if it did not accept the request;    *)
(* SDReadWriteRegistersDirect looks at its status alone.                   *)
(***************************************************************************)
Answer(c) ==
    LET r == mine[c]
    IN IF registers[c] = 0 /\ ret[r] \in Failure THEN ret[r] ELSE status[r]

(* The next register follows, unless this one failed or was the last. *)
NextRegister(c, r, k) ==
    /\ at[c] = "complete"
    /\ registers[c] > 1
    /\ Answer(c) \notin Failure
    /\ registers' = [registers EXCEPT ![c] = @ - 1]
    /\ MakeRequest(c, r, k)
    /\ UNCHANGED requestLock

(* It may return before the last register: an R5 response tells an error,  *)
(* or the caller's buffer cannot be read.                                  *)
ReturnSync(c) ==
    /\ at[c] = "complete"
    /\ at' = [at EXCEPT ![c] = "out"]
    /\ mine' = [mine EXCEPT ![c] = NoRequest]
    /\ requestLock' = NoCaller
    /\ registers' = [registers EXCEPT ![c] = 0]
    /\ UNCHANGED <<vars, hSyncEvent>>

(***************************************************************************)
(* A step of the queue, and SDSyncRequestCallback.  The block of a request *)
(* that a caller holds is not freed, and another client needs the request  *)
(* lock to make a request.                                                 *)
(***************************************************************************)
CalledBack ==
    \E r \in Request : kind[r] # "async" /\ callback[r] = "armed" /\ callback'[r] # "armed"

Signal ==
    /\ hSyncEvent' = (hSyncEvent \/ CalledBack)
    /\ UNCHANGED <<requestLock, at, mine, registers>>

QueueStep ==
    /\ Next
    /\ \A c \in Caller : mine[c] # NoRequest => stage'[mine[c]] # "free"
    /\ (\E r \in Request : stage[r] = "free" /\ stage'[r] # "free") =>
          RequestLockFree \/ InSubmittersCallback
    /\ Signal

SyncCall(c) == TestComplete(c) \/ WaitForSyncEvent(c) \/ ReturnSync(c)

SyncNext ==
    \/ QueueStep
    \/ \E c \in Caller :
         \/ \E r \in Request, k \in SyncKinds :
              (\E n \in Registers : BeginSync(c, r, k, n)) \/ NextRegister(c, r, k)
         \/ SyncCall(c)

SyncSpec == SyncInit /\ [][SyncNext]_syncVars

(* The callers run, and the queue and the controller as in SDBusQueue. *)
SyncFairness ==
    /\ WF_syncVars((RunCompleteRequest \/ \E st \in Status : SubmitFirst(st)) /\ Signal)
    /\ WF_syncVars((\E st \in IndicatedStatus : CompleteRequestFromHC(st)) /\ Signal)
    /\ SF_syncVars((RemoveAllRequest \/ CompleteRest) /\ Signal)
    /\ WF_syncVars(~ hostAttached /\ StartDetach /\ Signal)
    /\ \A r \in Request :
         SF_syncVars(QueueBusRequest(r) /\ Signal) /\ WF_syncVars(CompleteRefused(r) /\ Signal)
    /\ \A c \in Caller : WF_syncVars(SyncCall(c))

FairSyncSpec == SyncSpec /\ SyncFairness

-----------------------------------------------------------------------------
(* Every variable has its type. *)
SyncTypeOK ==
    /\ TypeOK
    /\ requestLock \in Caller \cup {NoCaller}
    /\ hSyncEvent \in BOOLEAN
    /\ at \in [Caller -> {"out", "queue", "wait", "complete"}]
    /\ mine \in [Caller -> Request \cup {NoRequest}]
    /\ registers \in [Caller -> Nat]

(***************************************************************************)
(* No wake-up is lost: a caller that waits although its request has been   *)
(* called back, or has left the queue, finds the event signalled.          *)
(***************************************************************************)
NoLostSignal ==
    \A c \in Caller : at[c] = "wait" =>
        \/ hSyncEvent
        \/ mine[c] \in ToSet(queue) /\ callback[mine[c]] = "armed"

(***************************************************************************)
(* A caller that is told SUCCESS, or has its answer over the fast path,    *)
(* can rely on it: the controller finished that very request.  PENDING, on *)
(* the other hand, which counts as a success too, promises nothing.        *)
(***************************************************************************)
SuccessIsConfirmed ==
    \A c \in Caller :
        at[c] = "complete" /\ Answer(c) \in {"SUCCESS", "FASTPATH"} =>
            mine[c] \in confirmed

(* Every call returns, also when the card or the controller goes away. *)
EverySyncCallReturns == \A c \in Caller : at[c] # "out" ~> at[c] = "out"

-----------------------------------------------------------------------------
(***************************************************************************)
(* The inductive invariant behind the safety properties, on top of that of *)
(* the queue.                                                              *)
(***************************************************************************)
Holding ==
    \A c \in Caller : /\ at[c] # "out" <=> requestLock = c
                      /\ at[c] # "out" <=> mine[c] # NoRequest

InHand ==
    \A c \in Caller : at[c] # "out" =>
        /\ stage[mine[c]] # "free" /\ kind[mine[c]] # "async"
        /\ at[c] # "queue" => Queued(mine[c])

StatusHonest ==
    \A r \in Request :
        status[r] \in {"SUCCESS", "FASTPATH"} /\ (ret[r] \notin Failure \/ stage[r] = "submitted") =>
            r \in confirmed

(* A request that was not refused has no failure of its submission. *)
Accepted ==
    \A r \in Request :
        stage[r] = "checked" \/ (stage[r] = "submitted" /\ r \in ToSet(queue)) =>
            ret[r] \notin Failure

SyncIInv ==
    SyncTypeOK /\ IInv /\ Holding /\ InHand /\ NoLostSignal /\ StatusHonest /\ Accepted

-----------------------------------------------------------------------------
(***************************************************************************)
(* What an assertion of the code says, and the code does not do: after the *)
(* test or the wait, ASSERT(pNewRequest->IsComplete()).                    *)
(***************************************************************************)
WaitedForCompletion == \A c \in Caller : at[c] = "complete" => IsComplete(mine[c])
=============================================================================
