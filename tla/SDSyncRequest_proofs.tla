----------------------- MODULE SDSyncRequest_proofs -----------------------
(***************************************************************************)
(* Proofs about synchronous requests: no wake-up is lost, and a success    *)
(* that a caller is told is one the controller reported; for any number of *)
(* callers and requests, any retry count and any disturbance.              *)
(***************************************************************************)
EXTENDS SDSyncRequest, SDBusQueue_proofs

(* Actions that leave the list and the requests alone. *)
Bystander ==
    \/ GetAndLockCurrentRequest \/ UnlockRequest
    \/ \E r \in Request : CancelCheck(r)
    \/ HostDetach \/ StartDetach \/ Attach \/ SlotStateChange

LEMMA BystanderFrame ==
    ASSUME Bystander
    PROVE  UNCHANGED <<queue, call, reqVars, stage, ret, confirmed>>
BY DEF Bystander, GetAndLockCurrentRequest, UnlockRequest, CancelCheck, HostDetach, StartDetach,
       Attach, SlotStateChange, reqVars, clientVars

LEMMA InSet ==
    ASSUME NEW S, NEW s \in Seq(S), NEW i \in 1 .. Len(s)
    PROVE  s[i] \in ToSet(s)
BY LenProperties DEF ToSet

(* The invariant of the queue after any of its steps, and after the start  *)
(* of a synchronous request.                                               *)
LEMMA QueueInvariantStep ==
    ASSUME IInv, [Next]_vars \/ \E r \in Request, k \in Kind : NewRequest(r, k)
    PROVE  IInv'
<1>1. CASE [Next]_vars
  BY <1>1, NextLine, NextContent DEF IInv
<1>2. CASE \E r \in Request, k \in Kind : NewRequest(r, k)
  BY <1>2, NewRequestLine, NewRequestContent DEF IInv
<1> QED BY <1>1, <1>2

-----------------------------------------------------------------------------
(***************************************************************************)
(* What a step of the queue does to a request that a caller waits for.     *)
(***************************************************************************)
LEMMA KindKept ==
    ASSUME TypeOK, Next, NEW r \in Request,
           stage[r] # "free", stage'[r] # "free", kind[r] # "async"
    PROVE  kind'[r] # "async"
<1> USE DEF TypeOK, reqVars
<1>1. CASE RunCompleteRequest
  BY <1>1 DEF RunCompleteRequest, EnterComplete, RetryRequest, CallClient, PopHead, SubmitNext
<1>2. CASE \E st \in Status : SubmitFirst(st)
  BY <1>2 DEF SubmitFirst
<1>3. CASE \E st \in IndicatedStatus : CompleteRequestFromHC(st)
  BY <1>3 DEF CompleteRequestFromHC
<1>4. ASSUME NEW q \in Request, NEW k \in Kinds, NewRequest(q, k) PROVE kind'[r] # "async"
  <2>1. q # r /\ kind' = [kind EXCEPT ![q] = k]
    BY <1>4 DEF NewRequest
  <2> QED BY <2>1
<1>5. ASSUME NEW q \in Request, QueueBusRequest(q) PROVE kind'[r] # "async"
  <2>1. \/ kind' = kind
        \/ kind' = [kind EXCEPT ![q] = IF kind[q] = "fast" THEN "sync" ELSE kind[q]]
    BY <1>5 DEF QueueBusRequest
  <2> QED BY <2>1
<1>6. ASSUME NEW q \in Request, Release(q) PROVE kind'[r] # "async"
  <2>1. kind' = [kind EXCEPT ![q] = "async"] /\ stage' = [stage EXCEPT ![q] = "free"]
    BY <1>6 DEF Release
  <2>2. q # r
    BY <2>1
  <2> QED BY <2>1, <2>2
<1>7. ASSUME NEW q \in Request, CompleteRefused(q) \/ RemoveRequest(q) PROVE kind'[r] # "async"
  BY <1>7 DEF CompleteRefused, RemoveRequest
<1>8. CASE RemoveAllRequest \/ CompleteRest
  BY <1>8 DEF RemoveAllRequest, CompleteRest
<1>9. CASE Bystander
  BY <1>9, BystanderFrame
<1> QED BY <1>1, <1>2, <1>3, <1>4, <1>5, <1>6, <1>7, <1>8, <1>9 DEF Next, Bystander

(* The submission of a request that is alone in the queue. *)
LEMMA FirstEffect ==
    ASSUME IInv, NEW st \in Status, SubmitFirst(st)
    PROVE  /\ call.pc = "first" /\ call'.pc # "first" /\ confirmed \subseteq confirmed'
           /\ \A q \in Request \ {call.req} :
                stage'[q] = stage[q] /\ status'[q] = status[q] /\ ret'[q] = ret[q]
           /\ status'[call.req] = "FASTPATH" => call.req \in confirmed'
           /\ status'[call.req] # "SUCCESS"
<1> DEFINE r == call.req
<1>0. /\ call.pc = "first" /\ r \in Request /\ status[r] = "PENDING" /\ TypeOK
  BY CallRecord DEF SubmitFirst, IInv, Content, HeadContent, Untouched
<1>1. SubmitRequestToHC(r, st)
  BY DEF SubmitFirst
<1>2. /\ confirmed \subseteq confirmed'
      /\ st # "SUCCESS" /\ (st = "FASTPATH" => r \in confirmed')
  <2>1. CASE CanSubmit
    <3>1. /\ st \in HandlerStatus(kind[r])
          /\ confirmed' = IF st = "FASTPATH" THEN confirmed \cup {r} ELSE confirmed
      BY <1>1, <2>1 DEF SubmitRequestToHC
    <3> QED BY <3>1 DEF HandlerStatus
  <2>2. CASE ~ CanSubmit
    BY <1>1, <2>2 DEF SubmitRequestToHC
  <2> QED BY <2>1, <2>2
<1> HIDE DEF r
<1>3. CASE st = "PENDING"
  <2>1. call' = NoCall /\ UNCHANGED <<status, stage, ret>>
    BY <1>3 DEF SubmitFirst
  <2> QED BY <1>0, <1>2, <2>1 DEF r, NoCall
<1>4. CASE st # "PENDING" /\ kind[r] = "fast"
  <2>1. /\ status' = [status EXCEPT ![r] = st] /\ ret' = [ret EXCEPT ![r] = st] /\ call' = NoCall
        /\ stage' = [stage EXCEPT ![r] = IF st \in Failure THEN "refused" ELSE stage[r]]
    BY <1>4 DEF SubmitFirst, r
  <2> QED BY <1>0, <1>2, <2>1 DEF r, NoCall, TypeOK
<1>5. CASE st # "PENDING" /\ kind[r] # "fast"
  <2>1. /\ call' = [req |-> r, st |-> "SUCCESS", pc |-> "enter"] /\ UNCHANGED status
        /\ ret' = [ret EXCEPT ![r] = st] /\ stage' = [stage EXCEPT ![r] = "refused"]
    BY <1>5 DEF SubmitFirst, r
  <2> QED BY <1>0, <1>2, <2>1 DEF r, TypeOK
<1> QED BY <1>3, <1>4, <1>5

(* The thread that submitted the request is past QueueBusRequest. *)
LEMMA StaysSubmitted ==
    ASSUME IInv, Next, NEW r \in Request, Queued(r), stage'[r] # "free"
    PROVE  Queued(r)'
<1>0. /\ TypeOK /\ Line /\ stage[r] = "submitted" /\ ~ (call.req = r /\ call.pc = "first")
      /\ stage \in [Request -> {"free", "checked", "submitted", "refused"}]
  BY DEF IInv, Queued, TypeOK
<1> USE DEF Queued
<1>1. CASE EnterComplete \/ RetryRequest \/ CallClient
  <2>1. stage' = stage /\ call.pc # "none" /\ call'.pc # "first"
    BY <1>1, CallRecord, <1>0 DEF EnterComplete, RetryRequest, CallClient, NoCall, clientVars, Step
  <2> QED BY <1>0, <2>1
<1>2. CASE PopHead \/ \E st \in Status : SubmitNext(st)
  <2>1. stage' = stage /\ call'.pc # "first"
    BY <1>2 DEF PopHead, SubmitNext, NoCall, clientVars
  <2> QED BY <1>0, <2>1
<1>3. CASE \E st \in Status : SubmitFirst(st)
  <2>1. PICK st \in Status : SubmitFirst(st)
    BY <1>3
  <2>2. call.pc = "first" /\ call.req # r
    BY <1>0, <2>1 DEF SubmitFirst
  <2> QED BY <1>0, <2>1, <2>2, FirstEffect
<1>4. CASE \E st \in IndicatedStatus : CompleteRequestFromHC(st)
  <2>1. stage' = stage /\ call'.pc # "first"
    BY <1>4 DEF CompleteRequestFromHC, clientVars
  <2> QED BY <1>0, <2>1
<1>5. ASSUME NEW q \in Request, NEW k \in Kinds, NewRequest(q, k) PROVE Queued(r)'
  <2>1. q # r /\ call' = call
    BY <1>0, <1>5 DEF NewRequest
  <2>2. stage'[r] = stage[r]
    BY <1>0, <1>5, <2>1 DEF NewRequest
  <2> QED BY <1>0, <2>1, <2>2
<1>6. ASSUME NEW q \in Request, QueueBusRequest(q) PROVE Queued(r)'
  <2>1. q # r /\ stage' = [stage EXCEPT ![q] = "submitted"] /\ (call' = call \/ call'.req = q)
    BY <1>0, <1>6 DEF QueueBusRequest
  <2> QED BY <1>0, <2>1
<1>7. ASSUME NEW q \in Request, CompleteRefused(q) \/ Release(q) PROVE Queued(r)'
  <2>1. /\ call' = call
        /\ stage' = [stage EXCEPT ![q] = "submitted"] \/ stage' = [stage EXCEPT ![q] = "free"]
    BY <1>7 DEF CompleteRefused, Release
  <2> QED BY <1>0, <2>1
<1>8. ASSUME NEW q \in Request, RemoveRequest(q) PROVE Queued(r)'
  <2>1. stage' = stage /\ (call' = call \/ call'.pc = "enter")
    BY <1>8 DEF RemoveRequest, CancelRequestFromHC
  <2> QED BY <1>0, <2>1
<1>9. CASE RemoveAllRequest \/ CompleteRest
  <2>1. stage' = stage /\ (call' = call \/ call'.pc = "enter")
    BY <1>9 DEF RemoveAllRequest, CompleteRest, CancelRequestFromHC, clientVars
  <2> QED BY <1>0, <2>1
<1>10. CASE Bystander
  BY <1>0, <1>10, BystanderFrame
<1> QED
  BY <1>1, <1>2, <1>3, <1>4, <1>5, <1>6, <1>7, <1>8, <1>9, <1>10 DEF Next, Bystander, RunCompleteRequest

(* It leaves the list only together with its callback. *)
LEMMA LeavesCalledBack ==
    ASSUME IInv, Next, NEW r \in Request, Queued(r), r \in ToSet(queue),
           callback[r] = "armed", callback'[r] = "armed"
    PROVE  r \in ToSet(queue')
<1>0. /\ TypeOK /\ Line /\ ~ (call.req = r /\ call.pc = "first") /\ queue \in Seq(Request)
      /\ callback \in [Request -> Status \cup {"armed"}] /\ "armed" \notin Status
  BY DEF IInv, Queued, TypeOK, Status, Failure
<1>a. PICK i \in Places : queue[i] = r
  BY <1>0, QueueSet
<1>b. i \in 1 .. Len(queue) /\ Len(queue) \in Nat /\ queue # <<>>
  BY <1>0, <1>a, QueueSet, EmptySeq DEF Places
<1>1. CASE queue' = queue
  BY <1>1
<1>2. ASSUME NEW q \in Request, QueueBusRequest(q) PROVE r \in ToSet(queue')
  <2>1. queue' = Append(queue, q)
    BY <1>2 DEF QueueBusRequest
  <2>2. queue' \in Seq(Request) /\ i \in 1 .. Len(queue') /\ queue'[i] = r
    BY <1>0, <1>a, <1>b, <2>1, AppendProperties
  <2> QED BY <2>2, InSet
<1>3. CASE \E st \in Status : SubmitFirst(st)
  <2>1. call.pc = "first"
    BY <1>3 DEF SubmitFirst
  <2>2. queue[1] = call.req /\ i = 1
    BY <1>0, <1>a, <1>b, <2>1, CallIsFirst
  <2> QED BY <1>0, <1>a, <2>1, <2>2
<1>4. CASE PopHead
  <2>1. call.pc = "callback" /\ queue' = Tail(queue)
    BY <1>4 DEF PopHead
  <2>2. queue[1] = call.req /\ callback[call.req] = call.st /\ call.st \in Status
    BY <1>0, <1>b, <2>1, CallIsFirst, CallRecord DEF IInv, Content, HeadContent
  <2>3. i # 1
    BY <1>0, <1>a, <2>2
  <2>4. queue' \in Seq(Request) /\ Len(queue') = Len(queue) - 1 /\ queue'[i - 1] = queue[i]
    BY <1>0, <1>b, <2>1, <2>3, HeadTailProperties
  <2>5. i - 1 \in 1 .. Len(queue')
    BY <1>b, <2>3, <2>4
  <2> QED BY <1>a, <2>4, <2>5, InSet
<1>5. ASSUME NEW q \in Request, RemoveRequest(q), queue' # queue PROVE r \in ToSet(queue')
  <2>1. PICK n \in 2 .. Len(queue) :
          queue[n] = q /\ queue' = RemoveAt(queue, n) /\ CompleteBusRequest({q}, "CANCELED")
    BY <1>5 DEF RemoveRequest
  <2>2. q # r
    BY <1>0, <2>1 DEF CompleteBusRequest, Status, Failure
  <2>3. n \in 1 .. Len(queue) /\ i # n
    BY <1>a, <1>b, <2>1, <2>2
  <2>4. /\ queue' \in Seq(Request) /\ Len(queue') = Len(queue) - 1
        /\ \A j \in 1 .. Len(queue) - 1 : queue'[j] = IF j < n THEN queue[j] ELSE queue[j + 1]
    BY <1>0, <2>1, <2>3, RemoveAtProperties
  <2>5. CASE i < n
    <3>1. i \in 1 .. Len(queue') /\ queue'[i] = r
      BY <1>a, <1>b, <2>3, <2>4, <2>5
    <3> QED BY <2>4, <3>1, InSet
  <2>6. CASE i > n
    <3>1. i - 1 \in 1 .. Len(queue') /\ queue'[i - 1] = r
      BY <1>a, <1>b, <2>3, <2>4, <2>6
    <3> QED BY <2>4, <3>1, InSet
  <2> QED BY <1>b, <2>3, <2>5, <2>6
<1>6. CASE RemoveAllRequest
  <2>1. /\ queue' = <<Head(queue)>>
        /\ \A q \in ToSet(Tail(queue)) : q \in Request /\ callback[q] = "armed" => callback'[q] = "CANCELED"
    BY <1>6, <1>b DEF RemoveAllRequest, CompleteBusRequest
  <2>2. CASE i = 1
    BY <1>a, <1>0, <1>b, <2>1, <2>2, HeadIsFirst DEF ToSet
  <2>3. CASE i # 1
    <3>1. Tail(queue) \in Seq(Request) /\ Len(Tail(queue)) = Len(queue) - 1 /\ Tail(queue)[i - 1] = r
      BY <1>0, <1>a, <1>b, <2>3, HeadTailProperties
    <3>2. i - 1 \in 1 .. Len(Tail(queue))
      BY <1>b, <2>3, <3>1
    <3>3. r \in ToSet(Tail(queue))
      BY <3>1, <3>2, InSet
    <3> QED BY <2>1, <3>3
  <2> QED BY <2>2, <2>3
<1>7. CASE CompleteRest
  BY <1>7 DEF CompleteRest, CompleteBusRequest
<1>8. CASE EnterComplete \/ RetryRequest \/ CallClient \/ \E st \in Status : SubmitNext(st)
  BY <1>1, <1>8 DEF EnterComplete, RetryRequest, CallClient, SubmitNext
<1>9. CASE \E st \in IndicatedStatus : CompleteRequestFromHC(st)
  BY <1>1, <1>9 DEF CompleteRequestFromHC
<1>10. ASSUME NEW q \in Request,
              CompleteRefused(q) \/ Release(q) \/ \E k \in Kinds : NewRequest(q, k)
       PROVE  r \in ToSet(queue')
  BY <1>1, <1>10 DEF CompleteRefused, Release, NewRequest
<1>11. CASE Bystander
  BY <1>1, <1>11, BystanderFrame
<1> QED
  BY <1>1, <1>2, <1>3, <1>4, <1>5, <1>6, <1>7, <1>8, <1>9, <1>10, <1>11
  DEF Next, Bystander, RunCompleteRequest

(* A request that is queued and not complete still has its callback. *)
LEMMA ArmedWhilePending ==
    ASSUME IInv, NEW r \in Request, Queued(r), ~ IsComplete(r)
    PROVE  r \in ToSet(queue) /\ callback[r] = "armed"
<1>1. /\ TypeOK /\ Line /\ Content /\ status[r] = "PENDING" /\ stage[r] = "submitted"
      /\ ~ (call.req = r /\ call.pc = "first")
  BY DEF IInv, Queued, IsComplete
<1>2. r \in ToSet(queue)
  BY <1>1, QueueSet DEF Content, OffQueue, IsComplete
<1>3. PICK i \in Places : queue[i] = r
  BY <1>1, <1>2, QueueSet
<1>4. CASE call.pc = "none" \/ i # 1
  BY <1>1, <1>2, <1>3, <1>4 DEF Content, Waiting, Untouched
<1>5. CASE call.pc # "none" /\ i = 1
  <2>1. queue # <<>>
    BY <1>1, <1>3, QueueSet DEF Places
  <2>2. call.req = r /\ call.pc \in Step \ {"none"}
    BY <1>1, <1>3, <1>5, <2>1, CallIsFirst, CallRecord
  <2> QED BY <1>1, <1>2, <2>1, <2>2 DEF Content, HeadContent, Untouched, Step
<1> QED BY <1>4, <1>5

-----------------------------------------------------------------------------
(***************************************************************************)
(* A status of success is one that the controller reported.                *)
(***************************************************************************)

(* A status changes to something that is not a success, or not at all. *)
LEMMA HonestFrame ==
    ASSUME TypeOK, StatusHonest, UNCHANGED ret, confirmed \subseteq confirmed',
           \A r \in Request :
             \/ status'[r] \notin {"SUCCESS", "FASTPATH"}
             \/ status'[r] = status[r] /\ (stage' = stage \/ ret[r] \notin Failure)
             \/ status'[r] = status[r] /\ stage'[r] = stage[r]
    PROVE  StatusHonest'
BY DEF StatusHonest

LEMMA ForgottenHonest ==
    ASSUME TypeOK, StatusHonest, NEW q \in Request,
           status' = [status EXCEPT ![q] = "PENDING"], confirmed' = confirmed \ {q},
           \A r \in Request \ {q} : ret'[r] = ret[r] /\ stage'[r] = stage[r]
    PROVE  StatusHonest'
<1> SUFFICES ASSUME NEW r \in Request, status'[r] \in {"SUCCESS", "FASTPATH"},
                    ret'[r] \notin Failure \/ stage'[r] = "submitted"
             PROVE  r \in confirmed'
  BY DEF StatusHonest
<1>1. r # q
  BY DEF TypeOK
<1> QED BY <1>1 DEF StatusHonest, TypeOK

LEMMA NewRequestHonest ==
    ASSUME TypeOK, StatusHonest, NEW q \in Request, NEW k, NewRequest(q, k)
    PROVE  StatusHonest'
<1>1. /\ status' = [status EXCEPT ![q] = "PENDING"] /\ confirmed' = confirmed \ {q}
      /\ ret' = [ret EXCEPT ![q] = "PENDING"] \/ ret' = [ret EXCEPT ![q] = "FAILED"]
      /\ stage' = [stage EXCEPT ![q] = "checked"] \/ stage' = [stage EXCEPT ![q] = "refused"]
  BY DEF NewRequest
<1>2. \A r \in Request \ {q} : ret'[r] = ret[r] /\ stage'[r] = stage[r]
  BY <1>1 DEF TypeOK
<1> QED BY <1>1, <1>2, ForgottenHonest

LEMMA HonestStep ==
    ASSUME IInv, StatusHonest, Accepted, Next
    PROVE  StatusHonest'
<1>0. TypeOK /\ Line /\ Content /\ status \in [Request -> Status]
  BY DEF IInv, TypeOK
<1> USE DEF reqVars, clientVars
<1>1. CASE EnterComplete
  <2>1. CASE call' = NoCall /\ UNCHANGED status
    BY <1>0, <1>1, <2>1, HonestFrame DEF EnterComplete
  <2>2. CASE queue # <<>> /\ status' = [status EXCEPT ![call.req] = call.st]
    <3>1. /\ call.pc = "enter" /\ UNCHANGED <<ret, stage, confirmed>>
          /\ ret[call.req] \notin Failure /\ call.st \in {"SUCCESS", "FASTPATH"} => call.req \in confirmed
      BY <1>0, <1>1, <2>2 DEF EnterComplete, Content, CallHonest
    <3>2. call.req \in Request /\ call.req \in ToSet(queue)
      <4>1. queue[1] = call.req /\ queue \in Seq(Request) /\ 1 \in 1 .. Len(queue)
        BY <1>0, <2>2, <3>1, CallIsFirst, EmptySeq DEF TypeOK
      <4> QED BY <4>1, InSet, CallRecord, <1>0, <3>1
    <3>3. stage[call.req] = "submitted" => ret[call.req] \notin Failure
      BY <3>2 DEF Accepted
    <3> QED BY <1>0, <2>2, <3>1, <3>3 DEF StatusHonest
  <2> QED BY <1>1, <2>1, <2>2 DEF EnterComplete
<1>2. CASE RetryRequest
  <2>1. status' = [status EXCEPT ![call.req] = "PENDING"] /\ UNCHANGED <<ret, stage, confirmed>>
    BY <1>2 DEF RetryRequest
  <2> QED BY <1>0, <2>1, HonestFrame
<1>3. CASE CallClient
  <2>1. /\ \A r \in Request : r = call.req => status[r] = call.st
        /\ status' = [r \in Request |-> IF r \in {call.req} THEN call.st ELSE status[r]]
        /\ UNCHANGED <<ret, stage, confirmed>>
    BY <1>0, <1>3 DEF CallClient, CompleteBusRequest, Content, HeadContent
  <2> QED BY <1>0, <2>1, HonestFrame
<1>4. CASE PopHead
  BY <1>0, <1>4, HonestFrame DEF PopHead
<1>5. ASSUME NEW st \in Status, SubmitNext(st) PROVE StatusHonest'
  <2>1. SubmitRequestToHC(call.req, st) /\ call.req \in Request /\ UNCHANGED <<status, ret, stage>>
    BY <1>0, <1>5, CallRecord DEF SubmitNext
  <2>2. confirmed \subseteq confirmed'
    BY <1>0, <2>1, SubmitEffect
  <2> QED BY <1>0, <2>1, <2>2, HonestFrame
<1>6. ASSUME NEW st \in Status, SubmitFirst(st) PROVE StatusHonest'
  BY <1>6, FirstEffect DEF StatusHonest
<1>7. CASE \E st \in IndicatedStatus : CompleteRequestFromHC(st)
  BY <1>0, <1>7, HonestFrame DEF CompleteRequestFromHC
<1>8. CASE \E q \in Request, k \in Kinds : NewRequest(q, k)
  BY <1>0, <1>8, NewRequestHonest
<1>9. ASSUME NEW q \in Request, QueueBusRequest(q) PROVE StatusHonest'
  <2>1. /\ stage[q] = "checked" /\ stage' = [stage EXCEPT ![q] = "submitted"]
        /\ UNCHANGED <<status, ret, confirmed>>
    BY <1>9 DEF QueueBusRequest
  <2>2. ret[q] \notin Failure
    BY <2>1 DEF Accepted
  <2>3. \A r \in Request : stage'[r] = "submitted" => stage[r] = "submitted" \/ r = q
    BY <1>0, <2>1 DEF TypeOK
  <2> QED BY <2>1, <2>2, <2>3 DEF StatusHonest
<1>10. ASSUME NEW q \in Request, CompleteRefused(q) PROVE StatusHonest'
  <2>1. /\ ret[q] \in Failure /\ UNCHANGED <<ret, confirmed>>
        /\ status' = [r \in Request |-> IF r \in {q} THEN ret[q] ELSE status[r]]
        /\ stage' = [stage EXCEPT ![q] = "submitted"]
    BY <1>0, <1>10 DEF CompleteRefused, CompleteBusRequest, Content, OffQueue
  <2>2. "SUCCESS" \notin Failure /\ "FASTPATH" \notin Failure
    BY DEF Failure
  <2>3. status'[q] = ret[q] /\ \A r \in Request \ {q} : status'[r] = status[r] /\ stage'[r] = stage[r]
    BY <1>0, <2>1 DEF TypeOK
  <2> QED BY <2>1, <2>2, <2>3 DEF StatusHonest
<1>11. ASSUME NEW q \in Request, Release(q) PROVE StatusHonest'
  <2>1. /\ status' = [status EXCEPT ![q] = "PENDING"] /\ confirmed' = confirmed \ {q}
        /\ ret' = [ret EXCEPT ![q] = "PENDING"] /\ stage' = [stage EXCEPT ![q] = "free"]
    BY <1>11 DEF Release
  <2> QED BY <1>0, <2>1, ForgottenHonest DEF TypeOK
<1>12. CASE (\E q \in Request : RemoveRequest(q)) \/ RemoveAllRequest \/ CompleteRest
  <2>1. /\ UNCHANGED <<ret, stage, confirmed>>
        /\ status' = status \/ \E R : CompleteBusRequest(R, "CANCELED")
    <3>1. CASE \E q \in Request : RemoveRequest(q)
      BY <3>1 DEF RemoveRequest
    <3>2. CASE RemoveAllRequest
      BY <3>2 DEF RemoveAllRequest
    <3>3. CASE CompleteRest
      BY <3>3 DEF CompleteRest
    <3> QED BY <1>12, <3>1, <3>2, <3>3
  <2>2. \A r \in Request : status'[r] = status[r] \/ status'[r] = "CANCELED"
    BY <2>1 DEF CompleteBusRequest
  <2> QED BY <1>0, <2>1, <2>2, HonestFrame
<1>13. CASE Bystander
  BY <1>0, <1>13, BystanderFrame, HonestFrame
<1> QED
  BY <1>1, <1>2, <1>3, <1>4, <1>5, <1>6, <1>7, <1>8, <1>9, <1>10, <1>11, <1>12, <1>13
  DEF Next, Bystander, RunCompleteRequest

-----------------------------------------------------------------------------
(***************************************************************************)
(* A request that is checked, or queued and not refused, has no failure.   *)
(***************************************************************************)
LEMMA NewRequestAccepted ==
    ASSUME TypeOK, Line, Accepted, NEW q \in Request, NEW k, NewRequest(q, k)
    PROVE  Accepted'
<1>1. /\ queue' = queue
      /\ \/ stage' = [stage EXCEPT ![q] = "checked"] /\ ret' = [ret EXCEPT ![q] = "PENDING"]
         \/ stage' = [stage EXCEPT ![q] = "refused"] /\ ret' = [ret EXCEPT ![q] = "FAILED"]
  BY DEF NewRequest
<1>2. "PENDING" \notin Failure
  BY DEF Failure
<1> QED BY <1>1, <1>2 DEF Accepted, TypeOK

(* No request is newly accepted, and no answer changes. *)
LEMMA AcceptedFrame ==
    ASSUME Accepted, UNCHANGED <<stage, ret>>, ToSet(queue') \subseteq ToSet(queue)
    PROVE  Accepted'
<1>1. \A r : (r \in ToSet(queue))' => r \in ToSet(queue)
  BY DEF ToSet
<1> QED BY <1>1 DEF Accepted

LEMMA AcceptedStep ==
    ASSUME IInv, Accepted, Next
    PROVE  Accepted'
<1>0. TypeOK /\ Line /\ Content /\ queue \in Seq(Request)
  BY DEF IInv, TypeOK
<1> USE DEF reqVars, clientVars
<1>1. CASE UNCHANGED <<stage, ret, queue>>
  BY <1>1, AcceptedFrame
<1>2. CASE EnterComplete \/ RetryRequest \/ CallClient \/ \E st \in Status : SubmitNext(st)
  BY <1>1, <1>2 DEF EnterComplete, RetryRequest, CallClient, SubmitNext
<1>3. \A q : queue # <<>> /\ q \in ToSet(Tail(queue)) => q \in ToSet(queue)
  <2>1. queue # <<>> => \A q : q \in ToSet(Tail(queue)) <=> q \in ToSet(queue) /\ q # Head(queue)
    BY <1>0, TailSet DEF Line, Distinct, Places
  <2> QED BY <2>1
<1>4. CASE PopHead
  <2>1. UNCHANGED <<stage, ret>> /\ queue # <<>> /\ queue' = Tail(queue)
    BY <1>0, <1>4, CallRecord DEF PopHead, Line, CallAtHead, Step
  <2> QED BY <1>3, <2>1, AcceptedFrame
<1>5. ASSUME NEW st \in Status, SubmitFirst(st) PROVE Accepted'
  <2>1. PICK q \in Request : q = call.req
    BY <1>5, CallRecord, <1>0 DEF SubmitFirst
  <2>2. queue # <<>>
    BY <1>0, <1>5, CallRecord DEF SubmitFirst, Line, CallAtHead, Step
  <2>3. /\ ToSet(queue') \subseteq ToSet(queue)
        /\ \/ UNCHANGED <<stage, ret>>
           \/ /\ ret' = [ret EXCEPT ![q] = st]
              /\ stage' = [stage EXCEPT ![q] = "refused"] \/ (st \notin Failure /\ stage' = stage)
    <3>1. CASE st = "PENDING"
      BY <1>5, <3>1 DEF SubmitFirst
    <3>2. CASE st # "PENDING" /\ kind[q] = "fast"
      <4>1. /\ queue' = Tail(queue) /\ ret' = [ret EXCEPT ![q] = st]
            /\ stage' = [stage EXCEPT ![q] = IF st \in Failure THEN "refused" ELSE stage[q]]
        BY <1>5, <2>1, <3>2 DEF SubmitFirst
      <4>2. st \notin Failure => stage' = stage
        BY <1>0, <4>1 DEF TypeOK
      <4> QED BY <1>3, <2>2, <4>1, <4>2
    <3>3. CASE st # "PENDING" /\ kind[q] # "fast"
      BY <1>5, <2>1, <3>3 DEF SubmitFirst
    <3> QED BY <3>1, <3>2, <3>3
  <2>4. \A r : (r \in ToSet(queue))' => r \in ToSet(queue)
    BY <2>3 DEF ToSet
  <2> QED BY <1>0, <2>3, <2>4 DEF Accepted, TypeOK
<1>6. CASE \E st \in IndicatedStatus : CompleteRequestFromHC(st)
  BY <1>1, <1>6 DEF CompleteRequestFromHC
<1>7. CASE \E q \in Request, k \in Kinds : NewRequest(q, k)
  BY <1>0, <1>7, NewRequestAccepted
<1>8. ASSUME NEW q \in Request, QueueBusRequest(q) PROVE Accepted'
  <2>1. /\ stage[q] = "checked" /\ stage' = [stage EXCEPT ![q] = "submitted"] /\ ret' = ret
        /\ queue' = Append(queue, q)
    BY <1>8 DEF QueueBusRequest
  <2>2. \A r : (r \in ToSet(queue))' => r \in ToSet(queue) \/ r = q
    BY <1>0, <2>1, AppendSet DEF ToSet
  <2> QED BY <1>0, <2>1, <2>2 DEF Accepted, TypeOK
<1>9. ASSUME NEW q \in Request, CompleteRefused(q) \/ Release(q) PROVE Accepted'
  <2>1. /\ q \notin ToSet(queue) /\ queue' = queue
        /\ stage' = [stage EXCEPT ![q] = "submitted"] \/ stage' = [stage EXCEPT ![q] = "free"]
        /\ ret' = ret \/ ret' = [ret EXCEPT ![q] = "PENDING"]
    BY <1>9 DEF CompleteRefused, Release
  <2> QED BY <1>0, <2>1 DEF Accepted, TypeOK
<1>10. ASSUME NEW q \in Request, RemoveRequest(q) PROVE Accepted'
  <2>1. UNCHANGED <<stage, ret>> /\ (queue' = queue \/ \E i \in 2 .. Len(queue) : queue' = RemoveAt(queue, i))
    BY <1>10 DEF RemoveRequest
  <2>2. ASSUME NEW i \in 2 .. Len(queue), queue' = RemoveAt(queue, i) PROVE Accepted'
    <3>1. i \in 1 .. Len(queue)
      BY <1>0, LenProperties
    <3>2. \A r : r \in ToSet(RemoveAt(queue, i)) <=> r \in ToSet(queue) /\ r # queue[i]
      BY <1>0, <3>1, RemoveAtSet DEF Line, Distinct, Places
    <3> QED BY <2>1, <2>2, <3>2, AcceptedFrame
  <2> QED BY <1>1, <2>1, <2>2
<1>11. CASE RemoveAllRequest \/ CompleteRest
  <2>1. /\ UNCHANGED <<stage, ret>>
        /\ \/ queue' = queue \/ queue' = <<>>
           \/ queue # <<>> /\ queue' = <<Head(queue)>>
    BY <1>11 DEF RemoveAllRequest, CompleteRest
  <2>2. ToSet(<<>>) = {} /\ \A h : ToSet(<<h>>) = {h}
    BY DEF ToSet
  <2>3. queue # <<>> => Head(queue) \in ToSet(queue)
    BY <1>0, InSet, HeadIsFirst, EmptySeq, LenProperties
  <2> QED BY <2>1, <2>2, <2>3, AcceptedFrame
<1>12. CASE Bystander
  BY <1>1, <1>12, BystanderFrame
<1> QED
  BY <1>1, <1>2, <1>4, <1>5, <1>6, <1>7, <1>8, <1>9, <1>10, <1>11, <1>12
  DEF Next, Bystander, RunCompleteRequest

-----------------------------------------------------------------------------
(***************************************************************************)
(* The steps of callers and of the queue.                                  *)
(***************************************************************************)
LEMMA SyncInitInvariant == SyncInit => SyncIInv
<1> SUFFICES ASSUME SyncInit PROVE SyncIInv
  OBVIOUS
<1>1. IInv
  BY InitLine, InitContent DEF SyncInit, IInv
<1>2. SyncTypeOK
  BY <1>1 DEF SyncInit, SyncTypeOK, IInv
<1>3. Holding /\ InHand /\ NoLostSignal
  BY CallerAssumption DEF SyncInit, Holding, InHand, NoLostSignal
<1>4. StatusHonest /\ Accepted
  BY DEF SyncInit, Init, StatusHonest, Accepted
<1> QED BY <1>1, <1>2, <1>3, <1>4 DEF SyncIInv

(* A caller makes a request, with the lock that it has or takes. *)
LEMMA MakeRequestStep ==
    ASSUME SyncIInv, NEW c \in Caller, NEW r \in Request, NEW k \in SyncKinds,
           MakeRequest(c, r, k), requestLock \in {NoCaller, c}, requestLock' = c,
           registers' \in [Caller -> Nat]
    PROVE  SyncIInv'
<1>0. /\ IInv /\ SyncTypeOK /\ StatusHonest /\ TypeOK /\ NoCaller \notin Caller /\ NoRequest \notin Request
      /\ k \in Kind /\ k # "async"
  BY CallerAssumption, RequestAssumption DEF SyncIInv, IInv, Kind
<1>1. /\ NewRequest(r, k) /\ hSyncEvent' = FALSE
      /\ mine' = [mine EXCEPT ![c] = r] /\ at' = [at EXCEPT ![c] = "queue"]
  BY DEF MakeRequest
<1>2. IInv'
  BY <1>0, <1>1, QueueInvariantStep
<1>3. StatusHonest' /\ Accepted'
  BY <1>0, <1>1, NewRequestHonest, NewRequestAccepted DEF SyncIInv, IInv
<1>4. SyncTypeOK'
  BY <1>0, <1>1, <1>2 DEF SyncTypeOK, IInv
<1>5. \A d \in Caller \ {c} : at[d] = "out" /\ at'[d] = "out" /\ mine[d] = NoRequest /\ mine'[d] = NoRequest
  BY <1>0, <1>1 DEF SyncIInv, Holding, SyncTypeOK
<1>6. at'[c] = "queue" /\ mine'[c] = r
  BY <1>0, <1>1 DEF SyncTypeOK
<1>7. stage'[r] # "free" /\ kind'[r] # "async"
  <2>1. stage' = [stage EXCEPT ![r] = "checked"] \/ stage' = [stage EXCEPT ![r] = "refused"]
    BY <1>1 DEF NewRequest
  <2>2. kind' = [kind EXCEPT ![r] = k]
    BY <1>1 DEF NewRequest
  <2> QED BY <1>0, <2>1, <2>2 DEF TypeOK
<1>8. Holding' /\ InHand' /\ NoLostSignal'
  BY <1>0, <1>1, <1>5, <1>6, <1>7 DEF Holding, InHand, NoLostSignal
<1> QED BY <1>2, <1>3, <1>4, <1>8 DEF SyncIInv

LEMMA BeginSyncStep ==
    ASSUME SyncIInv, NEW c \in Caller, NEW r \in Request, NEW k \in SyncKinds,
           NEW n \in Registers, BeginSync(c, r, k, n)
    PROVE  SyncIInv'
<1>1. n \in Nat /\ registers \in [Caller -> Nat]
  BY CallerAssumption DEF SyncIInv, SyncTypeOK
<1> QED BY <1>1, MakeRequestStep DEF BeginSync, RequestLockFree

LEMMA NextRegisterStep ==
    ASSUME SyncIInv, NEW c \in Caller, NEW r \in Request, NEW k \in SyncKinds, NextRegister(c, r, k)
    PROVE  SyncIInv'
<1>1. registers \in [Caller -> Nat] /\ registers[c] > 1 /\ requestLock = c
  BY DEF SyncIInv, SyncTypeOK, Holding, NextRegister
<1>2. registers' \in [Caller -> Nat]
  BY <1>1 DEF NextRegister
<1> QED BY <1>1, <1>2, MakeRequestStep DEF NextRegister

(* The queue stays, and only one caller moves. *)
LEMMA CallerFrame ==
    ASSUME SyncIInv, NEW c \in Caller, UNCHANGED vars, at[c] # "out",
           SyncTypeOK', Holding', at'[c] # "out" => mine'[c] = mine[c] /\ Queued(mine[c]),
           \A d \in Caller \ {c} : at'[d] = at[d] /\ mine'[d] = mine[d],
           at'[c] = "wait" =>
             hSyncEvent' \/ (mine[c] \in ToSet(queue) /\ callback[mine[c]] = "armed")
    PROVE  SyncIInv'
<1> USE DEF vars, reqVars, clientVars
<1>1. \A d \in Caller \ {c} : at[d] = "out"
  BY CallerAssumption DEF SyncIInv, Holding
<1>2. IInv'
  BY QueueInvariantStep DEF SyncIInv
<1>3. InHand'
  BY <1>1 DEF SyncIInv, InHand, Queued
<1>4. NoLostSignal'
  BY <1>1 DEF NoLostSignal
<1>5. StatusHonest' /\ Accepted'
  BY DEF SyncIInv, StatusHonest, Accepted
<1> QED BY <1>2, <1>3, <1>4, <1>5 DEF SyncIInv

LEMMA SyncCallStep ==
    ASSUME SyncIInv, NEW c \in Caller, SyncCall(c)
    PROVE  SyncIInv'
<1>0. /\ IInv /\ SyncTypeOK /\ Holding /\ InHand /\ NoCaller \notin Caller /\ NoRequest \notin Request
      /\ TypeOK /\ UNCHANGED vars
  BY CallerAssumption, RequestAssumption
  DEF SyncIInv, IInv, SyncCall, TestComplete, WaitForSyncEvent, ReturnSync
<1>1. TypeOK'
  BY <1>0, QueueInvariantStep DEF IInv
<1>2. CASE TestComplete(c)
  <2>1. PICK pc \in {"complete", "wait"} :
          /\ at' = [at EXCEPT ![c] = pc] /\ (pc = "wait" => ~ IsComplete(mine[c]))
          /\ at[c] = "queue" /\ Queued(mine[c])
          /\ UNCHANGED <<requestLock, hSyncEvent, mine, registers>>
    BY <1>2 DEF TestComplete
  <2>2. SyncTypeOK' /\ Holding'
    BY <1>0, <1>1, <2>1 DEF SyncTypeOK, Holding
  <2>3. mine[c] \in Request
    BY <1>0, <2>1 DEF SyncTypeOK, Holding
  <2>4. pc = "wait" => mine[c] \in ToSet(queue) /\ callback[mine[c]] = "armed"
    BY <1>0, <2>1, <2>3, ArmedWhilePending
  <2>5. at'[c] = pc /\ \A d \in Caller \ {c} : at'[d] = at[d]
    BY <1>0, <2>1 DEF SyncTypeOK
  <2> QED BY <1>0, <2>1, <2>2, <2>4, <2>5, CallerFrame
<1>3. CASE WaitForSyncEvent(c)
  <2>1. /\ at' = [at EXCEPT ![c] = "complete"] /\ hSyncEvent' = FALSE /\ at[c] = "wait"
        /\ UNCHANGED <<requestLock, mine, registers>> /\ Queued(mine[c])
    BY <1>0, <1>3 DEF WaitForSyncEvent, InHand
  <2>2. SyncTypeOK' /\ Holding'
    BY <1>0, <1>1, <2>1 DEF SyncTypeOK, Holding
  <2>3. at'[c] = "complete" /\ \A d \in Caller \ {c} : at'[d] = at[d]
    BY <1>0, <2>1 DEF SyncTypeOK
  <2> QED BY <1>0, <2>1, <2>2, <2>3, CallerFrame
<1>4. CASE ReturnSync(c)
  <2>1. /\ at' = [at EXCEPT ![c] = "out"] /\ mine' = [mine EXCEPT ![c] = NoRequest]
        /\ requestLock' = NoCaller /\ hSyncEvent' = hSyncEvent /\ at[c] = "complete"
        /\ registers' = [registers EXCEPT ![c] = 0]
    BY <1>4 DEF ReturnSync
  <2>2. /\ at'[c] = "out" /\ mine'[c] = NoRequest
        /\ \A d \in Caller \ {c} : at'[d] = at[d] /\ mine'[d] = mine[d] /\ at[d] = "out"
    BY <1>0, <2>1 DEF SyncTypeOK, Holding
  <2>3. SyncTypeOK'
    BY <1>0, <1>1, <2>1 DEF SyncTypeOK
  <2>4. Holding'
    BY <1>0, <2>1, <2>2 DEF Holding
  <2> QED BY <1>0, <2>1, <2>2, <2>3, <2>4, CallerFrame
<1> QED BY <1>2, <1>3, <1>4 DEF SyncCall

LEMMA QueueStepStep ==
    ASSUME SyncIInv, QueueStep
    PROVE  SyncIInv'
<1>0. /\ IInv /\ SyncTypeOK /\ Holding /\ InHand /\ NoLostSignal /\ StatusHonest /\ TypeOK
      /\ Next /\ UNCHANGED <<requestLock, at, mine, registers>> /\ hSyncEvent' = (hSyncEvent \/ CalledBack)
      /\ \A c \in Caller : mine[c] # NoRequest => stage'[mine[c]] # "free"
  BY DEF SyncIInv, IInv, QueueStep, Signal
<1>1. IInv'
  BY <1>0, QueueInvariantStep
<1>2. StatusHonest' /\ Accepted'
  BY <1>0, HonestStep, AcceptedStep DEF SyncIInv
<1>3. SyncTypeOK'
  <2>1. hSyncEvent' \in BOOLEAN
    BY <1>0
  <2> QED BY <1>0, <1>1, <2>1 DEF SyncTypeOK, IInv
<1>4. Holding'
  BY <1>0 DEF Holding
<1>5. ASSUME NEW c \in Caller, at[c] # "out"
      PROVE  mine[c] \in Request /\ stage'[mine[c]] # "free" /\ kind[mine[c]] # "async" /\ kind'[mine[c]] # "async"
  <2>1. PICK r \in Request : r = mine[c] /\ stage[r] # "free" /\ kind[r] # "async" /\ stage'[r] # "free"
    BY <1>0, <1>5, RequestAssumption DEF SyncTypeOK, Holding, InHand
  <2>2. kind'[r] # "async"
    BY <1>0, <2>1, KindKept
  <2> QED BY <2>1, <2>2
<1>6. ASSUME NEW c \in Caller, at[c] \in {"wait", "complete"}
      PROVE  /\ Queued(mine[c])'
             /\ \/ at[c] # "wait" \/ hSyncEvent'
                \/ mine[c] \in ToSet(queue') /\ callback'[mine[c]] = "armed"
  <2>1. PICK r \in Request : r = mine[c] /\ Queued(r) /\ kind[r] # "async" /\ stage'[r] # "free"
    BY <1>0, <1>5, <1>6 DEF InHand
  <2>2. Queued(r)'
    BY <1>0, <2>1, StaysSubmitted
  <2>3. mine'[c] = r
    BY <1>0, <2>1
  <2>4. Queued(mine[c])'
    BY <2>2, <2>3 DEF Queued
  <2>5. CASE hSyncEvent \/ at[c] # "wait"
    BY <1>0, <2>4, <2>5
  <2>6. CASE ~ hSyncEvent /\ at[c] = "wait"
    <3>1. r \in ToSet(queue) /\ callback[r] = "armed"
      BY <1>0, <1>6, <2>1, <2>6 DEF NoLostSignal
    <3>2. CASE callback'[r] # "armed"
      BY <1>0, <2>1, <2>4, <3>1, <3>2 DEF CalledBack
    <3>3. CASE callback'[r] = "armed"
      BY <1>0, <2>1, <2>4, <3>1, <3>3, LeavesCalledBack
    <3> QED BY <3>2, <3>3
  <2> QED BY <2>5, <2>6
<1>7. InHand'
  BY <1>0, <1>5, <1>6 DEF InHand, SyncTypeOK
<1>8. NoLostSignal'
  BY <1>0, <1>6 DEF NoLostSignal
<1> QED BY <1>1, <1>2, <1>3, <1>4, <1>7, <1>8 DEF SyncIInv

LEMMA SyncStepInvariant == SyncIInv /\ [SyncNext]_syncVars => SyncIInv'
<1> SUFFICES ASSUME SyncIInv, [SyncNext]_syncVars PROVE SyncIInv'
  OBVIOUS
<1>1. CASE UNCHANGED syncVars
  <2>1. IInv'
    BY <1>1, QueueInvariantStep DEF SyncIInv, syncVars
  <2>2. UNCHANGED <<requestLock, hSyncEvent, at, mine, registers, queue, call, stage, kind, status, ret, callback, confirmed>>
    BY <1>1 DEF syncVars, callerVars, vars, reqVars, clientVars
  <2>3. SyncTypeOK' /\ Holding'
    BY <2>1, <2>2 DEF SyncIInv, SyncTypeOK, Holding, IInv
  <2>4. InHand' /\ NoLostSignal' /\ StatusHonest' /\ Accepted'
    BY <2>2 DEF SyncIInv, InHand, NoLostSignal, StatusHonest, Accepted, Queued
  <2> QED BY <2>1, <2>3, <2>4 DEF SyncIInv
<1>2. CASE QueueStep
  BY <1>2, QueueStepStep
<1>3. ASSUME NEW c \in Caller, NEW r \in Request, NEW k \in SyncKinds,
             (\E n \in Registers : BeginSync(c, r, k, n)) \/ NextRegister(c, r, k)
      PROVE  SyncIInv'
  BY <1>3, BeginSyncStep, NextRegisterStep
<1>4. ASSUME NEW c \in Caller, SyncCall(c) PROVE SyncIInv'
  BY <1>4, SyncCallStep
<1> QED BY <1>1, <1>2, <1>3, <1>4 DEF SyncNext

-----------------------------------------------------------------------------
(* The invariant holds of every behaviour, that of the queue included. *)
THEOREM SyncInvariant == SyncSpec => []SyncIInv
BY SyncInitInvariant, SyncStepInvariant, PTL DEF SyncSpec

(* A caller that waits for the event of its device is still to be called   *)
(* back, or has been and finds the event signalled.                        *)
THEOREM SignalNeverLost == SyncSpec => []NoLostSignal
<1>1. SyncIInv => NoLostSignal
  BY DEF SyncIInv
<1> QED BY <1>1, SyncInvariant, PTL

(* A success that a caller of SDSynchronousBusRequest is told is one that  *)
(* the controller reported for that very request.                          *)
THEOREM SuccessIsTrue == SyncSpec => []SuccessIsConfirmed
<1>1. SyncIInv => SuccessIsConfirmed
  <2> SUFFICES ASSUME SyncIInv, NEW c \in Caller, at[c] = "complete",
                      Answer(c) \in {"SUCCESS", "FASTPATH"}
               PROVE  mine[c] \in confirmed
    BY DEF SuccessIsConfirmed
  <2>1. PICK r \in Request : r = mine[c] /\ stage[r] = "submitted"
    BY RequestAssumption DEF SyncIInv, SyncTypeOK, Holding, InHand, Queued
  <2>2. status[r] \in {"SUCCESS", "FASTPATH"}
    BY <2>1 DEF Answer, Failure
  <2> QED BY <2>1, <2>2 DEF SyncIInv, StatusHonest
<1> QED BY <1>1, SyncInvariant, PTL
=============================================================================
