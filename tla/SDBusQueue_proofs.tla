------------------------- MODULE SDBusQueue_proofs --------------------------
(***************************************************************************)
(* Proofs about the request queue of a slot, for any set of requests, any  *)
(* retry count and any kinds of requests and disturbances: its safety, and *)
(* that it implements the request service.                                 *)
(***************************************************************************)
EXTENDS SDBusQueue, SequenceTheorems, TLAPS

(* What RemoveAt returns: a sequence without the element at place i. *)
LEMMA RemoveAtProperties ==
    ASSUME NEW S, NEW s \in Seq(S), NEW i \in 1 .. Len(s)
    PROVE  /\ RemoveAt(s, i) \in Seq(S)
           /\ Len(RemoveAt(s, i)) = Len(s) - 1
           /\ \A j \in 1 .. Len(s) - 1 :
                RemoveAt(s, i)[j] = IF j < i THEN s[j] ELSE s[j + 1]
<1> DEFINE a == SubSeq(s, 1, i - 1)
           b == SubSeq(s, i + 1, Len(s))
<1>1. /\ a \in Seq(S) /\ Len(a) = i - 1
      /\ \A j \in 1 .. i - 1 : a[j] = s[j]
  <2>1. \A j \in 1 .. i - 1 : s[j] \in S
    BY ElementOfSeq
  <2>2. Len(s) \in Nat
    BY LenProperties
  <2> QED BY <2>1, <2>2, SubSeqProperties
<1>2. /\ b \in Seq(S) /\ Len(b) = Len(s) - i
      /\ \A j \in 1 .. Len(s) - i : b[j] = s[j + i]
  <2>1. \A j \in i + 1 .. Len(s) : s[j] \in S
    BY ElementOfSeq
  <2>2. Len(s) \in Nat
    BY LenProperties
  <2> QED BY <2>1, <2>2, SubSeqProperties
<1>3. RemoveAt(s, i) = a \o b
  BY DEF RemoveAt
<1> HIDE DEF a, b
<1>4. /\ a \o b \in Seq(S)
      /\ Len(a \o b) = Len(a) + Len(b)
      /\ \A j \in 1 .. Len(a) + Len(b) : (a \o b)[j] = IF j <= Len(a) THEN a[j] ELSE b[j - Len(a)]
  BY <1>1, <1>2, ConcatProperties
<1>5. Len(s) \in Nat
  BY LenProperties
<1> QED BY <1>1, <1>2, <1>3, <1>4, <1>5

(* The head of a sequence that is not empty is its first element. *)
LEMMA HeadIsFirst ==
    ASSUME NEW S, NEW s \in Seq(S), s # <<>>
    PROVE  Head(s) = s[1] /\ Len(s) \in Nat /\ Len(s) >= 1
BY EmptySeq, LenProperties

-----------------------------------------------------------------------------
(***************************************************************************)
(* First half: the variables keep their types, and the line of requests,   *)
(* the running CompleteRequest and the controller agree.                   *)
(***************************************************************************)

(* The initial state. *)
LEMMA InitLine == Init => TypeOK /\ Line
<1> SUFFICES ASSUME Init PROVE TypeOK /\ Line
  OBVIOUS
<1> USE RetryAssumption, RequestAssumption DEF Init, NoCall
<1>1. TypeOK
  <2>1. queue \in Seq(Request)
    BY EmptySeq
  <2>2. retry \in [Request -> 0 .. RetryCount] /\ lockCount \in 0 .. MaxLock
    OBVIOUS
  <2>3. /\ status \in [Request -> Status] /\ ret \in [Request -> Status]
        /\ callback \in [Request -> Status \cup {"armed"}]
        /\ kind \in [Request -> Kind]
    BY DEF Status, Kind
  <2>4. CallOK
    BY DEF CallOK
  <2> QED BY <2>1, <2>2, <2>3, <2>4 DEF TypeOK
<1>2. Line
  BY EmptySeq DEF Line, Distinct, QueuedStage, CallAtHead, OwnerDuringCall, AbandonedEmpty,
              OwnedIsHead, HeadAtHC, Places, LockFree
<1> QED BY <1>1, <1>2

(* Line reads four variables and the stages of queued requests: what leaves *)
(* those alone leaves Line alone.                                           *)
LEMMA LineFrame ==
    ASSUME Line, UNCHANGED <<queue, call, curHCOwned, abandoned>>,
           \A i \in Places : stage'[queue[i]] \in {"submitted", "refused"}
    PROVE  Line'
BY DEF Line, Distinct, QueuedStage, CallAtHead, OwnerDuringCall, AbandonedEmpty,
       OwnedIsHead, HeadAtHC, Places, LockFree

(* Membership in the queue, by place. *)
LEMMA QueueSet ==
    ASSUME TypeOK
    PROVE  /\ Places = DOMAIN queue
           /\ Len(queue) \in Nat
           /\ \A i \in Places : queue[i] \in Request
           /\ \A r : r \in ToSet(queue) <=> \E i \in Places : queue[i] = r
BY LenProperties, ElementOfSeq DEF TypeOK, Places, ToSet

(* CompleteBusRequest keeps the types of what it writes. *)
LEMMA CompleteBusRequestType ==
    ASSUME TypeOK, NEW R, NEW st \in Status, CompleteBusRequest(R, st)
    PROVE  /\ status' \in [Request -> Status]
           /\ callback' \in [Request -> Status \cup {"armed"}]
BY DEF TypeOK, CompleteBusRequest

(* The activation record while CompleteRequest runs, and when it moves on. *)
LEMMA CallRecord ==
    ASSUME TypeOK, call.pc # "none"
    PROVE  /\ call.req \in Request /\ call.st \in Status /\ call.pc \in Step \ {"none"}
           /\ \A p \in Step \ {"none"} :
                LET c == [call EXCEPT !.pc = p] IN
                /\ c \in [req : Request, st : Status, pc : Step \ {"none"}]
                /\ c.req = call.req /\ c.st = call.st /\ c.pc = p
<1> DEFINE Rec == [req : Request, st : Status, pc : Step \ {"none"}]
<1>1. call \in Rec
  BY DEF TypeOK, CallOK, NoCall
<1>2. call.req \in Request /\ call.st \in Status /\ call.pc \in Step \ {"none"}
  BY <1>1
<1>3. ASSUME NEW p \in Step \ {"none"}
      PROVE  LET c == [call EXCEPT !.pc = p] IN
             c \in Rec /\ c.req = call.req /\ c.st = call.st /\ c.pc = p
  BY <1>1
<1> QED BY <1>2, <1>3

LEMMA NewRequestLine ==
    ASSUME TypeOK, Line, NEW r \in Request, NEW k \in Kind, NewRequest(r, k)
    PROVE  TypeOK' /\ Line'
<1>1. TypeOK'
  <2> USE DEF NewRequest, TypeOK, slotVars, hcVars
  <2>1. status' \in [Request -> Status] /\ ret' \in [Request -> Status]
    BY DEF Status, Failure
  <2>2. retry' \in [Request -> 0 .. RetryCount]
    BY RetryAssumption
  <2>3. kind' \in [Request -> Kind]
    OBVIOUS
  <2>4. callback' \in [Request -> Status \cup {"armed"}]
    OBVIOUS
  <2>5. stage' \in [Request -> {"free", "checked", "submitted", "refused"}]
    OBVIOUS
  <2> QED BY <2>1, <2>2, <2>3, <2>4, <2>5 DEF CallOK
<1>2. \A i \in Places : queue[i] # r
  BY DEF NewRequest, Line, QueuedStage
<1>3. Line'
  BY <1>2, QueueSet, LineFrame DEF NewRequest, hcVars, Line, QueuedStage, TypeOK
<1> QED BY <1>1, <1>3

LEMMA CompleteRefusedLine ==
    ASSUME TypeOK, Line, NEW r \in Request, CompleteRefused(r)
    PROVE  TypeOK' /\ Line'
<1>1. ret[r] \in Status
  BY DEF TypeOK
<1>2. TypeOK'
  BY <1>1, CompleteBusRequestType DEF CompleteRefused, TypeOK, slotVars, hcVars, CallOK
<1>3. Line'
  BY QueueSet, LineFrame DEF CompleteRefused, hcVars, Line, QueuedStage, TypeOK
<1> QED BY <1>2, <1>3

LEMMA ReleaseLine ==
    ASSUME TypeOK, Line, NEW r \in Request, Release(r)
    PROVE  TypeOK' /\ Line'
<1>1. TypeOK'
  BY RetryAssumption DEF Release, TypeOK, slotVars, hcVars, CallOK, Status, Kind, Failure
<1>2. Line'
  BY QueueSet, LineFrame DEF Release, hcVars, Line, QueuedStage, TypeOK
<1> QED BY <1>1, <1>2

(* The actions that touch none of the variables of Line. *)
LEMMA OthersLine ==
    ASSUME TypeOK, Line,
           \/ GetAndLockCurrentRequest \/ UnlockRequest
           \/ \E r \in Request : CancelCheck(r)
           \/ HostDetach \/ StartDetach \/ Attach \/ SlotStateChange
    PROVE  TypeOK' /\ Line'
<1>1. UNCHANGED <<queue, call, curHCOwned, abandoned, stage>>
  BY DEF GetAndLockCurrentRequest, UnlockRequest, CancelCheck, HostDetach, StartDetach, Attach,
         SlotStateChange, clientVars, hcVars
<1>2. Line'
  BY <1>1, LineFrame DEF Line, QueuedStage
<1>3. TypeOK'
  <2> USE DEF TypeOK, slotVars, hcVars, reqVars, clientVars, CallOK
  <2>1. CASE GetAndLockCurrentRequest
    BY <2>1, RetryAssumption DEF GetAndLockCurrentRequest
  <2>2. CASE UnlockRequest
    BY <2>2, RetryAssumption DEF UnlockRequest
  <2>3. CASE \E r \in Request : CancelCheck(r)
    BY <2>3 DEF CancelCheck
  <2>4. CASE HostDetach
    BY <2>4 DEF HostDetach
  <2>5. CASE StartDetach
    BY <2>5 DEF StartDetach
  <2>6. CASE Attach
    BY <2>6 DEF Attach
  <2>7. CASE SlotStateChange
    BY <2>7 DEF SlotStateChange
  <2> QED BY <2>1, <2>2, <2>3, <2>4, <2>5, <2>6, <2>7
<1> QED BY <1>2, <1>3

(* What a submission does to the controller's side: it owns the request    *)
(* exactly when the answer is PENDING, and no retry is taken while the     *)
(* request itself is pending.                                              *)
LEMMA SubmitEffect ==
    ASSUME TypeOK, NEW r \in Request, NEW st \in Status, SubmitRequestToHC(r, st)
    PROVE  /\ curHCOwned' \in Request \cup {NoRequest}
           /\ lockCount' \in 0 .. MaxLock
           /\ retry' \in [Request -> 0 .. RetryCount]
           /\ confirmed \subseteq confirmed' /\ confirmed' \subseteq Request
           /\ st = "PENDING" => curHCOwned = NoRequest /\ curHCOwned' = r
           /\ st # "PENDING" => curHCOwned' = curHCOwned
           /\ st \in {"PENDING", "FASTPATH"} \cup Failure
           /\ st = "FASTPATH" => r \in confirmed'
           /\ status[r] = "PENDING" => retry' = retry
<1>1. CASE ~ CanSubmit
  BY <1>1 DEF SubmitRequestToHC, hcVars, TypeOK, Failure
<1>2. CASE CanSubmit
  <2> DEFINE most == IF NeedRetry(r, status[r]) THEN retry[r] ELSE 0
  <2>1. PICK n \in 0 .. most :
          /\ st \in HandlerStatus(kind[r])
          /\ retry' = [retry EXCEPT ![r] = @ - n]
          /\ curHCOwned' = IF st = "PENDING" THEN r ELSE NoRequest
          /\ lockCount' = 0
          /\ confirmed' = IF st = "FASTPATH" THEN confirmed \cup {r} ELSE confirmed
    BY <1>2 DEF SubmitRequestToHC
  <2>2. retry[r] \in 0 .. RetryCount /\ most \in 0 .. retry[r]
    BY RetryAssumption DEF TypeOK
  <2>3. retry[r] - n \in 0 .. RetryCount
    BY <2>2, RetryAssumption
  <2>4. retry' \in [Request -> 0 .. RetryCount]
    BY <2>1, <2>3 DEF TypeOK
  <2>5. status[r] = "PENDING" => retry' = retry
    <3> SUFFICES ASSUME status[r] = "PENDING" PROVE retry' = retry
      OBVIOUS
    <3>1. most = 0
      BY DEF NeedRetry
    <3>2. n = 0 /\ retry[r] - n = retry[r]
      BY <3>1, <2>2, RetryAssumption
    <3> QED BY <2>1, <3>2 DEF TypeOK
  <2>6. st \in {"PENDING", "FASTPATH"} \cup Failure
    BY <2>1 DEF HandlerStatus, Failure
  <2> HIDE DEF most
  <2> QED BY <1>2, <2>1, <2>4, <2>5, <2>6, RetryAssumption DEF CanSubmit, TypeOK
<1> QED BY <1>1, <1>2

LEMMA QueueBusRequestLine ==
    ASSUME TypeOK, Line, NEW r \in Request, QueueBusRequest(r)
    PROVE  TypeOK' /\ Line'
<1> USE DEF QueueBusRequest
<1>1. /\ queue' \in Seq(Request) /\ Len(queue) \in Nat /\ Len(queue') = Len(queue) + 1
      /\ \A i \in 1 .. Len(queue) : queue'[i] = queue[i] /\ queue[i] \in Request
      /\ queue'[Len(queue) + 1] = r
      /\ queue' # <<>> /\ Head(queue') = queue'[1]
      /\ queue # <<>> => Head(queue') = Head(queue) /\ Len(queue) >= 1
      /\ queue = <<>> => Len(queue) = 0
  BY AppendProperties, EmptySeq, HeadIsFirst, LenProperties, ElementOfSeq DEF TypeOK
<1>2. \A i \in 1 .. Len(queue) : queue[i] # r
  BY DEF Line, QueuedStage, Places
<1>3. TypeOK'
  <2>1. CallOK'
    BY DEF TypeOK, CallOK, Status, Step
  <2>2. kind' \in [Request -> Kind]
    BY DEF TypeOK, Kind
  <2>3. stage' \in [Request -> {"free", "checked", "submitted", "refused"}]
    BY DEF TypeOK
  <2> QED BY <1>1, <2>1, <2>2, <2>3 DEF TypeOK, slotVars, hcVars
<1>4. Distinct' /\ QueuedStage'
  BY <1>1, <1>2 DEF Line, Distinct, QueuedStage, Places, TypeOK
<1>5. call.pc = "callback" => queue # <<>>
  BY DEF Line, CallAtHead
<1>6. CASE queue = <<>>
  BY <1>1, <1>3, <1>4, <1>5, <1>6
  DEF Line, CallAtHead, OwnerDuringCall, AbandonedEmpty, OwnedIsHead, HeadAtHC, LockFree, CanLock,
      hcVars, NoCall
<1>7. CASE queue # <<>>
  BY <1>1, <1>3, <1>4, <1>7
  DEF Line, CallAtHead, OwnerDuringCall, AbandonedEmpty, OwnedIsHead, HeadAtHC, LockFree, CanLock,
      hcVars
<1> QED BY <1>6, <1>7

LEMMA SubmitFirstLine ==
    ASSUME TypeOK, Line, NEW st \in Status, SubmitFirst(st)
    PROVE  TypeOK' /\ Line'
<1> DEFINE r == call.req
<1>0. r \in Request /\ queue # <<>> /\ Head(queue) = r /\ Len(queue) = 1 /\ call.pc = "first"
  BY DEF SubmitFirst, Line, CallAtHead, TypeOK, CallOK, NoCall
<1>1. SubmitRequestToHC(r, st)
  BY DEF SubmitFirst
<1>2. /\ curHCOwned' \in Request \cup {NoRequest}
      /\ lockCount' \in 0 .. MaxLock
      /\ retry' \in [Request -> 0 .. RetryCount]
      /\ confirmed' \subseteq Request
      /\ st = "PENDING" => curHCOwned = NoRequest /\ curHCOwned' = r
      /\ st # "PENDING" => curHCOwned' = curHCOwned
  BY <1>0, <1>1, SubmitEffect
<1> HIDE DEF r
<1>3. Tail(queue) = <<>> /\ queue[1] = r
  <2>1. Tail(queue) \in Seq(Request) /\ Len(Tail(queue)) = 0
    BY <1>0, HeadTailProperties DEF TypeOK
  <2>2. queue[1] = r
    BY <1>0, HeadIsFirst DEF TypeOK
  <2> QED BY <2>1, <2>2, EmptySeq
<1>4. CASE st = "PENDING"
  <2>1. call' = NoCall /\ UNCHANGED <<queue, status, stage, ret>>
    BY <1>4 DEF SubmitFirst
  <2>2. TypeOK'
    BY <1>2, <2>1 DEF SubmitFirst, TypeOK, slotVars, CallOK
  <2>3. Line'
    BY <1>0, <1>2, <1>4, <2>1
    DEF SubmitFirst, Line, Distinct, QueuedStage, Places, CallAtHead, OwnerDuringCall,
        AbandonedEmpty, OwnedIsHead, HeadAtHC, LockFree, NoCall, TypeOK
  <2> QED BY <2>2, <2>3
<1>5. CASE st # "PENDING" /\ kind[r] = "fast"
  <2>1. /\ queue' = Tail(queue)
        /\ status' = [status EXCEPT ![r] = st]
        /\ stage' = [stage EXCEPT ![r] = IF st \in Failure THEN "refused" ELSE @]
        /\ ret' = [ret EXCEPT ![r] = st]
        /\ call' = NoCall
    BY <1>5 DEF SubmitFirst, r
  <2>2. TypeOK'
    <3>1. queue' \in Seq(Request)
      BY <1>3, <2>1, EmptySeq
    <3>2. /\ status' \in [Request -> Status] /\ ret' \in [Request -> Status]
          /\ stage' \in [Request -> {"free", "checked", "submitted", "refused"}]
      BY <2>1 DEF TypeOK
    <3>3. CallOK'
      BY <2>1 DEF CallOK
    <3> QED BY <1>2, <3>1, <3>2, <3>3 DEF SubmitFirst, TypeOK, slotVars
  <2>3. Line'
    BY <1>0, <1>2, <1>3, <1>5, <2>1, EmptySeq
    DEF SubmitFirst, Line, Distinct, QueuedStage, Places, CallAtHead, OwnerDuringCall,
        AbandonedEmpty, OwnedIsHead, HeadAtHC, LockFree, NoCall
  <2> QED BY <2>2, <2>3
<1>6. CASE st # "PENDING" /\ kind[r] # "fast"
  <2>1. /\ call' = [req |-> r, st |-> "SUCCESS", pc |-> "enter"]
        /\ stage' = [stage EXCEPT ![r] = "refused"]
        /\ ret' = [ret EXCEPT ![r] = st]
        /\ UNCHANGED <<queue, status>>
    BY <1>6 DEF SubmitFirst, r
  <2>2. TypeOK'
    BY <1>0, <1>2, <2>1 DEF SubmitFirst, TypeOK, slotVars, CallOK, Status, Step
  <2>3. QueuedStage'
    <3>1. Len(queue') = 1 /\ queue'[1] = r
      BY <1>0, <1>3, <2>1
    <3>2. stage'[r] = "refused"
      BY <1>0, <2>1 DEF TypeOK
    <3> QED BY <3>1, <3>2 DEF QueuedStage, Places
  <2>4. Line'
    BY <1>0, <1>2, <1>6, <2>1, <2>3
    DEF SubmitFirst, Line, Distinct, Places, CallAtHead, OwnerDuringCall,
        AbandonedEmpty, OwnedIsHead, HeadAtHC, LockFree
  <2> QED BY <2>2, <2>4
<1> QED BY <1>4, <1>5, <1>6

(* The steps of CompleteRequest that leave the list as it is. *)
LEMMA EnterCompleteLine ==
    ASSUME TypeOK, Line, EnterComplete
    PROVE  TypeOK' /\ Line'
<1> USE DEF EnterComplete
<1>1. call.req \in Request /\ call.st \in Status
  BY CallRecord
<1>2. TypeOK'
  <2>1. CallOK'
    BY CallRecord DEF CallOK, Step
  <2>2. status' \in [Request -> Status]
    BY <1>1 DEF TypeOK
  <2> QED BY <2>1, <2>2 DEF TypeOK, slotVars, hcVars, clientVars
<1>3. Line'
  BY DEF Line, Distinct, QueuedStage, Places, CallAtHead, OwnerDuringCall, AbandonedEmpty,
         OwnedIsHead, HeadAtHC, LockFree, hcVars, clientVars, NoCall, TypeOK, CallOK
<1> QED BY <1>2, <1>3

LEMMA RetryRequestLine ==
    ASSUME TypeOK, Line, RetryRequest
    PROVE  TypeOK' /\ Line'
<1> USE DEF RetryRequest
<1>1. call.req \in Request
  BY DEF TypeOK, CallOK, NoCall
<1>2. retry' \in [Request -> 0 .. RetryCount]
  BY <1>1, RetryAssumption DEF TypeOK, NeedRetry
<1>3. TypeOK'
  BY <1>1, <1>2 DEF TypeOK, slotVars, hcVars, clientVars, CallOK, Step, Status
<1>4. Line'
  BY DEF Line, Distinct, QueuedStage, Places, CallAtHead, OwnerDuringCall, AbandonedEmpty,
         OwnedIsHead, HeadAtHC, LockFree, hcVars, clientVars
<1> QED BY <1>3, <1>4

LEMMA CallClientLine ==
    ASSUME TypeOK, Line, CallClient
    PROVE  TypeOK' /\ Line'
<1>1. call.req \in Request /\ call.st \in Status /\ call.pc = "complete"
  BY CallRecord DEF CallClient
<1>2. TypeOK'
  <2>1. CallOK'
    BY CallRecord, <1>1 DEF CallClient, CallOK, Step
  <2>2. /\ status' \in [Request -> Status]
        /\ callback' \in [Request -> Status \cup {"armed"}]
    BY <1>1, CompleteBusRequestType DEF CallClient
  <2> QED BY <2>1, <2>2 DEF CallClient, TypeOK, slotVars, hcVars, clientVars
<1>3. Line'
  BY <1>1
  DEF CallClient, Line, Distinct, QueuedStage, Places, CallAtHead, OwnerDuringCall,
      AbandonedEmpty, OwnedIsHead, HeadAtHC, LockFree, hcVars, clientVars, TypeOK, CallOK
<1> QED BY <1>2, <1>3

(* The head leaves; what was behind it moves up one place. *)
LEMMA PopHeadLine ==
    ASSUME TypeOK, Line, PopHead
    PROVE  TypeOK' /\ Line'
<1> USE DEF PopHead
<1>1. queue # <<>> /\ call.pc = "callback" /\ call.pc # "none"
  BY DEF Line, CallAtHead
<1>2. /\ queue' \in Seq(Request) /\ Len(queue') = Len(queue) - 1 /\ Len(queue) \in Nat
      /\ \A i \in 1 .. Len(queue') : queue'[i] = queue[i + 1]
  BY <1>1, HeadTailProperties, LenProperties DEF TypeOK
<1>3. queue' # <<>> => Head(queue') = queue'[1] /\ Head(queue') \in Request
  BY <1>2, HeadTailProperties, HeadIsFirst
<1>4. Distinct' /\ QueuedStage'
  BY <1>2 DEF Line, Distinct, QueuedStage, Places, clientVars
<1>5. TypeOK'
  <2>1. CallOK'
    BY <1>3 DEF CallOK, Status, Step
  <2> QED BY <1>2, <2>1 DEF TypeOK, slotVars, hcVars, reqVars, clientVars
<1>6. Line'
  <2>1. CASE queue' = <<>>
    BY <1>1, <1>4, <2>1
    DEF Line, CallAtHead, OwnerDuringCall, AbandonedEmpty, OwnedIsHead, HeadAtHC, LockFree,
        hcVars, NoCall
  <2>2. CASE queue' # <<>>
    BY <1>1, <1>4, <2>2
    DEF Line, CallAtHead, OwnerDuringCall, AbandonedEmpty, OwnedIsHead, HeadAtHC, LockFree,
        hcVars
  <2> QED BY <2>1, <2>2
<1> QED BY <1>5, <1>6

LEMMA SubmitNextLine ==
    ASSUME TypeOK, Line, NEW st \in Status, SubmitNext(st)
    PROVE  TypeOK' /\ Line'
<1>1. /\ call.req \in Request /\ call.pc = "submit" /\ queue # <<>>
      /\ Head(queue) = call.req
  BY CallRecord DEF SubmitNext, Line, CallAtHead
<1>2. /\ curHCOwned' \in Request \cup {NoRequest}
      /\ lockCount' \in 0 .. MaxLock
      /\ retry' \in [Request -> 0 .. RetryCount]
      /\ confirmed' \subseteq Request
      /\ st = "PENDING" => curHCOwned = NoRequest /\ curHCOwned' = call.req
      /\ st # "PENDING" => curHCOwned' = curHCOwned
  BY <1>1, SubmitEffect DEF SubmitNext
<1>3. TypeOK'
  <2>1. CallOK'
    BY <1>1 DEF SubmitNext, CallOK, Step
  <2> QED BY <1>2, <2>1 DEF SubmitNext, TypeOK, slotVars, clientVars
<1>4. Distinct' /\ QueuedStage'
  BY DEF SubmitNext, Line, Distinct, QueuedStage, Places, clientVars
<1>5. CASE st = "PENDING"
  BY <1>1, <1>2, <1>3, <1>4, <1>5
  DEF SubmitNext, Line, CallAtHead, OwnerDuringCall, AbandonedEmpty, OwnedIsHead, HeadAtHC,
      LockFree, NoCall
<1>6. CASE st # "PENDING"
  BY <1>1, <1>2, <1>3, <1>4, <1>6
  DEF SubmitNext, Line, CallAtHead, OwnerDuringCall, AbandonedEmpty, OwnedIsHead, HeadAtHC,
      LockFree
<1> QED BY <1>5, <1>6

LEMMA CompleteRequestFromHCLine ==
    ASSUME TypeOK, Line, NEW st \in IndicatedStatus, CompleteRequestFromHC(st)
    PROVE  TypeOK' /\ Line'
<1> USE DEF CompleteRequestFromHC
<1>1. curHCOwned \in Request /\ st \in Status
  BY DEF TypeOK, IndicatedStatus, Status, Failure
<1>2. TypeOK'
  <2>1. CallOK'
    BY <1>1 DEF CallOK, Step
  <2>2. confirmed' \subseteq Request
    BY <1>1 DEF TypeOK
  <2>3. lockCount' \in 0 .. MaxLock /\ curHCOwned' \in Request \cup {NoRequest}
    BY RetryAssumption
  <2>4. abandoned' \in BOOLEAN
    BY Zenon
  <2> QED BY <2>1, <2>2, <2>3, <2>4 DEF TypeOK, slotVars, reqVars, clientVars
<1>3. Distinct' /\ QueuedStage'
  BY DEF Line, Distinct, QueuedStage, Places, clientVars
<1>4. queue = <<>> \/ Head(queue) = curHCOwned
  BY DEF Line, AbandonedEmpty, OwnedIsHead
<1>5. Line'
  BY <1>3, <1>4
  DEF Line, CallAtHead, OwnerDuringCall, AbandonedEmpty, OwnedIsHead, HeadAtHC, LockFree
<1> QED BY <1>2, <1>5

(* Cancelling the head: nothing happens, or the controller completes it    *)
(* from inside the call.                                                   *)
LEMMA CancelLine ==
    ASSUME TypeOK, Line, LockFree, queue # <<>>, CancelRequestFromHC(Head(queue)),
           UNCHANGED abandoned,
           queue' \in Seq(Request), queue' # <<>>, Head(queue') = Head(queue),
           Distinct', QueuedStage'
    PROVE  CallOK' /\ curHCOwned' \in Request \cup {NoRequest}
             /\ lockCount' \in 0 .. MaxLock /\ Line'
<1>0. Head(queue) \in Request
  BY HeadTailProperties DEF TypeOK
<1>1. CASE UNCHANGED <<call, hcVars>>
  BY <1>1
  DEF TypeOK, CallOK, hcVars, Line, CallAtHead, OwnerDuringCall, AbandonedEmpty, OwnedIsHead,
      HeadAtHC, LockFree
<1>2. CASE /\ call' = [req |-> Head(queue), st |-> "CANCELED", pc |-> "enter"]
           /\ curHCOwned' = NoRequest /\ UNCHANGED lockCount
  <2>1. CallOK'
    BY <1>0, <1>2 DEF CallOK, Status, Failure, Step
  <2>2. ~ abandoned
    BY DEF Line, AbandonedEmpty
  <2>3. Line'
    BY <1>2, <2>2
    DEF Line, CallAtHead, OwnerDuringCall, AbandonedEmpty, OwnedIsHead, HeadAtHC, LockFree
  <2>4. lockCount' \in 0 .. MaxLock /\ curHCOwned' \in Request \cup {NoRequest}
    BY <1>2 DEF TypeOK
  <2> QED BY <2>1, <2>3, <2>4
<1> QED BY <1>1, <1>2 DEF CancelRequestFromHC

LEMMA RemoveRequestLine ==
    ASSUME TypeOK, Line, NEW r \in Request, RemoveRequest(r)
    PROVE  TypeOK' /\ Line'
<1> USE DEF RemoveRequest
<1>1. CASE queue # <<>> /\ Head(queue) = r
  <2>1. LockFree
    BY <1>1 DEF Line, CallAtHead, CanLock, LockFree
  <2>2. CancelRequestFromHC(Head(queue)) /\ UNCHANGED <<queue, status, callback, stage>>
    BY <1>1
  <2>3. Distinct' /\ QueuedStage'
    BY <2>2 DEF Line, Distinct, QueuedStage, Places
  <2>4. queue \in Seq(Request)
    BY DEF TypeOK
  <2>5. CallOK' /\ curHCOwned' \in Request \cup {NoRequest} /\ lockCount' \in 0 .. MaxLock /\ Line'
    BY <1>1, <2>1, <2>2, <2>3, <2>4, CancelLine
  <2> QED BY <2>2, <2>5 DEF TypeOK, slotVars
<1>2. CASE UNCHANGED <<queue, status, callback, call, hcVars>>
  <2>1. TypeOK'
    BY <1>2 DEF TypeOK, slotVars, hcVars, CallOK
  <2>2. Line'
    BY <1>2, LineFrame DEF hcVars, Line, QueuedStage
  <2> QED BY <2>1, <2>2
<1>3. ASSUME NEW i \in 2 .. Len(queue), queue' = RemoveAt(queue, i),
             CompleteBusRequest({r}, "CANCELED"), UNCHANGED <<call, hcVars>>
      PROVE  TypeOK' /\ Line'
  <2>1. /\ queue' \in Seq(Request) /\ Len(queue') = Len(queue) - 1 /\ Len(queue) \in Nat
        /\ \A j \in 1 .. Len(queue) - 1 :
             queue'[j] = IF j < i THEN queue[j] ELSE queue[j + 1]
    <3>1. queue \in Seq(Request) /\ Len(queue) \in Nat
      BY LenProperties DEF TypeOK
    <3>2. i \in 1 .. Len(queue)
      BY <3>1
    <3> QED BY <1>3, <3>1, <3>2, RemoveAtProperties
  <2>2. /\ queue # <<>> /\ queue' # <<>> /\ queue'[1] = queue[1]
        /\ Head(queue) = queue[1] /\ Head(queue') = queue'[1]
    <3>1. queue \in Seq(Request)
      BY DEF TypeOK
    <3>2. Len(queue) >= 2 /\ Len(queue') >= 1 /\ Len(queue') \in Nat
      BY <2>1
    <3>3. queue # <<>> /\ queue' # <<>>
      BY <2>1, <3>2, EmptySeq
    <3>4. queue'[1] = queue[1]
      BY <2>1, <3>2
    <3>5. Head(queue) = queue[1]
      BY <3>1, <3>3, HeadIsFirst
    <3>6. Head(queue') = queue'[1]
      BY <2>1, <3>3, HeadIsFirst
    <3> QED BY <3>3, <3>4, <3>5, <3>6
  <2>3. Distinct' /\ QueuedStage'
    <3> DEFINE old(j) == IF j < i THEN j ELSE j + 1
    <3>1. \A j \in Places' : old(j) \in Places /\ queue'[j] = queue[old(j)]
      BY <2>1 DEF Places
    <3>2. \A j, k \in Places' : old(j) = old(k) => j = k
      BY <2>1 DEF Places
    <3> HIDE DEF old
    <3>3. Distinct'
      BY <3>1, <3>2 DEF Distinct, Line
    <3>4. QueuedStage'
      BY <3>1 DEF QueuedStage, Line
    <3> QED BY <3>3, <3>4
  <2>4. call.pc # "first"
    BY <2>1 DEF Line, CallAtHead
  <2>5. TypeOK'
    <3>1. /\ status' \in [Request -> Status]
          /\ callback' \in [Request -> Status \cup {"armed"}]
      BY <1>3, CompleteBusRequestType DEF Status, Failure
    <3> QED BY <1>3, <2>1, <3>1 DEF TypeOK, slotVars, hcVars, CallOK
  <2>6. Line'
    BY <1>3, <2>2, <2>3, <2>4
    DEF Line, CallAtHead, OwnerDuringCall, AbandonedEmpty, OwnedIsHead, HeadAtHC, LockFree, hcVars
  <2> QED BY <2>5, <2>6
<1> QED BY <1>1, <1>2, <1>3

LEMMA RemoveAllRequestLine ==
    ASSUME TypeOK, Line, RemoveAllRequest
    PROVE  TypeOK' /\ Line'
<1> USE DEF RemoveAllRequest
<1>1. CASE queue = <<>>
  <2>1. TypeOK'
    BY <1>1 DEF TypeOK, slotVars, hcVars, clientVars, CallOK
  <2>2. Line'
    BY <1>1, LineFrame DEF hcVars, clientVars, Line, QueuedStage
  <2> QED BY <2>1, <2>2
<1>2. CASE queue # <<>>
  <2>1. Head(queue) \in Request /\ Head(queue) = queue[1] /\ Len(queue) \in Nat /\ Len(queue) >= 1
    BY <1>2, HeadTailProperties, HeadIsFirst DEF TypeOK
  <2>2. /\ queue' \in Seq(Request) /\ queue' # <<>> /\ Len(queue') = 1
        /\ queue'[1] = queue[1] /\ Head(queue') = Head(queue)
    <3>1. queue' = <<Head(queue)>>
      BY <1>2
    <3> QED BY <2>1, <3>1
  <2>3. Distinct' /\ QueuedStage'
    BY <2>1, <2>2 DEF Line, Distinct, QueuedStage, Places, clientVars
  <2>4. CallOK' /\ curHCOwned' \in Request \cup {NoRequest} /\ lockCount' \in 0 .. MaxLock /\ Line'
    BY <1>2, <2>2, <2>3, CancelLine
  <2>5. /\ status' \in [Request -> Status]
        /\ callback' \in [Request -> Status \cup {"armed"}]
    BY <1>2, CompleteBusRequestType DEF Status, Failure
  <2> QED BY <2>2, <2>4, <2>5 DEF TypeOK, slotVars, clientVars
<1> QED BY <1>1, <1>2

LEMMA CompleteRestLine ==
    ASSUME TypeOK, Line, CompleteRest
    PROVE  TypeOK' /\ Line'
<1> USE DEF CompleteRest
<1>1. queue' = <<>> /\ queue' \in Seq(Request) /\ Len(queue') = 0
  BY EmptySeq
<1>2. TypeOK'
  <2>1. /\ status' \in [Request -> Status]
        /\ callback' \in [Request -> Status \cup {"armed"}]
    BY CompleteBusRequestType DEF Status, Failure
  <2>2. abandoned' \in BOOLEAN
    BY Zenon
  <2> QED BY <1>1, <2>1, <2>2 DEF TypeOK, slotVars, hcVars, clientVars, CallOK
<1>3. abandoned' <=> curHCOwned # NoRequest
  BY Zenon
<1>4. curHCOwned' = curHCOwned /\ call' = call /\ call.pc = "none"
  BY DEF hcVars, LockFree
<1> HIDE DEF CompleteRest
<1>5. Line'
  BY <1>1, <1>3, <1>4
  DEF Line, Distinct, QueuedStage, Places, CallAtHead, OwnerDuringCall, AbandonedEmpty,
      OwnedIsHead, HeadAtHC, LockFree
<1> QED BY <1>2, <1>5

(* A stuttering step. *)
LEMMA StutterLine ==
    ASSUME TypeOK, Line, UNCHANGED vars
    PROVE  TypeOK' /\ Line'
<1>1. TypeOK'
  BY DEF vars, slotVars, hcVars, reqVars, clientVars, TypeOK, CallOK
<1>2. Line'
  BY LineFrame DEF vars, hcVars, clientVars, Line, QueuedStage
<1> QED BY <1>1, <1>2

LEMMA NextLine ==
    ASSUME TypeOK, Line, [Next]_vars
    PROVE  TypeOK' /\ Line'
<1>1. CASE EnterComplete BY <1>1, EnterCompleteLine
<1>2. CASE RetryRequest BY <1>2, RetryRequestLine
<1>3. CASE CallClient BY <1>3, CallClientLine
<1>4. CASE PopHead BY <1>4, PopHeadLine
<1>5. CASE \E st \in Status : SubmitNext(st) BY <1>5, SubmitNextLine
<1>6. CASE \E st \in Status : SubmitFirst(st) BY <1>6, SubmitFirstLine
<1>7. CASE \E st \in IndicatedStatus : CompleteRequestFromHC(st) BY <1>7, CompleteRequestFromHCLine
<1>8. CASE \E r \in Request : \E k \in Kinds : NewRequest(r, k)
  BY <1>8, NewRequestLine, BoundAssumption DEF Kind
<1>9. CASE \E r \in Request : QueueBusRequest(r) BY <1>9, QueueBusRequestLine
<1>10. CASE \E r \in Request : CompleteRefused(r) BY <1>10, CompleteRefusedLine
<1>11. CASE \E r \in Request : Release(r) BY <1>11, ReleaseLine
<1>12. CASE \E r \in Request : RemoveRequest(r) BY <1>12, RemoveRequestLine
<1>13. CASE RemoveAllRequest BY <1>13, RemoveAllRequestLine
<1>14. CASE CompleteRest BY <1>14, CompleteRestLine
<1>15. CASE \/ GetAndLockCurrentRequest \/ UnlockRequest
            \/ \E r \in Request : CancelCheck(r)
            \/ HostDetach \/ StartDetach \/ Attach \/ SlotStateChange
  BY <1>15, OthersLine
<1>16. CASE UNCHANGED vars BY <1>16, StutterLine
<1> QED
  BY <1>1, <1>2, <1>3, <1>4, <1>5, <1>6, <1>7, <1>8, <1>9, <1>10, <1>11, <1>12, <1>13, <1>14,
     <1>15, <1>16 DEF Next, RunCompleteRequest

(***************************************************************************)
(* The queue, the running CompleteRequest and the controller agree in      *)
(* every reachable state, and every variable has its type.                 *)
(***************************************************************************)
THEOREM LineInvariant == Spec => [](TypeOK /\ Line)
<1>1. TypeOK /\ Line /\ [Next]_vars => (TypeOK /\ Line)'
  BY NextLine
<1> QED BY InitLine, <1>1, PTL DEF Spec

-----------------------------------------------------------------------------
(***************************************************************************)
(* Second half: what the fields of a request hold on its way.              *)
(***************************************************************************)

(* Whoever runs CompleteRequest works on the first place of the queue. *)
LEMMA CallIsFirst ==
    ASSUME TypeOK, Line, call.pc # "none", call.pc # "enter" \/ queue # <<>>
    PROVE  /\ 1 \in Places /\ queue[1] = call.req /\ call.req \in Request
           /\ \A i \in Places : i # 1 => queue[i] # call.req
           /\ call.pc = "first" => \A i \in Places : i = 1
<1>1. queue # <<>> /\ Head(queue) = call.req /\ call.req \in Request
  BY CallRecord DEF Line, CallAtHead, Step
<1>2. 1 \in Places /\ queue[1] = call.req
  BY <1>1, HeadIsFirst, LenProperties DEF TypeOK, Places
<1>3. ASSUME call.pc = "first" PROVE \A i \in Places : i = 1
  <2>1. Len(queue) = 1
    BY <1>3 DEF Line, CallAtHead
  <2> QED BY <2>1 DEF Places
<1> QED BY <1>1, <1>2, <1>3 DEF Line, Distinct

LEMMA InitContent == Init => Content
<1> SUFFICES ASSUME Init PROVE Content
  OBVIOUS
<1> QED
  BY EmptySeq
  DEF Init, Content, Waiting, HeadContent, CallHonest, OffQueue, AcceptedHonest, AcceptedRetried,
      Places, NoCall, Untouched

LEMMA ContentFrame ==
    ASSUME Content, UNCHANGED <<queue, call, status, callback, stage, ret, retry, confirmed>>
    PROVE  Content'
BY DEF Content, Waiting, HeadContent, CallHonest, OffQueue, AcceptedHonest, AcceptedRetried,
       Places, Untouched, IsComplete

LEMMA OthersContent ==
    ASSUME Content,
           \/ GetAndLockCurrentRequest \/ UnlockRequest
           \/ \E r \in Request : CancelCheck(r)
           \/ HostDetach \/ StartDetach \/ Attach \/ SlotStateChange
           \/ UNCHANGED vars
    PROVE  Content'
<1>1. UNCHANGED <<queue, call, status, callback, stage, ret, retry, confirmed>>
  BY DEF GetAndLockCurrentRequest, UnlockRequest, CancelCheck, HostDetach, StartDetach, Attach,
         SlotStateChange, vars, clientVars, reqVars
<1> QED BY <1>1, ContentFrame

(* A block that is not queued may change as long as what it holds fits its *)
(* own stage: the queue and the running call do not look at it.            *)
LEMMA OffQueueChange ==
    ASSUME TypeOK, Line, Content, NEW r \in Request, \A i \in Places : queue[i] # r,
           UNCHANGED <<queue, call>>,
           \A q \in Request \ {r} :
             /\ status'[q] = status[q] /\ callback'[q] = callback[q] /\ stage'[q] = stage[q]
             /\ ret'[q] = ret[q] /\ retry'[q] = retry[q]
             /\ q \in confirmed => q \in confirmed',
           stage'[r] = "checked" => status'[r] = "PENDING" /\ callback'[r] = "armed",
           stage'[r] = "refused" => ret'[r] \in Failure,
           stage'[r] = "submitted" =>
             status'[r] # "PENDING" /\ (callback'[r] # "armed" \/ status'[r] = "FASTPATH"),
           callback'[r] = "armed" \/ ret'[r] \in Failure
             \/ (callback'[r] \notin {"SUCCESS", "FASTPATH", "TIMEOUT"})
    PROVE  Content'
<1>1. \A i \in Places : queue[i] \in Request \ {r}
  BY QueueSet
<1>2. Waiting'
  BY <1>1 DEF Content, Waiting, Places, Untouched
<1>3. ASSUME call.pc # "none" /\ (call.pc # "enter" \/ queue # <<>>)
      PROVE  HeadContent' /\ CallHonest'
  <2>1. call.req \in Request \ {r}
    BY <1>1, <1>3, CallIsFirst
  <2> QED BY <2>1 DEF Content, HeadContent, CallHonest, Untouched
<1>4. ASSUME call.pc = "none" \/ (call.pc = "enter" /\ queue = <<>>)
      PROVE  HeadContent' /\ CallHonest'
  BY <1>4 DEF Content, HeadContent, CallHonest
<1>5. OffQueue'
  BY DEF Content, OffQueue, Places, Untouched, IsComplete
<1>6. AcceptedHonest' /\ AcceptedRetried'
  BY DEF Content, AcceptedHonest, AcceptedRetried
<1> QED BY <1>2, <1>3, <1>4, <1>5, <1>6 DEF Content

LEMMA NewRequestContent ==
    ASSUME TypeOK, Line, Content, NEW r \in Request, NEW k \in Kind, NewRequest(r, k)
    PROVE  Content'
<1>1. \A i \in Places : queue[i] # r
  BY DEF NewRequest, Line, QueuedStage
<1>2. /\ status'[r] = "PENDING" /\ callback'[r] = "armed"
      /\ stage'[r] = "checked" \/ (stage'[r] = "refused" /\ ret'[r] \in Failure)
  BY DEF NewRequest, TypeOK, Failure
<1>3. \A q \in Request \ {r} :
        /\ status'[q] = status[q] /\ callback'[q] = callback[q] /\ stage'[q] = stage[q]
        /\ ret'[q] = ret[q] /\ retry'[q] = retry[q]
        /\ q \in confirmed => q \in confirmed'
  BY DEF NewRequest, TypeOK
<1>4. UNCHANGED <<queue, call>>
  BY DEF NewRequest
<1> QED BY <1>1, <1>2, <1>3, <1>4, OffQueueChange

LEMMA CompleteRefusedContent ==
    ASSUME TypeOK, Line, Content, NEW r \in Request, CompleteRefused(r)
    PROVE  Content'
<1>1. \A i \in Places : queue[i] # r
  BY QueueSet DEF CompleteRefused
<1>2. ret[r] \in Failure /\ ret' = ret
  BY DEF CompleteRefused, Content, OffQueue
<1>3. status'[r] = ret[r] /\ stage'[r] = "submitted" /\ callback'[r] # "armed"
  BY <1>2 DEF CompleteRefused, CompleteBusRequest, TypeOK, Failure
<1>4. \A q \in Request \ {r} :
        /\ status'[q] = status[q] /\ callback'[q] = callback[q] /\ stage'[q] = stage[q]
        /\ ret'[q] = ret[q] /\ retry'[q] = retry[q]
        /\ q \in confirmed => q \in confirmed'
  BY DEF CompleteRefused, CompleteBusRequest, TypeOK
<1>5. UNCHANGED <<queue, call>>
  BY DEF CompleteRefused
<1>6. status'[r] # "PENDING"
  BY <1>2, <1>3 DEF Failure
<1> QED BY <1>1, <1>2, <1>3, <1>4, <1>5, <1>6, OffQueueChange

LEMMA ReleaseContent ==
    ASSUME TypeOK, Line, Content, NEW r \in Request, Release(r)
    PROVE  Content'
<1>1. \A i \in Places : queue[i] # r
  BY QueueSet DEF Release
<1>2. callback'[r] = "armed" /\ stage'[r] = "free"
  BY DEF Release, TypeOK
<1>3. \A q \in Request \ {r} :
        /\ status'[q] = status[q] /\ callback'[q] = callback[q] /\ stage'[q] = stage[q]
        /\ ret'[q] = ret[q] /\ retry'[q] = retry[q]
        /\ q \in confirmed => q \in confirmed'
  BY DEF Release, TypeOK
<1>4. UNCHANGED <<queue, call>>
  BY DEF Release
<1> QED BY <1>1, <1>2, <1>3, <1>4, OffQueueChange

LEMMA QueueBusRequestContent ==
    ASSUME TypeOK, Line, Content, NEW r \in Request, QueueBusRequest(r)
    PROVE  Content'
<1>1. /\ Len(queue) \in Nat /\ Len(queue') = Len(queue) + 1
      /\ \A i \in 1 .. Len(queue) : queue'[i] = queue[i] /\ queue[i] \in Request
      /\ queue'[Len(queue) + 1] = r
      /\ queue = <<>> => Len(queue) = 0
  BY AppendProperties, EmptySeq, LenProperties, ElementOfSeq DEF TypeOK, QueueBusRequest
<1>2. \A i \in 1 .. Len(queue) : queue[i] # r
  BY DEF Line, QueuedStage, Places, QueueBusRequest
<1>3. /\ UNCHANGED <<status, callback, retry, ret, confirmed>>
      /\ stage'[r] = "submitted" /\ \A q \in Request \ {r} : stage'[q] = stage[q]
      /\ stage[r] = "checked"
  BY DEF QueueBusRequest, TypeOK
<1>4. Untouched(r)
  BY <1>3 DEF Content, OffQueue
<1>5. AcceptedHonest' /\ AcceptedRetried'
  BY <1>3 DEF Content, AcceptedHonest, AcceptedRetried
<1>6. OffQueue'
  <2> SUFFICES ASSUME NEW q \in Request
               PROVE  /\ stage'[q] = "checked" => Untouched(q)'
                      /\ stage'[q] = "refused" => ret'[q] \in Failure
                      /\ stage'[q] = "submitted" /\ (\A i \in Places' : queue'[i] # q) =>
                           IsComplete(q)' /\ (callback'[q] # "armed" \/ status'[q] = "FASTPATH")
    BY DEF OffQueue
  <2>1. CASE q = r
    BY <1>1, <1>3, <2>1 DEF Places
  <2>2. CASE q # r
    <3>1. (\A i \in Places' : queue'[i] # q) => \A i \in Places : queue[i] # q
      BY <1>1 DEF Places
    <3> QED BY <1>3, <2>2, <3>1 DEF Content, OffQueue, Untouched, IsComplete
  <2> QED BY <2>1, <2>2
<1>7. CASE queue = <<>>
  <2>1. call' = [req |-> r, st |-> "PENDING", pc |-> "first"]
    BY <1>7 DEF QueueBusRequest
  <2>2. Waiting'
    BY <1>1, <1>7, <2>1 DEF Waiting, Places
  <2>3. HeadContent' /\ CallHonest'
    BY <1>3, <1>4, <2>1 DEF HeadContent, CallHonest, Untouched
  <2> QED BY <1>5, <1>6, <2>2, <2>3 DEF Content
<1>8. CASE queue # <<>>
  <2>1. call' = call /\ call.pc \in {"none", "callback"}
    BY <1>8 DEF QueueBusRequest, CanLock
  <2>2. Waiting'
    BY <1>1, <1>2, <1>3, <1>4, <2>1 DEF Waiting, Places, Content, Untouched
  <2>3. HeadContent' /\ CallHonest'
    BY <1>3, <2>1 DEF HeadContent, CallHonest, Untouched, Content
  <2> QED BY <1>5, <1>6, <2>2, <2>3 DEF Content
<1> QED BY <1>7, <1>8

LEMMA SubmitFirstContent ==
    ASSUME TypeOK, Line, Content, NEW st \in Status, SubmitFirst(st)
    PROVE  Content'
<1> DEFINE r == call.req
<1>0. call.pc = "first" /\ SubmitRequestToHC(r, st)
  BY DEF SubmitFirst
<1>1. /\ r \in Request /\ 1 \in Places /\ queue[1] = r /\ \A i \in Places : i = 1
      /\ Untouched(r) /\ stage[r] = "submitted"
      /\ queue # <<>> /\ Len(queue) = 1
  BY <1>0, CallIsFirst DEF Content, HeadContent, Line, CallAtHead
<1>2. /\ retry' = retry /\ confirmed \subseteq confirmed'
      /\ st = "FASTPATH" => r \in confirmed'
      /\ st \in {"PENDING", "FASTPATH"} \cup Failure
  BY <1>0, <1>1, SubmitEffect DEF Untouched
<1>3. UNCHANGED <<callback, kind>>
  BY DEF SubmitFirst
<1>4. st = "FASTPATH" => kind[r] = "fast"
  BY <1>0 DEF SubmitRequestToHC, HandlerStatus, Failure
<1> HIDE DEF r
<1>5. CASE st = "PENDING"
  <2>1. call' = NoCall /\ UNCHANGED <<queue, status, stage, ret>>
    BY <1>5 DEF SubmitFirst
  <2>2. Waiting'
    BY <1>1, <1>3, <2>1 DEF Waiting, Places, Untouched
  <2>3. HeadContent' /\ CallHonest'
    BY <2>1 DEF HeadContent, CallHonest, NoCall
  <2>4. OffQueue' /\ AcceptedHonest' /\ AcceptedRetried'
    BY <1>2, <1>3, <2>1
    DEF Content, OffQueue, AcceptedHonest, AcceptedRetried, Places, Untouched, IsComplete
  <2> QED BY <2>2, <2>3, <2>4 DEF Content
<1>6. CASE st # "PENDING" /\ kind[r] = "fast"
  <2>1. /\ queue' = Tail(queue)
        /\ status' = [status EXCEPT ![r] = st]
        /\ stage' = [stage EXCEPT ![r] = IF st \in Failure THEN "refused" ELSE @]
        /\ ret' = [ret EXCEPT ![r] = st]
        /\ call' = NoCall
    BY <1>6 DEF SubmitFirst, r
  <2>2. Len(queue') = 0
    BY <1>1, <2>1, HeadTailProperties DEF TypeOK
  <2>3. Waiting' /\ HeadContent' /\ CallHonest'
    BY <2>1, <2>2 DEF Waiting, HeadContent, CallHonest, Places, NoCall
  <2>4. OffQueue'
    <3> SUFFICES ASSUME NEW q \in Request
                 PROVE  /\ stage'[q] = "checked" => Untouched(q)'
                        /\ stage'[q] = "refused" => ret'[q] \in Failure
                        /\ stage'[q] = "submitted" /\ (\A i \in Places' : queue'[i] # q) =>
                             IsComplete(q)' /\ (callback'[q] # "armed" \/ status'[q] = "FASTPATH")
      BY DEF OffQueue
    <3>1. CASE q = r
      BY <1>1, <1>2, <1>3, <1>6, <2>1, <3>1 DEF TypeOK, IsComplete, Failure
    <3>2. CASE q # r
      <4>1. \A i \in Places : queue[i] # q
        BY <1>1, <3>2
      <4>2. /\ status'[q] = status[q] /\ stage'[q] = stage[q] /\ ret'[q] = ret[q]
            /\ callback'[q] = callback[q]
        BY <1>3, <2>1, <3>2 DEF TypeOK
      <4> QED BY <4>1, <4>2 DEF Content, OffQueue, Untouched, IsComplete
    <3> QED BY <3>1, <3>2
  <2>5. AcceptedHonest' /\ AcceptedRetried'
    BY <1>1, <1>2, <1>3, <2>1
    DEF Content, AcceptedHonest, AcceptedRetried, Untouched, TypeOK
  <2> QED BY <2>3, <2>4, <2>5 DEF Content
<1>7. CASE st # "PENDING" /\ kind[r] # "fast"
  <2>1. /\ call' = [req |-> r, st |-> "SUCCESS", pc |-> "enter"]
        /\ stage' = [stage EXCEPT ![r] = "refused"]
        /\ ret' = [ret EXCEPT ![r] = st]
        /\ UNCHANGED <<queue, status>>
    BY <1>7 DEF SubmitFirst, r
  <2>2. st \in Failure
    BY <1>2, <1>4, <1>7
  <2>3. Waiting'
    BY <1>1, <2>1 DEF Waiting, Places
  <2>4. HeadContent' /\ CallHonest'
    BY <1>1, <1>3, <2>1, <2>2 DEF HeadContent, CallHonest, Untouched, TypeOK
  <2>5. OffQueue'
    <3> SUFFICES ASSUME NEW q \in Request
                 PROVE  /\ stage'[q] = "checked" => Untouched(q)'
                        /\ stage'[q] = "refused" => ret'[q] \in Failure
                        /\ stage'[q] = "submitted" /\ (\A i \in Places' : queue'[i] # q) =>
                             IsComplete(q)' /\ (callback'[q] # "armed" \/ status'[q] = "FASTPATH")
      BY DEF OffQueue
    <3>1. CASE q = r
      BY <2>1, <2>2, <3>1 DEF TypeOK
    <3>2. CASE q # r
      <4>1. /\ status'[q] = status[q] /\ stage'[q] = stage[q] /\ ret'[q] = ret[q]
            /\ callback'[q] = callback[q] /\ queue' = queue
        BY <1>3, <2>1, <3>2 DEF TypeOK
      <4> QED BY <4>1 DEF Content, OffQueue, Untouched, IsComplete, Places
    <3> QED BY <3>1, <3>2
  <2>6. AcceptedHonest' /\ AcceptedRetried'
    BY <1>1, <1>2, <1>3, <2>1, <2>2
    DEF Content, AcceptedHonest, AcceptedRetried, Untouched, TypeOK
  <2> QED BY <2>3, <2>4, <2>5, <2>6 DEF Content
<1> QED BY <1>5, <1>6, <1>7

(* The steps of CompleteRequest: only the head is written to. *)
LEMMA HeadFrame ==
    ASSUME TypeOK, Line, Content,
           call.pc # "none", call.pc # "enter" \/ queue # <<>>,
           UNCHANGED <<queue, stage, ret>>, confirmed \subseteq confirmed',
           \A q \in Request \ {call.req} :
             /\ status'[q] = status[q] /\ callback'[q] = callback[q] /\ retry'[q] = retry[q],
           call'.pc # "none" \/ (status'[call.req] = "PENDING" /\ callback'[call.req] = "armed")
    PROVE  Waiting' /\ OffQueue'
<1>1. /\ 1 \in Places /\ queue[1] = call.req
      /\ \A i \in Places : i # 1 => queue[i] \in Request \ {call.req}
  BY CallIsFirst, QueueSet
<1>2. Waiting'
  BY <1>1 DEF Content, Waiting, Places, Untouched
<1>3. stage[call.req] # "checked"
  BY <1>1 DEF Line, QueuedStage
<1>4. OffQueue'
  BY <1>1, <1>3 DEF Content, OffQueue, Places, Untouched, IsComplete
<1> QED BY <1>2, <1>4

LEMMA EnterCompleteContent ==
    ASSUME TypeOK, Line, Content, EnterComplete
    PROVE  Content'
<1>1. /\ call.pc = "enter" /\ call.req \in Request /\ call.st \in Status
      /\ UNCHANGED <<queue, stage, ret, retry, callback, confirmed>>
  BY CallRecord DEF EnterComplete, clientVars
<1>2. AcceptedHonest' /\ AcceptedRetried'
  BY <1>1 DEF Content, AcceptedHonest, AcceptedRetried
<1>3. CASE queue = <<>>
  <2>1. call' = NoCall /\ UNCHANGED status
    BY <1>3 DEF EnterComplete
  <2>2. Len(queue) = 0
    BY <1>3
  <2>3. Waiting' /\ HeadContent' /\ CallHonest' /\ OffQueue'
    BY <1>1, <2>1, <2>2
    DEF Content, Waiting, HeadContent, CallHonest, OffQueue, Places, NoCall, Untouched, IsComplete
  <2> QED BY <1>2, <2>3 DEF Content
<1>4. CASE queue # <<>>
  <2>1. /\ status' = [status EXCEPT ![call.req] = call.st]
        /\ call'.pc = "complete" /\ call'.req = call.req /\ call'.st = call.st
    BY <1>1, <1>4, CallRecord DEF EnterComplete, Line, CallAtHead, Step
  <2>2. status'[call.req] = call.st /\ \A q \in Request \ {call.req} : status'[q] = status[q]
    BY <1>1, <2>1 DEF TypeOK
  <2>3. Waiting' /\ OffQueue'
    BY <1>1, <1>4, <2>1, <2>2, HeadFrame
  <2>4. HeadContent' /\ CallHonest'
    BY <1>1, <1>4, <2>1, <2>2 DEF Content, HeadContent, CallHonest, Untouched
  <2> QED BY <1>2, <2>3, <2>4 DEF Content
<1> QED BY <1>3, <1>4

LEMMA RetryRequestContent ==
    ASSUME TypeOK, Line, Content, RetryRequest
    PROVE  Content'
<1> DEFINE r == call.req
<1>1. /\ call.pc = "complete" /\ r \in Request /\ queue[1] = r /\ callback[r] = "armed"
      /\ call' = [req |-> r, st |-> "PENDING", pc |-> "submit"]
      /\ UNCHANGED <<queue, stage, ret, callback, confirmed>>
  BY CallRecord, CallIsFirst DEF RetryRequest, clientVars, Content, HeadContent
<1>2. /\ status'[r] = "PENDING"
      /\ \A q \in Request \ {r} : status'[q] = status[q] /\ retry'[q] = retry[q]
  BY <1>1 DEF RetryRequest, TypeOK
<1>3. Waiting' /\ OffQueue'
  BY <1>1, <1>2, HeadFrame
<1>4. HeadContent' /\ CallHonest'
  BY <1>1, <1>2 DEF HeadContent, CallHonest, Untouched
<1>5. AcceptedHonest' /\ AcceptedRetried'
  BY <1>1, <1>2 DEF Content, AcceptedHonest, AcceptedRetried
<1> QED BY <1>3, <1>4, <1>5 DEF Content

LEMMA CallClientContent ==
    ASSUME TypeOK, Line, Content, CallClient
    PROVE  Content'
<1> DEFINE r == call.req
<1>1. /\ call.pc = "complete" /\ r \in Request /\ call.st \in Status /\ queue # <<>>
      /\ status[r] = call.st /\ callback[r] = "armed" /\ call.st # "PENDING"
      /\ ~ NeedRetry(r, call.st)
      /\ UNCHANGED <<queue, stage, ret, retry, confirmed>>
  BY CallRecord DEF CallClient, clientVars, Content, HeadContent, Line, CallAtHead
<1>2. call'.pc = "callback" /\ call'.req = r /\ call'.st = call.st
  BY CallRecord DEF CallClient, Step
<1>3. /\ status'[r] = call.st /\ callback'[r] = call.st
      /\ \A q \in Request \ {r} : status'[q] = status[q] /\ callback'[q] = callback[q]
  BY <1>1 DEF CallClient, CompleteBusRequest
<1> HIDE DEF r
<1>4. Waiting' /\ OffQueue'
  BY <1>1, <1>2, <1>3, HeadFrame DEF r
<1>5. HeadContent' /\ CallHonest'
  BY <1>1, <1>2, <1>3 DEF HeadContent, CallHonest
<1>6. AcceptedHonest'
  BY <1>1, <1>3 DEF Content, AcceptedHonest, CallHonest, r
<1>7. AcceptedRetried'
  BY <1>1, <1>3 DEF Content, AcceptedRetried, NeedRetry
<1> QED BY <1>4, <1>5, <1>6, <1>7 DEF Content

LEMMA PopHeadContent ==
    ASSUME TypeOK, Line, Content, PopHead
    PROVE  Content'
<1> DEFINE r == call.req
<1>1. /\ call.pc = "callback" /\ r \in Request /\ call.st \in Status \ {"PENDING"}
      /\ queue # <<>> /\ queue[1] = r
      /\ status[r] = call.st /\ callback[r] = call.st
      /\ UNCHANGED <<stage, ret, retry, status, callback, confirmed>>
  BY CallRecord, CallIsFirst
  DEF PopHead, clientVars, reqVars, Content, HeadContent, Line, CallAtHead
<1>2. /\ queue' \in Seq(Request) /\ Len(queue') = Len(queue) - 1 /\ Len(queue) \in Nat
      /\ \A i \in 1 .. Len(queue') : queue'[i] = queue[i + 1]
  BY <1>1, HeadTailProperties, LenProperties DEF PopHead, TypeOK
<1>3. \A i \in 2 .. Len(queue) : Untouched(queue[i])
  BY <1>2 DEF Content, Waiting, Places
<1>4. \A i \in Places' : status'[queue'[i]] = "PENDING" /\ callback'[queue'[i]] = "armed"
  <2> SUFFICES ASSUME NEW i \in 1 .. Len(queue')
               PROVE  status[queue'[i]] = "PENDING" /\ callback[queue'[i]] = "armed"
    BY <1>1 DEF Places
  <2>1. queue'[i] = queue[i + 1] /\ i + 1 \in 2 .. Len(queue)
    BY <1>2
  <2> QED BY <1>3, <2>1 DEF Untouched
<1>5. Waiting'
  BY <1>4 DEF Waiting, Untouched
<1>6. HeadContent' /\ CallHonest'
  <2>1. CASE queue' = <<>>
    BY <2>1 DEF PopHead, NoCall, HeadContent, CallHonest
  <2>2. CASE queue' # <<>>
    <3>1. Head(queue') = queue'[1] /\ 1 \in Places'
      BY <1>2, <2>2, HeadIsFirst DEF Places
    <3>2. call' = [req |-> queue'[1], st |-> "PENDING", pc |-> "submit"]
      BY <2>2, <3>1 DEF PopHead
    <3> QED BY <1>4, <3>1, <3>2 DEF HeadContent, CallHonest, Untouched
  <2> QED BY <2>1, <2>2
<1>7. OffQueue'
  <2> SUFFICES ASSUME NEW q \in Request
               PROVE  /\ stage'[q] = "checked" => Untouched(q)'
                      /\ stage'[q] = "refused" => ret'[q] \in Failure
                      /\ stage'[q] = "submitted" /\ (\A i \in Places' : queue'[i] # q) =>
                           IsComplete(q)' /\ (callback'[q] # "armed" \/ status'[q] = "FASTPATH")
    BY DEF OffQueue
  <2>1. stage'[q] = "checked" => Untouched(q)'
    BY <1>1 DEF Content, OffQueue, Untouched
  <2>2. stage'[q] = "refused" => ret'[q] \in Failure
    BY <1>1 DEF Content, OffQueue
  <2>3. CASE q = r
    BY <1>1, <2>1, <2>2, <2>3 DEF IsComplete, Status, Failure
  <2>4. CASE q # r
    <3>1. (\A i \in Places' : queue'[i] # q) => \A i \in Places : queue[i] # q
      <4> SUFFICES ASSUME NEW i \in Places, queue[i] = q
                   PROVE  \E j \in Places' : queue'[j] = q
        OBVIOUS
      <4>1. i # 1
        BY <1>1, <2>4
      <4>2. i - 1 \in Places' /\ queue'[i - 1] = q
        BY <1>2, <4>1 DEF Places
      <4> QED BY <4>2
    <3> QED BY <1>1, <2>1, <2>2, <3>1 DEF Content, OffQueue, IsComplete
  <2> QED BY <2>3, <2>4
<1>8. AcceptedHonest' /\ AcceptedRetried'
  BY <1>1 DEF Content, AcceptedHonest, AcceptedRetried
<1> QED BY <1>5, <1>6, <1>7, <1>8 DEF Content

LEMMA SubmitNextContent ==
    ASSUME TypeOK, Line, Content, NEW st \in Status, SubmitNext(st)
    PROVE  Content'
<1> DEFINE r == call.req
<1>0. call.pc = "submit" /\ SubmitRequestToHC(r, st)
  BY DEF SubmitNext
<1>1. r \in Request /\ queue # <<>> /\ Untouched(r)
  BY <1>0, CallRecord DEF Content, HeadContent, Line, CallAtHead
<1>2. /\ retry' = retry /\ confirmed \subseteq confirmed'
      /\ st = "FASTPATH" => r \in confirmed'
      /\ st \in {"PENDING", "FASTPATH"} \cup Failure
  BY <1>0, <1>1, SubmitEffect DEF Untouched
<1>3. UNCHANGED <<queue, stage, ret, status, callback>>
  BY DEF SubmitNext, clientVars
<1>4. call' = IF st = "PENDING" THEN NoCall ELSE [req |-> r, st |-> st, pc |-> "enter"]
  BY DEF SubmitNext
<1>5. Waiting' /\ OffQueue'
  BY <1>0, <1>1, <1>2, <1>3, HeadFrame DEF Untouched
<1> HIDE DEF r
<1>6. HeadContent' /\ CallHonest'
  BY <1>1, <1>2, <1>3, <1>4 DEF HeadContent, CallHonest, NoCall, Untouched, Failure
<1>7. AcceptedHonest' /\ AcceptedRetried'
  BY <1>2, <1>3 DEF Content, AcceptedHonest, AcceptedRetried
<1> QED BY <1>5, <1>6, <1>7 DEF Content

(* The controller, or a cancellation, starts to complete the head. *)
LEMMA BeginCompletion ==
    ASSUME TypeOK, Line, Content, LockFree, NEW r, NEW st \in Status \ {"PENDING"},
           call' = [req |-> r, st |-> st, pc |-> "enter"],
           queue # <<>> => Head(queue) = r,
           st \in {"SUCCESS", "FASTPATH"} => r \in confirmed',
           UNCHANGED <<queue, stage, ret, retry, status, callback>>,
           confirmed \subseteq confirmed'
    PROVE  Content'
<1>1. queue # <<>> => 1 \in Places /\ queue[1] = r
  BY HeadIsFirst DEF TypeOK, Places
<1>2. Waiting'
  BY DEF Content, Waiting, LockFree, Places, Untouched
<1>3. HeadContent' /\ CallHonest'
  BY <1>1 DEF Content, Waiting, HeadContent, CallHonest, LockFree, Untouched
<1>4. OffQueue' /\ AcceptedHonest' /\ AcceptedRetried'
  BY DEF Content, OffQueue, AcceptedHonest, AcceptedRetried, Places, Untouched, IsComplete
<1> QED BY <1>2, <1>3, <1>4 DEF Content

LEMMA CompleteRequestFromHCContent ==
    ASSUME TypeOK, Line, Content, NEW st \in IndicatedStatus, CompleteRequestFromHC(st)
    PROVE  Content'
<1>1. st \in Status \ {"PENDING"} /\ st # "FASTPATH"
  BY DEF IndicatedStatus, Status, Failure
<1>2. queue # <<>> => Head(queue) = curHCOwned
  BY DEF CompleteRequestFromHC, Line, AbandonedEmpty, OwnedIsHead
<1>3. /\ LockFree /\ call' = [req |-> curHCOwned, st |-> st, pc |-> "enter"]
      /\ UNCHANGED <<queue, stage, ret, retry, status, callback>>
      /\ confirmed \subseteq confirmed'
      /\ st = "SUCCESS" => curHCOwned \in confirmed'
  BY DEF CompleteRequestFromHC, reqVars, clientVars
<1> QED BY <1>1, <1>2, <1>3, BeginCompletion

(* Requests that are taken out of the queue are told so. *)
LEMMA CanceledContent ==
    ASSUME TypeOK, Line, Content, NEW R, CompleteBusRequest(R, "CANCELED"),
           \A q \in R : \E i \in Places : queue[i] = q,
           \A i \in Places : queue[i] \in R \/ \E j \in Places' : queue'[j] = queue[i],
           UNCHANGED <<stage, ret, retry, confirmed>>
    PROVE  OffQueue' /\ AcceptedHonest' /\ AcceptedRetried'
<1>1. \A q \in Request \ R : status'[q] = status[q] /\ callback'[q] = callback[q]
  BY DEF CompleteBusRequest
<1>2. \A q \in Request \cap R :
        /\ status'[q] = "CANCELED" /\ callback'[q] # "armed" /\ stage[q] # "checked"
        /\ callback'[q] = callback[q] \/ callback'[q] = "CANCELED"
  BY DEF CompleteBusRequest, Line, QueuedStage
<1>3. \A q \in Request \ R :
        (\A i \in Places' : queue'[i] # q) => \A i \in Places : queue[i] # q
  OBVIOUS
<1>4. OffQueue'
  <2> SUFFICES ASSUME NEW q \in Request
               PROVE  /\ stage'[q] = "checked" => Untouched(q)'
                      /\ stage'[q] = "refused" => ret'[q] \in Failure
                      /\ stage'[q] = "submitted" /\ (\A i \in Places' : queue'[i] # q) =>
                           IsComplete(q)' /\ (callback'[q] # "armed" \/ status'[q] = "FASTPATH")
    BY DEF OffQueue
  <2>1. CASE q \in R
    BY <1>2, <2>1 DEF Content, OffQueue, IsComplete
  <2>2. CASE q \notin R
    BY <1>1, <1>3, <2>2 DEF Content, OffQueue, IsComplete, Untouched
  <2> QED BY <2>1, <2>2
<1>5. AcceptedHonest' /\ AcceptedRetried'
  BY <1>1, <1>2 DEF Content, AcceptedHonest, AcceptedRetried
<1> QED BY <1>4, <1>5

LEMMA RemoveRequestContent ==
    ASSUME TypeOK, Line, Content, NEW r \in Request, RemoveRequest(r)
    PROVE  Content'
<1>0. UNCHANGED <<stage, ret, retry, confirmed>>
  BY DEF RemoveRequest
<1>1. CASE UNCHANGED <<queue, status, callback, call>>
  BY <1>0, <1>1, ContentFrame
<1>2. CASE /\ queue # <<>> /\ Head(queue) = r /\ UNCHANGED <<queue, status, callback>>
           /\ call' = [req |-> r, st |-> "CANCELED", pc |-> "enter"]
  <2>1. LockFree
    BY <1>2 DEF RemoveRequest, Line, CallAtHead, CanLock, LockFree
  <2> QED BY <1>0, <1>2, <2>1, BeginCompletion DEF Status, Failure
<1>3. ASSUME NEW i \in 2 .. Len(queue), queue[i] = r, queue' = RemoveAt(queue, i),
             CompleteBusRequest({r}, "CANCELED"), call' = call
      PROVE  Content'
  <2>1. /\ Len(queue') = Len(queue) - 1 /\ Len(queue) \in Nat
        /\ \A j \in 1 .. Len(queue) - 1 :
             queue'[j] = IF j < i THEN queue[j] ELSE queue[j + 1]
    <3>1. queue \in Seq(Request) /\ Len(queue) \in Nat
      BY LenProperties DEF TypeOK
    <3>2. i \in 1 .. Len(queue)
      BY <3>1
    <3> QED BY <1>3, <3>1, <3>2, RemoveAtProperties
  <2>2. \A j \in Places : queue[j] = r => j = i
    BY <1>3, <2>1 DEF Line, Distinct, Places
  <2>3. \A j \in Places' : \E k \in Places : k # i /\ queue'[j] = queue[k] /\ (j = 1 <=> k = 1)
    BY <2>1 DEF Places
  <2>4. \A k \in Places \ {i} : \E j \in Places' : queue'[j] = queue[k]
    <3> SUFFICES ASSUME NEW k \in Places, k # i
                 PROVE  \E j \in Places' : queue'[j] = queue[k]
      OBVIOUS
    <3>1. CASE k < i
      BY <2>1, <3>1 DEF Places
    <3>2. CASE k > i
      <4>1. k - 1 \in Places' /\ queue'[k - 1] = queue[k]
        BY <2>1, <3>2 DEF Places
      <4> QED BY <4>1
    <3> QED BY <2>1, <3>1, <3>2 DEF Places
  <2>5. \A q \in Request \ {r} : status'[q] = status[q] /\ callback'[q] = callback[q]
    BY <1>3 DEF CompleteBusRequest
  <2>6. OffQueue' /\ AcceptedHonest' /\ AcceptedRetried'
    <3>1. i \in Places
      BY <2>1 DEF Places
    <3> QED BY <1>0, <1>3, <2>4, <3>1, CanceledContent
  <2>7. Waiting'
    <3> SUFFICES ASSUME NEW j \in Places', call'.pc = "none" \/ j # 1
                 PROVE  status'[queue'[j]] = "PENDING" /\ callback'[queue'[j]] = "armed"
      BY DEF Waiting, Untouched
    <3>1. PICK k \in Places : k # i /\ queue'[j] = queue[k] /\ (j = 1 <=> k = 1)
      BY <2>3
    <3>2. queue[k] \in Request \ {r} /\ Untouched(queue[k])
      BY <1>3, <2>2, <3>1, QueueSet DEF Content, Waiting
    <3> QED BY <2>5, <3>1, <3>2 DEF Untouched
  <2>8. HeadContent' /\ CallHonest'
    <3>1. call.pc \in {"none", "callback"}
      BY DEF RemoveRequest, CanLock, LockFree
    <3>2. call.pc = "callback" => call.req \in Request \ {r}
      BY <2>1, <2>2, CallIsFirst DEF Places
    <3> QED BY <1>3, <2>5, <3>1, <3>2 DEF Content, HeadContent, CallHonest
  <2> QED BY <2>6, <2>7, <2>8 DEF Content
<1> QED BY <1>1, <1>2, <1>3 DEF RemoveRequest, CancelRequestFromHC

LEMMA RemoveAllRequestContent ==
    ASSUME TypeOK, Line, Content, RemoveAllRequest
    PROVE  Content'
<1>0. LockFree /\ UNCHANGED <<stage, ret, retry, confirmed>>
  BY DEF RemoveAllRequest, clientVars
<1>1. CASE queue = <<>>
  <2>1. UNCHANGED <<queue, status, callback, call>>
    BY <1>1 DEF RemoveAllRequest
  <2> QED BY <1>0, <2>1, ContentFrame
<1>2. CASE queue # <<>>
  <2> DEFINE R == ToSet(Tail(queue))
  <2>1. /\ CompleteBusRequest(R, "CANCELED") /\ queue' = <<Head(queue)>>
        /\ \/ call' = [req |-> Head(queue), st |-> "CANCELED", pc |-> "enter"]
           \/ call' = call
    BY <1>2 DEF RemoveAllRequest, CancelRequestFromHC
  <2>2. /\ Head(queue) = queue[1] /\ 1 \in Places /\ Len(queue) \in Nat
        /\ Tail(queue) \in Seq(Request) /\ Len(Tail(queue)) = Len(queue) - 1
        /\ \A i \in 1 .. Len(queue) - 1 : Tail(queue)[i] = queue[i + 1]
    BY <1>2, HeadIsFirst, HeadTailProperties, LenProperties DEF TypeOK, Places
  <2>3. \A q : q \in R <=> \E i \in 1 .. Len(queue) - 1 : Tail(queue)[i] = q
    BY <2>2, LenProperties DEF ToSet
  <2>4. \A q \in R : \E i \in Places : i # 1 /\ queue[i] = q
    BY <2>2, <2>3 DEF Places
  <2>5. \A i \in Places : i # 1 => queue[i] \in R
    <3> SUFFICES ASSUME NEW i \in Places, i # 1
                 PROVE  queue[i] \in R
      OBVIOUS
    <3>1. i - 1 \in 1 .. Len(queue) - 1 /\ Tail(queue)[i - 1] = queue[i]
      BY <2>2 DEF Places
    <3> QED BY <2>3, <3>1
  <2> HIDE DEF R
  <2>6. Places' = {1} /\ queue'[1] = queue[1]
    BY <2>1, <2>2 DEF Places
  <2>7. OffQueue' /\ AcceptedHonest' /\ AcceptedRetried'
    BY <1>0, <2>1, <2>4, <2>5, <2>6, CanceledContent
  <2>8. queue[1] \in Request \ R
    BY <2>2, <2>4, QueueSet DEF Line, Distinct
  <2>9. Untouched(queue[1]) /\ Untouched(queue[1])'
    BY <1>0, <2>1, <2>2, <2>6, <2>8
    DEF Content, Waiting, LockFree, Untouched, CompleteBusRequest
  <2>10. Waiting'
    BY <2>6, <2>9 DEF Waiting, Untouched
  <2>11. HeadContent' /\ CallHonest'
    BY <1>0, <2>1, <2>2, <2>6, <2>9 DEF Content, HeadContent, CallHonest, LockFree, Untouched
  <2> QED BY <2>7, <2>10, <2>11 DEF Content
<1> QED BY <1>1, <1>2

LEMMA CompleteRestContent ==
    ASSUME TypeOK, Line, Content, CompleteRest
    PROVE  Content'
<1>1. /\ LockFree /\ UNCHANGED <<call, stage, ret, retry, confirmed>> /\ queue' = <<>>
      /\ CompleteBusRequest(ToSet(queue), "CANCELED")
  BY DEF CompleteRest, clientVars
<1>2. OffQueue' /\ AcceptedHonest' /\ AcceptedRetried'
  BY <1>1, QueueSet, CanceledContent
<1>3. Waiting' /\ HeadContent' /\ CallHonest'
  BY <1>1 DEF Waiting, HeadContent, CallHonest, LockFree, Places
<1> QED BY <1>2, <1>3 DEF Content

LEMMA NextContent ==
    ASSUME TypeOK, Line, Content, [Next]_vars
    PROVE  Content'
<1>1. CASE EnterComplete BY <1>1, EnterCompleteContent
<1>2. CASE RetryRequest BY <1>2, RetryRequestContent
<1>3. CASE CallClient BY <1>3, CallClientContent
<1>4. CASE PopHead BY <1>4, PopHeadContent
<1>5. CASE \E st \in Status : SubmitNext(st) BY <1>5, SubmitNextContent
<1>6. CASE \E st \in Status : SubmitFirst(st) BY <1>6, SubmitFirstContent
<1>7. CASE \E st \in IndicatedStatus : CompleteRequestFromHC(st)
  BY <1>7, CompleteRequestFromHCContent
<1>8. CASE \E r \in Request : \E k \in Kinds : NewRequest(r, k)
  BY <1>8, NewRequestContent, BoundAssumption DEF Kind
<1>9. CASE \E r \in Request : QueueBusRequest(r) BY <1>9, QueueBusRequestContent
<1>10. CASE \E r \in Request : CompleteRefused(r) BY <1>10, CompleteRefusedContent
<1>11. CASE \E r \in Request : Release(r) BY <1>11, ReleaseContent
<1>12. CASE \E r \in Request : RemoveRequest(r) BY <1>12, RemoveRequestContent
<1>13. CASE RemoveAllRequest BY <1>13, RemoveAllRequestContent
<1>14. CASE CompleteRest BY <1>14, CompleteRestContent
<1>15. CASE \/ GetAndLockCurrentRequest \/ UnlockRequest
            \/ \E r \in Request : CancelCheck(r)
            \/ HostDetach \/ StartDetach \/ Attach \/ SlotStateChange
            \/ UNCHANGED vars
  BY <1>15, OthersContent
<1> QED
  BY <1>1, <1>2, <1>3, <1>4, <1>5, <1>6, <1>7, <1>8, <1>9, <1>10, <1>11, <1>12, <1>13, <1>14,
     <1>15 DEF Next, RunCompleteRequest

(***************************************************************************)
(* The inductive invariant holds in every reachable state: the list, the   *)
(* running CompleteRequest, the controller and the fields of every request *)
(* agree, whatever is submitted, completed, cancelled, locked or detached, *)
(* and in whatever order.                                                  *)
(***************************************************************************)
THEOREM InductiveInvariant == Spec => []IInv
<1>1. Init => IInv
  BY InitLine, InitContent DEF IInv
<1>2. IInv /\ [Next]_vars => IInv'
  BY NextLine, NextContent DEF IInv
<1> QED BY <1>1, <1>2, PTL DEF Spec

-----------------------------------------------------------------------------
(***************************************************************************)
(* What the invariant gives.                                               *)
(***************************************************************************)

(* Every variable keeps its type. *)
THEOREM TypeCorrect == Spec => []TypeOK
<1>1. IInv => TypeOK
  BY DEF IInv
<1> QED BY <1>1, InductiveInvariant, PTL

(* The controller owns the head of the queue and nothing else, unless      *)
(* Detach has given up what it owned.                                      *)
THEOREM OwnerIsHead == Spec => []OwnedIsHead
<1>1. IInv => OwnedIsHead
  BY DEF IInv, Line
<1> QED BY <1>1, InductiveInvariant, PTL

(* The queue never stalls: with nobody inside, its head is in the hands of *)
(* the controller.                                                         *)
THEOREM NoStall == Spec => []HeadAtHC
<1>1. IInv => HeadAtHC
  BY DEF IInv, Line
<1> QED BY <1>1, InductiveInvariant, PTL

(* A request that was accepted is in the queue and has not been called     *)
(* back, or is complete and has been.                                      *)
THEOREM NothingLost == Spec => []NoLostRequest
<1>1. IInv => NoLostRequest
  <2> SUFFICES ASSUME IInv, NEW r \in Request, stage[r] = "submitted"
               PROVE  IF r \in ToSet(queue)
                        THEN callback[r] = "armed" \/ (call.req = r /\ call.pc = "callback")
                        ELSE IsComplete(r) /\ (callback[r] # "armed" \/ status[r] = "FASTPATH")
    BY DEF NoLostRequest
  <2> USE DEF IInv
  <2>1. CASE r \notin ToSet(queue)
    BY <2>1, QueueSet DEF Content, OffQueue
  <2>2. CASE r \in ToSet(queue)
    <3>1. PICK i \in Places : queue[i] = r
      BY <2>2, QueueSet
    <3>2. CASE call.pc = "none" \/ i # 1
      BY <2>2, <3>1, <3>2 DEF Content, Waiting, Untouched
    <3>3. CASE call.pc # "none" /\ i = 1
      <4>1. queue # <<>>
        BY <3>1, QueueSet DEF Places
      <4>2. call.req = r
        BY <3>1, <3>3, <4>1, CallIsFirst
      <4>3. call.pc \in Step \ {"none"}
        BY <3>3, CallRecord
      <4> QED BY <2>2, <4>1, <4>2, <4>3 DEF Content, HeadContent, Untouched, Step
    <3> QED BY <3>2, <3>3
  <2> QED BY <2>1, <2>2
<1> QED BY <1>1, InductiveInvariant, PTL

(* A client whose request was accepted hears of a success only when the    *)
(* controller reported one.                                                *)
THEOREM HonestWhenAccepted == Spec => []AcceptedHonest
<1>1. IInv => AcceptedHonest
  BY DEF IInv, Content
<1> QED BY <1>1, InductiveInvariant, PTL

(* A client whose request was accepted hears of a transient failure only   *)
(* after the last retry.                                                   *)
THEOREM RetriedWhenAccepted == Spec => []AcceptedRetried
<1>1. IInv => AcceptedRetried
  BY DEF IInv, Content
<1> QED BY <1>1, InductiveInvariant, PTL

(* A completion that finds its request at the head finds it untouched: it  *)
(* is never that of an earlier use of the same memory.                     *)
THEOREM RightRequest == Spec => []CompletionHitsOwner
<1>1. IInv => CompletionHitsOwner
  BY DEF IInv, Content, HeadContent, Untouched, IsComplete, CompletionHitsOwner
<1> QED BY <1>1, InductiveInvariant, PTL

-----------------------------------------------------------------------------
(***************************************************************************)
(* The request queue of a slot implements the service of                   *)
(* SDRequestService: its initial state is one of the service, and every    *)
(* step is a step of the service or changes nothing the service shows.     *)
(***************************************************************************)
(* The tail of a sequence without duplicates lacks its head and no more. *)
LEMMA TailSet ==
    ASSUME NEW S, NEW s \in Seq(S), s # <<>>,
           \A i, j \in 1 .. Len(s) : s[i] = s[j] => i = j
    PROVE  /\ Tail(s) \in Seq(S)
           /\ \A q : q \in ToSet(Tail(s)) <=> q \in ToSet(s) /\ q # Head(s)
<1> DEFINE t == Tail(s)
<1>1. /\ t \in Seq(S) /\ Len(s) \in Nat /\ Len(s) >= 1
      /\ Len(t) = Len(s) - 1 /\ Head(s) = s[1]
      /\ \A i \in 1 .. Len(t) : t[i] = s[i + 1]
  BY HeadTailProperties, HeadIsFirst
<1> HIDE DEF t
<1>2. DOMAIN t = 1 .. Len(s) - 1 /\ DOMAIN s = 1 .. Len(s)
  BY <1>1, LenProperties
<1>3. ASSUME NEW q PROVE q \in ToSet(t) <=> q \in ToSet(s) /\ q # Head(s)
  <2>1. q \in ToSet(t) <=> \E i \in 1 .. Len(s) - 1 : s[i + 1] = q
    BY <1>1, <1>2 DEF ToSet
  <2>2. q \in ToSet(s) <=> \E i \in 1 .. Len(s) : s[i] = q
    BY <1>2 DEF ToSet
  <2>3. ASSUME NEW i \in 1 .. Len(s) - 1, s[i + 1] = q
        PROVE  q \in ToSet(s) /\ q # Head(s)
    <3>1. i + 1 \in 1 .. Len(s) /\ 1 \in 1 .. Len(s) /\ i + 1 # 1
      BY <1>1
    <3> QED BY <1>1, <2>2, <2>3, <3>1
  <2>4. ASSUME NEW i \in 1 .. Len(s), s[i] = q, q # Head(s)
        PROVE  \E j \in 1 .. Len(s) - 1 : s[j + 1] = q
    <3>1. i - 1 \in 1 .. Len(s) - 1 /\ (i - 1) + 1 = i
      BY <1>1, <2>4
    <3> QED BY <2>4, <3>1
  <2> QED BY <2>1, <2>2, <2>3, <2>4
<1> QED BY <1>1, <1>3 DEF t

(***************************************************************************)
(* The steps of the service, in terms of the queue.                        *)
(***************************************************************************)
Quiet == Pending' = Pending /\ \A q \in Request : OutcomeOf(q)' = OutcomeOf(q)

LEMMA ServiceStutter ==
    ASSUME Quiet PROVE [Service!Next]_Service!vars
BY DEF Quiet, Service!vars

LEMMA ServiceAccept ==
    ASSUME NEW r \in Request, r \notin ToSet(Pending), OutcomeOf(r) = "none",
           Pending' = Append(Pending, r), \A q \in Request : OutcomeOf(q)' = OutcomeOf(q)
    PROVE  Service!Next
<1>1. Service!Accept(r)
  BY DEF Service!Accept, Service!IsNew, Service!ToSet, ToSet
<1> QED BY <1>1 DEF Service!Next

LEMMA ServiceRefuse ==
    ASSUME NEW r \in Request, r \notin ToSet(Pending), OutcomeOf(r) = "none",
           NEW o \in Failure, OutcomeOf(r)' = o, Pending' = Pending,
           \A q \in Request \ {r} : OutcomeOf(q)' = OutcomeOf(q)
    PROVE  Service!Next
<1>1. Service!Refuse(r)
  BY DEF Service!Refuse, Service!IsNew, Service!ToSet, ToSet
<1> QED BY <1>1 DEF Service!Next

LEMMA ServiceFinish ==
    ASSUME NEW r \in Request, Pending # <<>>, Head(Pending) = r, Pending' = Tail(Pending),
           NEW o \in Status \ {"PENDING"}, OutcomeOf(r)' = o,
           \A q \in Request \ {r} : OutcomeOf(q)' = OutcomeOf(q)
    PROVE  Service!Next
<1>1. Service!Finish
  BY DEF Service!Finish
<1> QED BY <1>1 DEF Service!Next

LEMMA ServiceForget ==
    ASSUME NEW r \in Request, OutcomeOf(r) # "none", OutcomeOf(r)' = "none",
           Pending' = Pending, \A q \in Request \ {r} : OutcomeOf(q)' = OutcomeOf(q)
    PROVE  Service!Next
<1>1. Service!Forget(r)
  BY DEF Service!Forget
<1> QED BY <1>1 DEF Service!Next

LEMMA ServiceWithdraw ==
    ASSUME NEW r \in Request, NEW i \in 2 .. Len(Pending), Pending[i] = r,
           Pending' = RemoveAt(Pending, i), OutcomeOf(r)' = "CANCELED",
           \A q \in Request \ {r} : OutcomeOf(q)' = OutcomeOf(q)
    PROVE  Service!Next
<1>1. Service!Withdraw(i)
  BY DEF Service!Withdraw, Service!RemoveAt, RemoveAt
<1> QED BY <1>1 DEF Service!Next

LEMMA ServiceFlush ==
    ASSUME NEW keep \in {0, 1}, keep < Len(Pending), Pending' = SubSeq(Pending, 1, keep),
           \A q \in Request : OutcomeOf(q)' =
              IF \E i \in keep + 1 .. Len(Pending) : Pending[i] = q THEN "CANCELED"
              ELSE OutcomeOf(q)
    PROVE  Service!Next
<1>1. Service!Flush(keep)
  BY DEF Service!Flush
<1> QED BY <1>1 DEF Service!Next
-----------------------------------------------------------------------------
(***************************************************************************)
(* What the service shows: the line without the request whose client is    *)
(* being called, and the outcomes.                                         *)
(***************************************************************************)

(* Pending lacks the request whose client is being called, and no other. *)
LEMMA PendingSet ==
    TypeOK /\ Line =>
        /\ Pending \in Seq(Request)
        /\ \A q : q \in ToSet(Pending) <=>
                    q \in ToSet(queue) /\ ~ (call.pc = "callback" /\ q = call.req)
<1> SUFFICES ASSUME TypeOK, Line
             PROVE  /\ Pending \in Seq(Request)
                    /\ \A q : q \in ToSet(Pending) <=>
                         q \in ToSet(queue) /\ ~ (call.pc = "callback" /\ q = call.req)
  OBVIOUS
<1>1. CASE call.pc # "callback"
  BY <1>1 DEF Pending, TypeOK
<1>2. CASE call.pc = "callback"
  <2>1. queue \in Seq(Request) /\ queue # <<>> /\ Head(queue) = call.req
    BY <1>2 DEF TypeOK, Line, CallAtHead
  <2>2. \A i, j \in 1 .. Len(queue) : queue[i] = queue[j] => i = j
    BY DEF Line, Distinct, Places
  <2>3. /\ Tail(queue) \in Seq(Request)
        /\ \A q : q \in ToSet(Tail(queue)) <=> q \in ToSet(queue) /\ q # Head(queue)
    BY <2>1, <2>2, TailSet
  <2>4. Pending = Tail(queue)
    BY <1>2 DEF Pending
  <2> QED BY <1>2, <2>1, <2>3, <2>4
<1> QED BY <1>1, <1>2

SameFields(q) == /\ stage'[q] = stage[q] /\ callback'[q] = callback[q]
                 /\ status'[q] = status[q]

(* A step that leaves the line alone may change what it likes of requests  *)
(* in the line, whose outcome is open.                                     *)
LEMMA QuietFrame ==
    ASSUME Pending' = Pending, \A q \in Request : q \notin ToSet(Pending) => SameFields(q)
    PROVE  Quiet
BY DEF Quiet, OutcomeOf, IsComplete, SameFields, ToSet

(* An outcome depends on the fields of its request and its membership. *)
LEMMA SameOutcome ==
    ASSUME NEW q \in Request, SameFields(q), q \in ToSet(Pending') <=> q \in ToSet(Pending)
    PROVE  OutcomeOf(q)' = OutcomeOf(q)
<1>1. (q \in ToSet(Pending))' <=> q \in ToSet(Pending)
  BY DEF ToSet
<1> QED BY <1>1 DEF OutcomeOf, IsComplete, SameFields

(***************************************************************************)
(* One conjunct more than IInv has: a refused request that was answered    *)
(* without a callback holds the status that its caller is about to report. *)
(***************************************************************************)
RefusedSame ==
    \A r \in Request :
        stage[r] = "refused" /\ r \notin ToSet(queue) /\ callback[r] = "armed" =>
            status[r] \in {"PENDING", ret[r]}

(* After a step Pending is as PendingSet says, too. *)
LEMMA PendingSetNext ==
    ASSUME TypeOK', Line'
    PROVE  \A q : q \in ToSet(Pending') <=>
                    q \in ToSet(queue') /\ ~ (call'.pc = "callback" /\ q = call'.req)
<1>1. (TypeOK /\ Line =>
         /\ Pending \in Seq(Request)
         /\ \A q : q \in ToSet(Pending) <=>
                     q \in ToSet(queue) /\ ~ (call.pc = "callback" /\ q = call.req))'
  BY PendingSet, PTL
<1> QED BY <1>1 DEF ToSet

-----------------------------------------------------------------------------
(***************************************************************************)
(* The steps that the service does not see.                                *)
(***************************************************************************)
LEMMA NewRequestQuiet ==
    ASSUME IInv, NEW r \in Request, NEW k \in Kinds, NewRequest(r, k)
    PROVE  Quiet
<1> USE DEF IInv
<1>1. Pending' = Pending /\ stage[r] = "free" /\ r \notin ToSet(queue)
  BY QueueSet DEF NewRequest, Pending, Line, QueuedStage
<1>2. r \notin ToSet(Pending)
  BY <1>1, PendingSet
<1>3. stage'[r] # "free" /\ callback'[r] = "armed" /\ status'[r] = "PENDING"
  BY DEF NewRequest, TypeOK
<1>4. OutcomeOf(r) = "none" /\ OutcomeOf(r)' = "none"
  BY <1>1, <1>2, <1>3 DEF OutcomeOf, IsComplete, ToSet
<1>5. \A q \in Request \ {r} : SameFields(q)
  BY DEF NewRequest, TypeOK, SameFields
<1>6. \A q \in Request \ {r} : OutcomeOf(q)' = OutcomeOf(q)
  BY <1>1, <1>5, SameOutcome
<1> QED BY <1>1, <1>4, <1>6 DEF Quiet

LEMMA HeadPending ==
    ASSUME IInv, call.pc \in {"first", "submit", "complete"} \/ (call.pc = "enter" /\ queue # <<>>)
    PROVE  Pending = queue /\ call.req \in ToSet(Pending)
<1>1. \E i \in Places : queue[i] = call.req
  BY CallIsFirst DEF IInv
<1> QED BY <1>1, QueueSet DEF IInv, Pending

LEMMA CompletionQuiet ==
    ASSUME IInv, EnterComplete \/ RetryRequest \/ PopHead \/ \E st \in Status : SubmitNext(st)
    PROVE  Quiet
<1> USE DEF IInv
<1>1. CASE EnterComplete
  <2>1. Pending' = Pending
    <3>1. call.pc = "enter" /\ queue' = queue
      BY <1>1 DEF EnterComplete
    <3>2. CASE queue # <<>> /\ Head(queue) = call.req
      <4>1. call' = [call EXCEPT !.pc = "complete"]
        BY <1>1, <3>2 DEF EnterComplete
      <4>2. call'.pc = "complete"
        BY <3>1, <4>1, CallRecord DEF Step
      <4> QED BY <3>1, <4>2 DEF Pending
    <3>3. CASE ~ (queue # <<>> /\ Head(queue) = call.req)
      BY <1>1, <3>1, <3>3 DEF EnterComplete, NoCall, Pending
    <3> QED BY <3>2, <3>3
  <2>2. ASSUME NEW q \in Request, q \notin ToSet(Pending) PROVE SameFields(q)
    <3>1. queue # <<>> => q # call.req
      BY <1>1, <2>2, HeadPending DEF EnterComplete
    <3> QED BY <1>1, <3>1 DEF EnterComplete, clientVars, SameFields, TypeOK
  <2> QED BY <2>1, <2>2, QuietFrame
<1>2. CASE RetryRequest
  <2>1. Pending' = Pending /\ call.req \in ToSet(Pending)
    BY <1>2, HeadPending DEF RetryRequest, Pending
  <2>2. \A q \in Request : q \notin ToSet(Pending) => SameFields(q)
    BY <1>2, <2>1 DEF RetryRequest, clientVars, SameFields, TypeOK
  <2> QED BY <2>1, <2>2, QuietFrame
<1>3. CASE PopHead
  <2>1. call'.pc # "callback"
    BY <1>3 DEF PopHead, NoCall
  <2>2. Pending' = Pending
    BY <1>3, <2>1 DEF PopHead, Pending
  <2>3. \A q \in Request : SameFields(q)
    BY <1>3 DEF PopHead, clientVars, reqVars, SameFields
  <2> QED BY <2>2, <2>3, QuietFrame
<1>4. CASE \E st \in Status : SubmitNext(st)
  <2>1. Pending' = Pending
    BY <1>4 DEF SubmitNext, NoCall, Pending
  <2>2. \A q \in Request : SameFields(q)
    BY <1>4 DEF SubmitNext, clientVars, SameFields
  <2> QED BY <2>1, <2>2, QuietFrame
<1> QED BY <1>1, <1>2, <1>3, <1>4

LEMMA OthersQuiet ==
    ASSUME \/ \E st \in IndicatedStatus : CompleteRequestFromHC(st)
           \/ GetAndLockCurrentRequest \/ UnlockRequest
           \/ \E r \in Request : CancelCheck(r)
           \/ HostDetach \/ StartDetach \/ Attach \/ SlotStateChange
           \/ UNCHANGED vars
    PROVE  Quiet
<1>1. CASE \E st \in IndicatedStatus : CompleteRequestFromHC(st)
  BY <1>1, QuietFrame
  DEF CompleteRequestFromHC, LockFree, Pending, reqVars, clientVars, SameFields
<1>2. CASE \/ GetAndLockCurrentRequest \/ UnlockRequest
           \/ \E r \in Request : CancelCheck(r)
           \/ HostDetach \/ StartDetach \/ Attach \/ SlotStateChange
           \/ UNCHANGED vars
  <2>1. UNCHANGED <<queue, call, reqVars, stage>>
    BY <1>2
    DEF GetAndLockCurrentRequest, UnlockRequest, CancelCheck, HostDetach, StartDetach, Attach,
        SlotStateChange, vars, slotVars, hcVars, reqVars, clientVars
  <2> QED BY <2>1, QuietFrame DEF Pending, reqVars, SameFields
<1> QED BY <1>1, <1>2

-----------------------------------------------------------------------------
(***************************************************************************)
(* The steps of the clients' threads.                                      *)
(***************************************************************************)
LEMMA AppendSet ==
    ASSUME NEW S, NEW s \in Seq(S), NEW r \in S
    PROVE  \A q : q \in ToSet(Append(s, r)) <=> q \in ToSet(s) \/ q = r
<1>1. Len(s) \in Nat
  BY LenProperties
<1>2. /\ Len(Append(s, r)) = Len(s) + 1
      /\ \A i \in 1 .. Len(s) : Append(s, r)[i] = s[i]
      /\ Append(s, r)[Len(s) + 1] = r
      /\ Append(s, r) \in Seq(S)
  BY AppendProperties
<1>3. DOMAIN Append(s, r) = 1 .. Len(s) + 1 /\ DOMAIN s = 1 .. Len(s)
  BY <1>1, <1>2, LenProperties
<1> SUFFICES ASSUME NEW q PROVE q \in ToSet(Append(s, r)) <=> q \in ToSet(s) \/ q = r
  OBVIOUS
<1>4. q \in ToSet(Append(s, r)) <=> \E i \in 1 .. Len(s) + 1 : Append(s, r)[i] = q
  BY <1>3 DEF ToSet
<1>5. q \in ToSet(s) <=> \E i \in 1 .. Len(s) : s[i] = q
  BY <1>3 DEF ToSet
<1>6. \A i \in 1 .. Len(s) + 1 : i \in 1 .. Len(s) \/ i = Len(s) + 1
  BY <1>1
<1>7. Len(s) + 1 \in 1 .. Len(s) + 1
  BY <1>1
<1> QED BY <1>1, <1>2, <1>4, <1>5, <1>6, <1>7

LEMMA QueueBusRequestAccepts ==
    ASSUME IInv, IInv', NEW r \in Request, QueueBusRequest(r)
    PROVE  Service!Next
<1> USE DEF IInv
<1>1. stage[r] = "checked" /\ r \notin ToSet(queue) /\ Untouched(r)
  BY QueueSet DEF QueueBusRequest, Line, QueuedStage, Content, OffQueue
<1>2. r \notin ToSet(Pending) /\ OutcomeOf(r) = "none"
  BY <1>1, PendingSet DEF OutcomeOf, Untouched, IsComplete
<1>3. Pending' = Append(Pending, r)
  <2>1. CASE call.pc = "callback"
    <3>1. queue # <<>> /\ queue \in Seq(Request)
      BY <2>1 DEF Line, CallAtHead, TypeOK
    <3>2. call' = call /\ queue' = Append(queue, r)
      BY <3>1 DEF QueueBusRequest
    <3>3. Tail(Append(queue, r)) = Append(Tail(queue), r)
      BY <3>1
    <3> QED BY <2>1, <3>2, <3>3 DEF Pending
  <2>2. CASE call.pc = "none"
    BY <2>2 DEF QueueBusRequest, Pending
  <2> QED BY <2>1, <2>2 DEF QueueBusRequest, CanLock
<1>4. \A q : q \in ToSet(Pending') <=> q \in ToSet(Pending) \/ q = r
  BY <1>3, PendingSet, AppendSet
<1>5. OutcomeOf(r)' = "none"
  <2>1. (r \in ToSet(Pending))'
    BY <1>4 DEF ToSet
  <2> QED BY <2>1 DEF OutcomeOf
<1>6. ASSUME NEW q \in Request \ {r} PROVE OutcomeOf(q)' = OutcomeOf(q)
  <2>1. SameFields(q)
    BY DEF QueueBusRequest, SameFields, TypeOK
  <2> QED BY <1>4, <2>1, SameOutcome
<1>7. \A q \in Request : OutcomeOf(q)' = OutcomeOf(q)
  BY <1>2, <1>5, <1>6
<1> QED BY <1>2, <1>3, <1>7, ServiceAccept

LEMMA CompleteRefusedStep ==
    ASSUME IInv, RefusedSame, NEW r \in Request, CompleteRefused(r)
    PROVE  Service!Next \/ Quiet
<1> USE DEF IInv
<1>1. /\ stage[r] = "refused" /\ r \notin ToSet(queue) /\ ret[r] \in Failure
      /\ Pending' = Pending
  BY DEF CompleteRefused, Content, OffQueue, Pending
<1>2. r \notin ToSet(Pending)
  BY <1>1, PendingSet
<1>3. /\ status'[r] = ret[r] /\ stage'[r] = "submitted"
      /\ callback'[r] = IF callback[r] = "armed" THEN ret[r] ELSE callback[r]
  BY DEF CompleteRefused, CompleteBusRequest, TypeOK
<1>4. \A q \in Request \ {r} : OutcomeOf(q)' = OutcomeOf(q)
  <2>1. \A q \in Request \ {r} : SameFields(q)
    BY DEF CompleteRefused, CompleteBusRequest, TypeOK, SameFields
  <2> QED BY <1>1, <2>1, SameOutcome
<1>5. OutcomeOf(r)' = IF callback[r] = "armed" THEN ret[r] ELSE callback[r]
  <2>1. ~ (r \in ToSet(Pending))'
    BY <1>1, <1>2 DEF ToSet
  <2> QED BY <1>1, <1>3, <2>1 DEF OutcomeOf, IsComplete, Failure
<1>6. CASE callback[r] = "armed" /\ status[r] = "PENDING"
  <2>1. OutcomeOf(r) = "none"
    BY <1>6 DEF OutcomeOf, IsComplete
  <2> QED BY <1>1, <1>2, <1>4, <1>5, <1>6, <2>1, ServiceRefuse
<1>7. CASE callback[r] = "armed" /\ status[r] # "PENDING"
  <2>1. OutcomeOf(r) = ret[r]
    BY <1>1, <1>2, <1>7 DEF OutcomeOf, IsComplete, RefusedSame
  <2> QED BY <1>1, <1>4, <1>5, <1>7, <2>1 DEF Quiet
<1>8. CASE callback[r] # "armed"
  <2>1. OutcomeOf(r) = callback[r]
    BY <1>1, <1>2, <1>8 DEF OutcomeOf
  <2> QED BY <1>1, <1>4, <1>5, <1>8, <2>1 DEF Quiet
<1> QED BY <1>6, <1>7, <1>8

LEMMA ReleaseForgets ==
    ASSUME IInv, NEW r \in Request, Release(r)
    PROVE  Service!Next
<1> USE DEF IInv
<1>1. /\ stage[r] = "submitted" /\ r \notin ToSet(queue) /\ Pending' = Pending
      /\ stage'[r] = "free"
  BY DEF Release, TypeOK, Pending
<1>2. r \notin ToSet(Pending)
  BY <1>1, PendingSet
<1>3. \A q \in Request \ {r} : OutcomeOf(q)' = OutcomeOf(q)
  <2>1. \A q \in Request \ {r} : SameFields(q)
    BY DEF Release, TypeOK, SameFields
  <2> QED BY <1>1, <2>1, SameOutcome
<1>4. OutcomeOf(r)' = "none"
  BY <1>1 DEF OutcomeOf
<1>5. OutcomeOf(r) # "none"
  <2>1. IsComplete(r) /\ status[r] \in Status /\ callback[r] \in Status \cup {"armed"}
    BY <1>1, QueueSet DEF Content, OffQueue, TypeOK
  <2> QED BY <1>1, <1>2, <2>1 DEF OutcomeOf, IsComplete, Status, Failure
<1> QED BY <1>1, <1>3, <1>4, <1>5, ServiceForget

-----------------------------------------------------------------------------
(***************************************************************************)
(* The head comes to its end.                                              *)
(***************************************************************************)

(* The first of the line, unless its client is being called already. *)
LEMMA HeadInLine ==
    ASSUME IInv, queue # <<>>, call.pc # "callback"
    PROVE  /\ Pending = queue /\ Head(Pending) = Head(queue) /\ Head(queue) \in Request
           /\ stage[Head(queue)] # "free"
           /\ Tail(queue) \in Seq(Request)
           /\ \A q : q \in ToSet(Tail(queue)) <=> q \in ToSet(queue) /\ q # Head(queue)
<1> USE DEF IInv
<1>1. /\ Pending = queue /\ queue \in Seq(Request)
      /\ \A i, j \in 1 .. Len(queue) : queue[i] = queue[j] => i = j
  BY DEF Pending, TypeOK, Line, Distinct, Places
<1>2. 1 \in Places /\ Head(queue) = queue[1]
  BY <1>1, HeadIsFirst DEF Places
<1>3. Head(queue) \in Request /\ stage[Head(queue)] # "free"
  BY <1>2, QueueSet DEF Line, QueuedStage
<1> QED BY <1>1, <1>3, TailSet

LEMMA CallClientFinishes ==
    ASSUME IInv, IInv', CallClient
    PROVE  Service!Next
<1> USE DEF IInv
<1>0. PICK r \in Request : r = call.req
  BY CallRecord DEF CallClient
<1>1. /\ call.pc = "complete" /\ call.st \in Status \ {"PENDING"} /\ queue # <<>>
      /\ Head(queue) = r /\ callback[r] = "armed" /\ UNCHANGED <<queue, stage>>
  BY <1>0, CallRecord DEF CallClient, clientVars, Content, HeadContent, Line, CallAtHead
<1>2. call'.pc = "callback" /\ call'.req = r
  BY <1>0, <1>1, CallRecord DEF CallClient, Step
<1>3. /\ Pending = queue /\ Pending' = Tail(Pending) /\ r \in Request /\ stage[r] # "free"
      /\ \A q : q \in ToSet(Pending') <=> q \in ToSet(Pending) /\ q # r
  BY <1>1, <1>2, HeadInLine DEF Pending
<1>4. callback'[r] = call.st /\ \A q \in Request \ {r} : SameFields(q)
  BY <1>0, <1>1, <1>3 DEF CallClient, CompleteBusRequest, SameFields, TypeOK
<1>5. OutcomeOf(r)' = call.st
  <2>1. ~ (r \in ToSet(Pending))'
    BY <1>3 DEF ToSet
  <2> QED BY <1>1, <1>3, <1>4, <2>1 DEF OutcomeOf, Status, Failure
<1>6. \A q \in Request \ {r} : OutcomeOf(q)' = OutcomeOf(q)
  BY <1>3, <1>4, SameOutcome
<1> QED BY <1>1, <1>3, <1>5, <1>6, ServiceFinish

LEMMA SubmitFirstStep ==
    ASSUME IInv, NEW st \in Status, SubmitFirst(st)
    PROVE  Service!Next \/ Quiet
<1> USE DEF IInv
<1>0. PICK r \in Request : r = call.req
  BY CallRecord DEF SubmitFirst
<1>1. /\ call.pc = "first" /\ queue # <<>> /\ Head(queue) = r /\ Len(queue) = 1
      /\ Untouched(r) /\ stage[r] = "submitted" /\ r \in Request /\ callback' = callback
      /\ Pending = queue /\ r \in ToSet(Pending)
  BY <1>0, HeadPending DEF SubmitFirst, Content, HeadContent, Line, CallAtHead
<1>2. st \in {"PENDING", "FASTPATH"} \cup Failure
  BY <1>0, SubmitEffect DEF SubmitFirst
<1>3. CASE st # "PENDING" /\ kind[r] = "fast"
  <2>1. /\ Pending' = Tail(Pending)
        /\ stage'[r] # "free" /\ status'[r] = st /\ callback'[r] = "armed"
    BY <1>0, <1>1, <1>3 DEF SubmitFirst, NoCall, Pending, TypeOK, Untouched
  <2>2. \A q \in Request \ {r} : SameFields(q)
    BY <1>0, <1>1, <1>3 DEF SubmitFirst, SameFields, TypeOK
  <2>3. \A q : q \in ToSet(Pending') <=> q \in ToSet(Pending) /\ q # r
    BY <1>1, <2>1, HeadInLine
  <2>4. OutcomeOf(r)' = st
    <3>1. ~ (r \in ToSet(Pending))'
      BY <2>3 DEF ToSet
    <3> QED BY <1>3, <2>1, <3>1 DEF OutcomeOf, IsComplete
  <2>5. \A q \in Request \ {r} : OutcomeOf(q)' = OutcomeOf(q)
    BY <2>2, <2>3, SameOutcome
  <2> QED BY <1>1, <1>3, <2>1, <2>4, <2>5, ServiceFinish
<1>4. CASE st = "PENDING" \/ kind[r] # "fast"
  <2>1. queue' = queue /\ call'.pc # "callback"
    BY <1>0, <1>1, <1>4 DEF SubmitFirst, NoCall
  <2>2. \A q \in Request : q # r => SameFields(q)
    BY <1>0, <1>1, <1>4 DEF SubmitFirst, SameFields, TypeOK
  <2>3. Pending' = Pending
    BY <1>1, <2>1 DEF Pending
  <2> QED BY <1>1, <2>2, <2>3, QuietFrame
<1> QED BY <1>3, <1>4

-----------------------------------------------------------------------------
(***************************************************************************)
(* Requests are removed.                                                   *)
(***************************************************************************)

(* RemoveAt takes its element out, and Tail and RemoveAt commute. *)
LEMMA RemoveAtSet ==
    ASSUME NEW S, NEW s \in Seq(S), NEW i \in 1 .. Len(s),
           \A j, k \in 1 .. Len(s) : s[j] = s[k] => j = k
    PROVE  \A q : q \in ToSet(RemoveAt(s, i)) <=> q \in ToSet(s) /\ q # s[i]
<1> DEFINE t == RemoveAt(s, i)
<1>1. /\ t \in Seq(S) /\ Len(t) = Len(s) - 1 /\ Len(s) \in Nat
      /\ \A j \in 1 .. Len(s) - 1 : t[j] = IF j < i THEN s[j] ELSE s[j + 1]
  BY RemoveAtProperties, LenProperties
<1> HIDE DEF t
<1>2. DOMAIN t = 1 .. Len(s) - 1 /\ DOMAIN s = 1 .. Len(s)
  BY <1>1, LenProperties
<1> SUFFICES ASSUME NEW q PROVE q \in ToSet(t) <=> q \in ToSet(s) /\ q # s[i]
  BY DEF t
<1>3. ASSUME NEW j \in 1 .. Len(s) - 1, t[j] = q PROVE q \in ToSet(s) /\ q # s[i]
  <2>1. CASE j < i
    BY <1>1, <1>2, <1>3, <2>1 DEF ToSet
  <2>2. CASE ~ (j < i)
    <3>1. j + 1 \in 1 .. Len(s) /\ j + 1 # i
      BY <1>1, <2>2
    <3> QED BY <1>1, <1>2, <1>3, <2>2, <3>1 DEF ToSet
  <2> QED BY <2>1, <2>2
<1>4. ASSUME NEW j \in 1 .. Len(s), s[j] = q, q # s[i] PROVE \E k \in 1 .. Len(s) - 1 : t[k] = q
  <2>1. CASE j < i
    <3>1. j \in 1 .. Len(s) - 1
      BY <1>1, <2>1
    <3> QED BY <1>1, <1>4, <2>1, <3>1
  <2>2. CASE ~ (j < i)
    <3>1. j - 1 \in 1 .. Len(s) - 1 /\ ~ (j - 1 < i) /\ (j - 1) + 1 = j
      BY <1>1, <1>4, <2>2
    <3> QED BY <1>1, <1>4, <3>1
  <2> QED BY <2>1, <2>2
<1> QED BY <1>2, <1>3, <1>4 DEF ToSet

LEMMA TailPlaces ==
    ASSUME NEW S, NEW s \in Seq(S), NEW n \in Nat, Len(s) = n + 1
    PROVE  /\ Tail(s) \in Seq(S) /\ Len(Tail(s)) = n
           /\ \A j \in 1 .. n : Tail(s)[j] = s[j + 1]
<1>1. s # <<>>
  BY EmptySeq
<1>2. /\ Tail(s) \in Seq(S) /\ Len(Tail(s)) = Len(s) - 1
      /\ \A j \in 1 .. Len(Tail(s)) : Tail(s)[j] = s[j + 1]
  BY <1>1, HeadTailProperties
<1>3. Len(Tail(s)) = n
  BY <1>2
<1> QED BY <1>2, <1>3

LEMMA TailOfRemoveAt ==
    ASSUME NEW S, NEW s \in Seq(S), NEW i \in 2 .. Len(s)
    PROVE  Tail(RemoveAt(s, i)) = IF i = 2 THEN Tail(Tail(s)) ELSE RemoveAt(Tail(s), i - 1)
<1>1. /\ Len(s) \in Nat /\ i \in 1 .. Len(s) /\ s # <<>>
      /\ Tail(s) \in Seq(S) /\ Len(Tail(s)) = Len(s) - 1
      /\ \A j \in 1 .. Len(s) - 1 : Tail(s)[j] = s[j + 1]
  BY LenProperties, EmptySeq, HeadTailProperties
<1>2. /\ RemoveAt(s, i) \in Seq(S) /\ Len(RemoveAt(s, i)) = Len(s) - 1
      /\ \A j \in 1 .. Len(s) - 1 : RemoveAt(s, i)[j] = IF j < i THEN s[j] ELSE s[j + 1]
  BY <1>1, RemoveAtProperties
<1> DEFINE l == Tail(RemoveAt(s, i))
<1>3. /\ l \in Seq(S) /\ Len(l) = Len(s) - 2
      /\ \A j \in 1 .. Len(s) - 2 : l[j] = IF j + 1 < i THEN s[j + 1] ELSE s[j + 2]
  <2>1. Len(s) - 2 \in Nat /\ Len(RemoveAt(s, i)) = (Len(s) - 2) + 1
    BY <1>1, <1>2
  <2>2. /\ l \in Seq(S) /\ Len(l) = Len(s) - 2
        /\ \A j \in 1 .. Len(s) - 2 : l[j] = RemoveAt(s, i)[j + 1]
    BY <1>2, <2>1, TailPlaces
  <2> HIDE DEF l
  <2>3. ASSUME NEW j \in 1 .. Len(s) - 2 PROVE l[j] = IF j + 1 < i THEN s[j + 1] ELSE s[j + 2]
    <3>1. j + 1 \in 1 .. Len(s) - 1 /\ (j + 1) + 1 = j + 2
      BY <1>1
    <3> QED BY <1>2, <2>2, <3>1
  <2> QED BY <2>2, <2>3
<1>4. CASE i = 2
  <2> DEFINE t == Tail(Tail(s))
  <2>1. Len(s) - 2 \in Nat /\ Len(Tail(s)) = (Len(s) - 2) + 1
    BY <1>1, <1>4
  <2>2. /\ t \in Seq(S) /\ Len(t) = Len(s) - 2
        /\ \A j \in 1 .. Len(s) - 2 : t[j] = Tail(s)[j + 1]
    BY <1>1, <2>1, TailPlaces
  <2> HIDE DEF l, t
  <2>3. ASSUME NEW j \in 1 .. Len(s) - 2 PROVE l[j] = t[j]
    <3>1. j + 1 \in 1 .. Len(s) - 1 /\ (j + 1) + 1 = j + 2 /\ ~ (j + 1 < i)
      BY <1>1, <1>4
    <3> QED BY <1>1, <1>3, <2>2, <3>1
  <2>4. l = t
    BY <1>3, <2>2, <2>3, SeqEqual
  <2> QED BY <1>4, <2>4 DEF l, t
<1>5. CASE i # 2
  <2> DEFINE t == RemoveAt(Tail(s), i - 1)
  <2>1. i - 1 \in 1 .. Len(Tail(s))
    BY <1>1, <1>5
  <2>2. /\ t \in Seq(S) /\ Len(t) = Len(Tail(s)) - 1
        /\ \A j \in 1 .. Len(Tail(s)) - 1 :
             t[j] = IF j < i - 1 THEN Tail(s)[j] ELSE Tail(s)[j + 1]
    BY <1>1, <2>1, RemoveAtProperties
  <2> HIDE DEF l, t
  <2>3. ASSUME NEW j \in 1 .. Len(s) - 2 PROVE l[j] = t[j]
    <3>1. /\ j \in 1 .. Len(s) - 1 /\ j + 1 \in 1 .. Len(s) - 1 /\ (j + 1) + 1 = j + 2
          /\ (j + 1 < i <=> j < i - 1) /\ j \in 1 .. Len(Tail(s)) - 1
      BY <1>1
    <3> QED BY <1>1, <1>3, <2>2, <3>1
  <2>4. Len(t) = Len(s) - 2
    BY <1>1, <2>2
  <2>5. l = t
    BY <1>3, <2>2, <2>3, <2>4, SeqEqual
  <2> QED BY <1>5, <2>5 DEF l, t
<1> QED BY <1>4, <1>5

LEMMA RemoveRequestStep ==
    ASSUME IInv, IInv', NEW r \in Request, RemoveRequest(r)
    PROVE  Service!Next \/ Quiet
<1> USE DEF IInv
<1>1. stage' = stage
  BY DEF RemoveRequest
<1>2. CASE queue # <<>> /\ Head(queue) = r
  <2>1. call.pc = "none" /\ UNCHANGED <<queue, status, callback>>
    BY <1>2 DEF RemoveRequest, LockFree, CanLock, Line, CallAtHead
  <2>2. call'.pc # "callback"
    BY <1>2, <2>1 DEF RemoveRequest, CancelRequestFromHC
  <2>3. Pending' = Pending
    BY <2>1, <2>2 DEF Pending
  <2> QED BY <1>1, <2>1, <2>3, QuietFrame DEF SameFields
<1>3. CASE UNCHANGED <<queue, status, callback>> /\ ~ (queue # <<>> /\ Head(queue) = r)
  <2>1. call' = call
    BY <1>3 DEF RemoveRequest
  <2> QED BY <1>1, <1>3, <2>1, QuietFrame DEF Pending, SameFields
<1>4. CASE \E i \in 2 .. Len(queue) : /\ queue[i] = r
                                      /\ queue' = RemoveAt(queue, i)
                                      /\ CompleteBusRequest({r}, "CANCELED")
                                      /\ call' = call
  <2>1. PICK i \in 2 .. Len(queue) : /\ queue[i] = r
                                     /\ queue' = RemoveAt(queue, i)
                                     /\ CompleteBusRequest({r}, "CANCELED")
                                     /\ call' = call
    BY <1>4
  <2>2. /\ queue \in Seq(Request) /\ Len(queue) \in Nat /\ i \in Places /\ i # 1
        /\ \A j, k \in 1 .. Len(queue) : queue[j] = queue[k] => j = k
    <3>1. queue \in Seq(Request) /\ Len(queue) \in Nat
      BY QueueSet DEF TypeOK
    <3>2. i \in Places /\ i # 1
      BY <3>1 DEF Places
    <3>3. \A j, k \in 1 .. Len(queue) : queue[j] = queue[k] => j = k
      BY DEF Line, Distinct, Places
    <3> QED BY <3>1, <3>2, <3>3
  <2>3. \A q : q \in ToSet(queue') <=> q \in ToSet(queue) /\ q # r
    BY <2>1, <2>2, RemoveAtSet
  <2>4. \A q : q \in ToSet(Pending') <=> q \in ToSet(Pending) /\ q # r
    BY <2>1, <2>3, PendingSet, PendingSetNext
  <2>5. stage[r] # "free" /\ callback[r] = "armed"
    BY <2>1, <2>2 DEF Line, QueuedStage, Content, Waiting, Untouched
  <2>6. OutcomeOf(r)' = "CANCELED"
    <3>1. ~ (r \in ToSet(Pending))'
      BY <2>4 DEF ToSet
    <3>2. callback'[r] = "CANCELED" /\ stage'[r] # "free"
      BY <1>1, <2>1, <2>5 DEF CompleteBusRequest
    <3> QED BY <3>1, <3>2 DEF OutcomeOf
  <2>7. \A q \in Request \ {r} : OutcomeOf(q)' = OutcomeOf(q)
    <3>1. \A q \in Request \ {r} : SameFields(q)
      BY <1>1, <2>1 DEF CompleteBusRequest, SameFields
    <3> QED BY <2>4, <3>1, SameOutcome
  <2>8. CASE call.pc # "callback"
    <3>1. Pending = queue /\ Pending' = RemoveAt(Pending, i)
      BY <2>1, <2>8 DEF Pending
    <3> QED BY <2>1, <2>6, <2>7, <3>1, ServiceWithdraw
  <2>9. CASE call.pc = "callback"
    <3>1. Pending = Tail(queue) /\ Pending' = Tail(RemoveAt(queue, i))
      BY <2>1, <2>9 DEF Pending
    <3>2. Pending' = IF i = 2 THEN Tail(Pending) ELSE RemoveAt(Pending, i - 1)
      BY <2>2, <3>1, TailOfRemoveAt
    <3>3. Len(queue) - 1 \in Nat /\ Len(queue) = (Len(queue) - 1) + 1
      BY <2>2
    <3>4. /\ Pending \in Seq(Request) /\ Len(Pending) = Len(queue) - 1
          /\ \A j \in 1 .. Len(queue) - 1 : Pending[j] = queue[j + 1]
      BY <2>2, <3>1, <3>3, TailPlaces
    <3>5. Pending[i - 1] = r /\ i - 1 \in 1 .. Len(Pending)
      <4>1. i - 1 \in 1 .. Len(queue) - 1 /\ (i - 1) + 1 = i
        BY <2>2
      <4> QED BY <2>1, <3>4, <4>1
    <3>6. CASE i = 2
      <4>1. Pending # <<>> /\ Head(Pending) = r /\ Pending' = Tail(Pending)
        BY <3>2, <3>4, <3>5, <3>6, EmptySeq, HeadIsFirst
      <4>2. "CANCELED" \in Status \ {"PENDING"}
        BY DEF Status, Failure
      <4> QED BY <2>6, <2>7, <4>1, <4>2, ServiceFinish
    <3>7. CASE i # 2
      <4>1. i - 1 \in 2 .. Len(Pending)
        BY <3>4, <3>5, <3>7
      <4> QED BY <2>6, <2>7, <3>2, <3>5, <3>7, <4>1, ServiceWithdraw
    <3> QED BY <3>6, <3>7
  <2> QED BY <2>8, <2>9
<1> QED BY <1>2, <1>3, <1>4 DEF RemoveRequest, hcVars

LEMMA RemoveAllStep ==
    ASSUME IInv, IInv', RemoveAllRequest
    PROVE  Service!Next \/ Quiet
<1> USE DEF IInv
<1>1. call.pc = "none" /\ stage' = stage /\ Pending = queue
  BY DEF RemoveAllRequest, LockFree, clientVars, Pending
<1>2. CASE queue = <<>>
  BY <1>1, <1>2, QuietFrame DEF RemoveAllRequest, Pending, SameFields
<1>3. CASE queue # <<>>
  <2>0. PICK h \in Request : h = Head(queue)
    BY <1>1, <1>3, HeadInLine
  <2>1. /\ queue' = <<h>> /\ CompleteBusRequest(ToSet(Tail(queue)), "CANCELED")
        /\ CancelRequestFromHC(h)
    BY <1>3, <2>0 DEF RemoveAllRequest
  <2>2. Pending' = <<h>>
    BY <1>1, <2>1 DEF CancelRequestFromHC, Pending
  <2>3. \A q : q \in ToSet(Tail(queue)) <=> q \in ToSet(queue) /\ q # h
    BY <1>1, <1>3, <2>0, HeadInLine
  <2>4. \A q : q \in ToSet(Pending') <=> q = h
    BY <2>2 DEF ToSet
  <2>5. /\ queue \in Seq(Request) /\ Len(queue) \in Nat /\ Len(queue) >= 1 /\ queue[1] = h
        /\ h \in ToSet(queue)
    <3>1. queue \in Seq(Request)
      BY DEF TypeOK
    <3>2. Len(queue) \in Nat /\ Len(queue) >= 1 /\ queue[1] = h
      BY <1>3, <2>0, <3>1, HeadIsFirst
    <3>3. 1 \in Places
      BY <3>2 DEF Places
    <3> QED BY <3>1, <3>2, <3>3, QueueSet
  <2>6. ASSUME NEW q \in Request, q \notin ToSet(Tail(queue))
        PROVE  OutcomeOf(q)' = OutcomeOf(q)
    <3>1. SameFields(q)
      BY <1>1, <2>1, <2>6 DEF CompleteBusRequest, SameFields
    <3>2. q \in ToSet(Pending') <=> q \in ToSet(Pending)
      BY <1>1, <2>3, <2>4, <2>5, <2>6
    <3> QED BY <3>1, <3>2, SameOutcome
  <2>7. ASSUME NEW q \in Request, q \in ToSet(Tail(queue))
        PROVE  OutcomeOf(q)' = "CANCELED"
    <3>1. PICK i \in Places : queue[i] = q
      BY <2>3, <2>7, QueueSet
    <3>2. stage[q] # "free" /\ callback[q] = "armed"
      BY <1>1, <3>1 DEF Line, QueuedStage, Content, Waiting, Untouched
    <3>3. callback'[q] = "CANCELED" /\ stage'[q] # "free"
      BY <1>1, <2>1, <2>7, <3>2 DEF CompleteBusRequest
    <3>4. ~ (q \in ToSet(Pending))'
      BY <2>3, <2>4, <2>7 DEF ToSet
    <3> QED BY <3>3, <3>4 DEF OutcomeOf
  <2>8. \A q : q \in ToSet(Tail(queue)) <=> \E i \in 2 .. Len(queue) : queue[i] = q
    <3>1. \A i \in Places : i = 1 \/ i \in 2 .. Len(queue)
      BY <2>5 DEF Places
    <3>2. \A i \in 2 .. Len(queue) : i \in Places /\ i # 1
      BY <2>5 DEF Places
    <3>3. \A i \in 2 .. Len(queue) : queue[i] # h
      <4>1. 1 \in Places
        BY <2>5 DEF Places
      <4> QED BY <2>5, <3>2, <4>1 DEF Line, Distinct
    <3> QED BY <2>3, <2>5, <3>1, <3>2, <3>3, QueueSet
  <2>9. CASE Len(queue) = 1
    <3>1. Pending' = Pending
      <4>1. <<h>> \in Seq(Request) /\ Len(<<h>>) = 1 /\ <<h>>[1] = h
        OBVIOUS
      <4>2. \A i \in 1 .. Len(queue) : queue[i] = <<h>>[i]
        BY <2>5, <2>9, <4>1
      <4>3. queue = <<h>>
        BY <2>5, <2>9, <4>1, <4>2, SeqEqual
      <4> QED BY <1>1, <2>2, <4>3
    <3>2. \A q \in Request : q \notin ToSet(Tail(queue))
      BY <2>8, <2>9
    <3> QED BY <2>6, <3>1, <3>2 DEF Quiet
  <2>10. CASE 1 < Len(queue)
    <3>1. Pending' = SubSeq(Pending, 1, 1)
      BY <1>1, <2>2, <2>5, <2>10
    <3>2. \A q \in Request : OutcomeOf(q)' =
              IF \E i \in 1 + 1 .. Len(Pending) : Pending[i] = q THEN "CANCELED"
              ELSE OutcomeOf(q)
      BY <1>1, <2>6, <2>7, <2>8
    <3> QED BY <1>1, <2>10, <3>1, <3>2, ServiceFlush
  <2>11. Len(queue) = 1 \/ 1 < Len(queue)
    <3>1. \A n \in Nat : n >= 1 => n = 1 \/ 1 < n
      OBVIOUS
    <3> QED BY <2>5, <3>1
  <2> QED BY <2>9, <2>10, <2>11
<1> QED BY <1>2, <1>3

LEMMA CompleteRestStep ==
    ASSUME IInv, CompleteRest
    PROVE  Service!Next \/ Quiet
<1> USE DEF IInv
<1>1. call.pc = "none" /\ stage' = stage /\ Pending = queue /\ Pending' = <<>>
  BY DEF CompleteRest, LockFree, clientVars, Pending
<1>2. CompleteBusRequest(ToSet(queue), "CANCELED")
  BY DEF CompleteRest
<1>3. \A q : q \notin ToSet(Pending')
  BY <1>1 DEF ToSet
<1>4. ASSUME NEW q \in Request, q \notin ToSet(queue) PROVE OutcomeOf(q)' = OutcomeOf(q)
  <2>1. SameFields(q)
    BY <1>1, <1>2, <1>4 DEF CompleteBusRequest, SameFields
  <2> QED BY <1>1, <1>3, <1>4, <2>1, SameOutcome
<1>5. ASSUME NEW q \in Request, q \in ToSet(queue) PROVE OutcomeOf(q)' = "CANCELED"
  <2>1. PICK i \in Places : queue[i] = q
    BY <1>5, QueueSet
  <2>2. stage[q] # "free" /\ callback[q] = "armed"
    BY <1>1, <2>1 DEF Line, QueuedStage, Content, Waiting, Untouched
  <2>3. callback'[q] = "CANCELED" /\ stage'[q] # "free"
    BY <1>1, <1>2, <1>5, <2>2 DEF CompleteBusRequest
  <2>4. ~ (q \in ToSet(Pending))'
    BY <1>3 DEF ToSet
  <2> QED BY <2>3, <2>4 DEF OutcomeOf
<1>6. CASE queue = <<>>
  <2>1. \A q : q \notin ToSet(queue)
    BY <1>6 DEF ToSet
  <2> QED BY <1>1, <1>4, <1>6, <2>1 DEF Quiet
<1>7. CASE queue # <<>>
  <2>1. queue \in Seq(Request) /\ Len(queue) \in Nat /\ 0 < Len(queue)
    <3>1. queue \in Seq(Request)
      BY DEF TypeOK
    <3> QED BY <1>7, <3>1, HeadIsFirst
  <2>2. Pending' = SubSeq(Pending, 1, 0)
    BY <1>1, <2>1
  <2>3. \A q \in Request : OutcomeOf(q)' =
            IF \E i \in 0 + 1 .. Len(Pending) : Pending[i] = q THEN "CANCELED"
            ELSE OutcomeOf(q)
    <3>1. \A q : q \in ToSet(queue) <=> \E i \in 1 .. Len(queue) : queue[i] = q
      BY QueueSet DEF Places
    <3> QED BY <1>1, <1>4, <1>5, <3>1
  <2> QED BY <1>1, <2>1, <2>2, <2>3, ServiceFlush
<1> QED BY <1>6, <1>7

-----------------------------------------------------------------------------
(***************************************************************************)
(* RefusedSame is an invariant.                                            *)
(***************************************************************************)
RefusedSameAt(r) ==
    stage[r] = "refused" /\ r \notin ToSet(queue) /\ callback[r] = "armed" =>
        status[r] \in {"PENDING", ret[r]}

(* Whoever stays as it was and is not newly off the queue. *)
LEMMA RefusedFrame ==
    ASSUME RefusedSame, NEW q \in Request, SameFields(q), ret'[q] = ret[q],
           q \notin ToSet(queue') => q \notin ToSet(queue)
    PROVE  RefusedSameAt(q)'
<1>1. (q \notin ToSet(queue))' => q \notin ToSet(queue)
  BY DEF ToSet
<1> QED BY <1>1 DEF RefusedSame, RefusedSameAt, SameFields

LEMMA RefusedSameRequests ==
    ASSUME IInv, RefusedSame, NEW r \in Request,
           \/ \E k \in Kinds : NewRequest(r, k)
           \/ QueueBusRequest(r) \/ CompleteRefused(r) \/ Release(r)
    PROVE  RefusedSame'
<1> USE DEF IInv
<1> SUFFICES ASSUME NEW q \in Request PROVE RefusedSameAt(q)'
  BY DEF RefusedSame, RefusedSameAt
<1>1. CASE q = r
  <2>1. stage'[q] # "refused" \/ status'[q] = "PENDING"
    BY <1>1 DEF NewRequest, QueueBusRequest, CompleteRefused, Release, TypeOK
  <2> QED BY <2>1 DEF RefusedSameAt
<1>2. CASE q # r
  <2>1. SameFields(q) /\ ret'[q] = ret[q]
    BY <1>2 DEF NewRequest, QueueBusRequest, CompleteRefused, Release, CompleteBusRequest,
                TypeOK, SameFields
  <2>2. q \notin ToSet(queue') => q \notin ToSet(queue)
    <3>1. queue' = queue \/ queue' = Append(queue, r)
      BY DEF NewRequest, QueueBusRequest, CompleteRefused, Release
    <3> QED BY <3>1, AppendSet DEF TypeOK
  <2> QED BY <2>1, <2>2, RefusedFrame
<1> QED BY <1>1, <1>2

LEMMA RefusedSameRemovals ==
    ASSUME IInv, RefusedSame,
           \/ \E r \in Request : RemoveRequest(r)
           \/ RemoveAllRequest \/ CompleteRest
    PROVE  RefusedSame'
<1> USE DEF IInv
<1> SUFFICES ASSUME NEW q \in Request PROVE RefusedSameAt(q)'
  BY DEF RefusedSame, RefusedSameAt
<1>1. stage' = stage /\ ret' = ret
  BY DEF RemoveRequest, RemoveAllRequest, CompleteRest, clientVars
<1>2. CASE status' = status /\ callback' = callback /\ queue' = queue
  BY <1>1, <1>2, RefusedFrame DEF SameFields
<1>3. ASSUME NEW R, CompleteBusRequest(R, "CANCELED"),
             q \notin R /\ q \notin ToSet(queue') => q \notin ToSet(queue)
      PROVE  RefusedSameAt(q)'
  <2>1. CASE q \in R
    <3>1. callback'[q] # "armed"
      BY <1>3, <2>1 DEF CompleteBusRequest
    <3> QED BY <3>1 DEF RefusedSameAt
  <2>2. CASE q \notin R
    <3>1. SameFields(q)
      BY <1>1, <1>3, <2>2 DEF CompleteBusRequest, SameFields
    <3> QED BY <1>1, <1>3, <2>2, <3>1, RefusedFrame
  <2> QED BY <2>1, <2>2
<1>4. CASE \E r \in Request : RemoveRequest(r)
  <2>1. PICK r \in Request : RemoveRequest(r)
    BY <1>4
  <2>2. ASSUME NEW i \in 2 .. Len(queue), queue[i] = r, queue' = RemoveAt(queue, i),
               CompleteBusRequest({r}, "CANCELED")
        PROVE  RefusedSameAt(q)'
    <3>1. queue \in Seq(Request) /\ Len(queue) \in Nat
      BY QueueSet DEF TypeOK
    <3>2. i \in 1 .. Len(queue)
      BY <3>1
    <3>3. \A j, k \in 1 .. Len(queue) : queue[j] = queue[k] => j = k
      BY DEF Line, Distinct, Places
    <3>4. q \notin {r} /\ q \notin ToSet(queue') => q \notin ToSet(queue)
      BY <2>2, <3>1, <3>2, <3>3, RemoveAtSet
    <3> QED BY <1>3, <2>2, <3>4
  <2> QED BY <1>2, <2>1, <2>2 DEF RemoveRequest
<1>5. CASE RemoveAllRequest
  <2>1. CASE queue = <<>>
    BY <1>2, <1>5, <2>1 DEF RemoveAllRequest
  <2>2. CASE queue # <<>>
    <3>1. /\ CompleteBusRequest(ToSet(Tail(queue)), "CANCELED") /\ queue' = <<Head(queue)>>
          /\ call.pc # "callback"
      BY <1>5, <2>2 DEF RemoveAllRequest, LockFree
    <3>2. q \notin ToSet(Tail(queue)) /\ q # Head(queue) => q \notin ToSet(queue)
      BY <2>2, <3>1, HeadInLine
    <3>3. Head(queue) \in ToSet(queue')
      BY <3>1 DEF ToSet
    <3> QED BY <1>3, <3>1, <3>2, <3>3
  <2> QED BY <2>1, <2>2
<1>6. CASE CompleteRest
  <2>1. CompleteBusRequest(ToSet(queue), "CANCELED")
    BY <1>6 DEF CompleteRest
  <2> QED BY <1>3, <2>1
<1> QED BY <1>4, <1>5, <1>6

LEMMA RefusedSameHead ==
    ASSUME IInv, RefusedSame, RunCompleteRequest \/ \E st \in Status : SubmitFirst(st)
    PROVE  RefusedSame'
<1> USE DEF IInv
<1> SUFFICES ASSUME NEW q \in Request PROVE RefusedSameAt(q)'
  BY DEF RefusedSame, RefusedSameAt
<1>1. CASE q \in ToSet(queue') /\ queue' = queue
  <2>1. (q \in ToSet(queue))'
    BY <1>1 DEF ToSet
  <2> QED BY <2>1 DEF RefusedSameAt
<1>2. CASE q \notin ToSet(queue) /\ queue' = queue
  <2>1. queue # <<>> /\ call.pc # "callback" /\ call.pc # "none" => q # call.req
    BY <1>2, CallIsFirst, QueueSet
  <2>2. SameFields(q) /\ ret'[q] = ret[q]
    <3>1. CASE EnterComplete
      BY <2>1, <3>1 DEF EnterComplete, clientVars, SameFields, TypeOK
    <3>2. CASE RetryRequest
      BY <2>1, <3>2 DEF RetryRequest, clientVars, SameFields, TypeOK, Line, CallAtHead
    <3>3. CASE CallClient
      BY <2>1, <3>3 DEF CallClient, CompleteBusRequest, clientVars, SameFields, TypeOK, Line,
                        CallAtHead
    <3>4. CASE PopHead \/ \E st \in Status : SubmitNext(st)
      BY <3>4 DEF PopHead, SubmitNext, reqVars, clientVars, SameFields
    <3>5. CASE \E st \in Status : SubmitFirst(st)
      BY <2>1, <3>5 DEF SubmitFirst, SameFields, TypeOK, Line, CallAtHead
    <3> QED BY <3>1, <3>2, <3>3, <3>4, <3>5 DEF RunCompleteRequest
  <2> QED BY <1>2, <2>2, RefusedFrame
<1>3. CASE PopHead
  <2>1. /\ queue # <<>> /\ Head(queue) = call.req /\ queue' = Tail(queue) /\ queue \in Seq(Request)
        /\ callback[call.req] = call.st /\ call.st \in Status
    BY <1>3, CallRecord DEF PopHead, Line, CallAtHead, Content, HeadContent, TypeOK
  <2>2. \A i, j \in 1 .. Len(queue) : queue[i] = queue[j] => i = j
    BY DEF Line, Distinct, Places
  <2>3. SameFields(q) /\ ret'[q] = ret[q] /\ callback' = callback
    BY <1>3 DEF PopHead, reqVars, clientVars, SameFields
  <2>4. CASE q = call.req
    <3>1. callback'[q] # "armed"
      BY <2>1, <2>3, <2>4 DEF Status, Failure
    <3> QED BY <3>1 DEF RefusedSameAt
  <2>5. CASE q # call.req
    <3>1. q \notin ToSet(queue') => q \notin ToSet(queue)
      BY <2>1, <2>2, <2>5, TailSet
    <3> QED BY <2>3, <3>1, RefusedFrame
  <2> QED BY <2>4, <2>5
<1>4. ASSUME NEW st \in Status, SubmitFirst(st), st # "PENDING", kind[call.req] = "fast"
      PROVE  RefusedSameAt(q)'
  <2>1. /\ queue # <<>> /\ Head(queue) = call.req /\ queue' = Tail(queue) /\ call.pc = "first"
        /\ status' = [status EXCEPT ![call.req] = st] /\ ret' = [ret EXCEPT ![call.req] = st]
    BY <1>4 DEF SubmitFirst, Line, CallAtHead
  <2>2. CASE q = call.req
    BY <2>1, <2>2 DEF RefusedSameAt, TypeOK
  <2>3. CASE q # call.req
    <3>1. SameFields(q) /\ ret'[q] = ret[q]
      BY <1>4, <2>3 DEF SubmitFirst, SameFields, TypeOK
    <3>2. q \notin ToSet(queue') => q \notin ToSet(queue)
      BY <2>1, <2>3, HeadInLine
    <3> QED BY <3>1, <3>2, RefusedFrame
  <2> QED BY <2>2, <2>3
<1>5. queue' = queue => (q \in ToSet(queue') <=> q \in ToSet(queue))
  OBVIOUS
<1>6. \/ queue' = queue \/ PopHead
      \/ \E st \in Status : SubmitFirst(st) /\ st # "PENDING" /\ kind[call.req] = "fast"
  BY DEF RunCompleteRequest, EnterComplete, RetryRequest, CallClient, SubmitNext, SubmitFirst
<1> QED BY <1>1, <1>2, <1>3, <1>4, <1>5, <1>6

LEMMA RefusedSameOthers ==
    ASSUME RefusedSame,
           \/ \E st \in IndicatedStatus : CompleteRequestFromHC(st)
           \/ GetAndLockCurrentRequest \/ UnlockRequest
           \/ \E r \in Request : CancelCheck(r)
           \/ HostDetach \/ StartDetach \/ Attach \/ SlotStateChange
           \/ UNCHANGED vars
    PROVE  RefusedSame'
<1>1. UNCHANGED <<queue, reqVars, stage, ret>>
  BY DEF CompleteRequestFromHC, GetAndLockCurrentRequest, UnlockRequest, CancelCheck, HostDetach,
         StartDetach, Attach, SlotStateChange, vars, slotVars, hcVars, reqVars, clientVars
<1> QED BY <1>1 DEF RefusedSame, reqVars, ToSet

-----------------------------------------------------------------------------
(***************************************************************************)
(* The refinement.                                                         *)
(***************************************************************************)
LEMMA RefusedSameNext ==
    ASSUME IInv, RefusedSame, [Next]_vars PROVE RefusedSame'
<1>1. CASE RunCompleteRequest \/ \E st \in Status : SubmitFirst(st)
  BY <1>1, RefusedSameHead
<1>2. CASE \E r \in Request : \/ \E k \in Kinds : NewRequest(r, k)
                              \/ QueueBusRequest(r) \/ CompleteRefused(r) \/ Release(r)
  BY <1>2, RefusedSameRequests
<1>3. CASE (\E r \in Request : RemoveRequest(r)) \/ RemoveAllRequest \/ CompleteRest
  BY <1>3, RefusedSameRemovals
<1>4. CASE \/ \E st \in IndicatedStatus : CompleteRequestFromHC(st)
           \/ GetAndLockCurrentRequest \/ UnlockRequest
           \/ \E r \in Request : CancelCheck(r)
           \/ HostDetach \/ StartDetach \/ Attach \/ SlotStateChange
           \/ UNCHANGED vars
  BY <1>4, RefusedSameOthers
<1> QED BY <1>1, <1>2, <1>3, <1>4 DEF Next

LEMMA ServiceInit == Init => Service!Init
<1> SUFFICES ASSUME Init PROVE Service!Init
  OBVIOUS
<1>1. Pending = <<>>
  BY DEF Init, Pending, NoCall
<1>2. \A r \in Request : OutcomeOf(r) = "none"
  BY DEF Init, OutcomeOf
<1> QED BY <1>1, <1>2 DEF Service!Init

LEMMA ServiceStep ==
    ASSUME IInv, IInv', RefusedSame, [Next]_vars
    PROVE  [Service!Next]_Service!vars
<1> SUFFICES Service!Next \/ Quiet
  BY ServiceStutter
<1>1. CASE EnterComplete \/ RetryRequest \/ PopHead \/ \E st \in Status : SubmitNext(st)
  BY <1>1, CompletionQuiet
<1>2. CASE CallClient
  BY <1>2, CallClientFinishes
<1>3. CASE \E st \in Status : SubmitFirst(st)
  BY <1>3, SubmitFirstStep
<1>4. CASE \E r \in Request : \E k \in Kinds : NewRequest(r, k)
  BY <1>4, NewRequestQuiet
<1>5. CASE \E r \in Request : QueueBusRequest(r)
  BY <1>5, QueueBusRequestAccepts
<1>6. CASE \E r \in Request : CompleteRefused(r)
  BY <1>6, CompleteRefusedStep
<1>7. CASE \E r \in Request : Release(r)
  BY <1>7, ReleaseForgets
<1>8. CASE \E r \in Request : RemoveRequest(r)
  BY <1>8, RemoveRequestStep
<1>9. CASE RemoveAllRequest
  BY <1>9, RemoveAllStep
<1>10. CASE CompleteRest
  BY <1>10, CompleteRestStep
<1>11. CASE \/ \E st \in IndicatedStatus : CompleteRequestFromHC(st)
            \/ GetAndLockCurrentRequest \/ UnlockRequest
            \/ \E r \in Request : CancelCheck(r)
            \/ HostDetach \/ StartDetach \/ Attach \/ SlotStateChange
            \/ UNCHANGED vars
  BY <1>11, OthersQuiet
<1> QED BY <1>1, <1>2, <1>3, <1>4, <1>5, <1>6, <1>7, <1>8, <1>9, <1>10, <1>11
        DEF Next, RunCompleteRequest

(***************************************************************************)
(* What a refused request shows before its caller reports the failure is   *)
(* what the caller will report.                                            *)
(***************************************************************************)
THEOREM RefusedConsistent == Spec => []RefusedSame
<1>1. Init => RefusedSame
  BY DEF Init, RefusedSame
<1>2. IInv /\ RefusedSame /\ [Next]_vars => RefusedSame'
  BY RefusedSameNext
<1> QED BY <1>1, <1>2, InductiveInvariant, PTL DEF Spec

(***************************************************************************)
(* The queue implements the service, for any number of requests and        *)
(* retries: requests come to an end one by one from the front, the others  *)
(* only by being cancelled, and an outcome, once there, stays until the    *)
(* memory of the request is used again.                                    *)
(***************************************************************************)
THEOREM QueueImplementsService == Spec => ServiceSpec
<1>1. Init => Service!Init
  BY ServiceInit
<1>2. IInv /\ IInv' /\ RefusedSame /\ [Next]_vars => [Service!Next]_Service!vars
  BY ServiceStep
<1> QED BY <1>1, <1>2, InductiveInvariant, RefusedConsistent, PTL
        DEF Spec, ServiceSpec, Service!Spec
=============================================================================
