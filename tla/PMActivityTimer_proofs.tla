----------------------- MODULE PMActivityTimer_proofs -----------------------
(***************************************************************************)
(* Proofs about PMActivityTimer, for any number of timers and any          *)
(* timeouts: no timer is forgotten and none expires early, provided that   *)
(* the sums of a timeout and the length of a wait fit into a DWORD.        *)
(***************************************************************************)
EXTENDS PMActivityTimer, TLAPS

(* The types carry over from a state to the next. *)
LEMMA ConstantFacts ==
    /\ \A t \in Timer : Timeout[t] \in Nat /\ Timeout[t] < INFINITE /\ Timeout[t] <= MaxIdle
    /\ INFINITE \in Nat
    /\ 0 \notin Timer
  BY SizeAssumption, TimeoutAssumption, BoundAssumption DEF Timer, INFINITE

(***************************************************************************)
(* The strengthened invariant holds at the start.                          *)
(***************************************************************************)
LEMMA InitInvariant == Init => IInv
  <1> SUFFICES ASSUME Init PROVE IInv
    OBVIOUS
  <1> USE ConstantFacts, BoundAssumption
  <1>1. TypeOK
    <2>1. timeLeft \in [Timer -> 0 .. INFINITE]
      BY DEF Init
    <2>2. /\ watched \in [Timer -> BOOLEAN] /\ reset \in [Timer -> BOOLEAN]
          /\ active \in [Timer -> BOOLEAN] /\ inactive \in [Timer -> BOOLEAN]
          /\ resume \in BOOLEAN
      BY DEF Init
    <2>3. /\ elapsed \in Nat /\ late \in 0 .. Late /\ idle \in [Timer -> 0 .. MaxIdle]
          /\ resumes \in 0 .. MaxResumes
      BY DEF Init
    <2>4. pc = "compute" /\ event = 0
      BY DEF Init
    <2> QED
      BY <2>1, <2>2, <2>3, <2>4 DEF TypeOK
  <1>2. Fits /\ OnTime /\ NotBefore
    BY DEF Init, Fits, OnTime, NotBefore, InWait
  <1>3. Lacking /\ UnusedNeverActive /\ NobodyForgotten
    BY DEF Init, Lacking, UnusedNeverActive, NobodyForgotten
  <1> QED
    BY <1>1, <1>2, <1>3 DEF IInv

(***************************************************************************)
(* During a wait the sum of a timeout and the time elapsed fits.           *)
(***************************************************************************)
LEMMA WaitFits ==
    ASSUME ShortWaits, TypeOK, OnTime, InWait
    PROVE  Fits
  <1> USE ConstantFacts, BoundAssumption
  <1> SUFFICES ASSUME NEW t \in Timer PROVE Timeout[t] + elapsed < INFINITE
    BY DEF Fits
  <1>1. CASE NoTimeout
    BY <1>1 DEF ShortWaits, OnTime, TypeOK
  <1>2. CASE ~ NoTimeout
    <2>1. PICK u \in Timer : timeLeft[u] # INFINITE
      BY <1>2 DEF NoTimeout
    <2>2. timeLeft[u] \in Nat /\ timeLeft[u] <= Timeout[u] /\ elapsed <= timeLeft[u] + late
      BY <2>1 DEF OnTime, TypeOK
    <2>3. late \in Nat /\ late <= Late /\ elapsed \in Nat
      BY DEF TypeOK
    <2>4. Timeout[t] + Timeout[u] + Late < INFINITE
      BY DEF ShortWaits
    <2> QED
      BY <2>2, <2>3, <2>4
  <1> QED
    BY <1>1, <1>2

(* A timer that starts anew gets its timeout and the time elapsed. *)
LEMMA RearmedSum ==
    ASSUME TypeOK, Fits, NEW t \in Timer
    PROVE  Rearmed(t) = Timeout[t] + elapsed /\ Rearmed(t) \in 0 .. INFINITE /\ Rearmed(t) # INFINITE
  <1>1. Timeout[t] + elapsed < INFINITE /\ Timeout[t] \in Nat /\ elapsed \in Nat
    BY ConstantFacts DEF Fits, TypeOK
  <1> QED
    BY <1>1, SizeAssumption DEF Rearmed, Plus, INFINITE

-----------------------------------------------------------------------------
LEMMA StartWaitStep ==
    ASSUME IInv, StartWait PROVE IInv'
  <1> USE ConstantFacts, BoundAssumption
  <1>1. TypeOK /\ NotBefore /\ Lacking /\ UnusedNeverActive /\ NobodyForgotten
    BY DEF IInv
  <1>2. \A t \in Timer :
          /\ timeLeft'[t] = TimeRemaining(t)
          /\ TimeRemaining(t) \in 0 .. INFINITE
          /\ TimeRemaining(t) = INFINITE <=> timeLeft[t] = INFINITE
    BY <1>1 DEF StartWait, TimeRemaining, TypeOK
  <1>3. TypeOK'
    BY <1>1, <1>2 DEF StartWait, TypeOK, eventVars
  <1>4. Fits'
    BY DEF StartWait, Fits
  <1>5. OnTime' /\ NotBefore'
    BY <1>1, <1>2 DEF StartWait, OnTime, NotBefore, InWait, TimeRemaining, TypeOK
  <1>6. Lacking'
    <2> SUFFICES ASSUME NEW t \in Timer, timeLeft'[t] # INFINITE, ~ reset[t]
                 PROVE  idle[t] >= Timeout[t] \/ idle[t] + timeLeft'[t] >= Timeout[t]
      BY DEF StartWait, Lacking, TypeOK, eventVars
    <2>1. idle[t] >= Timeout[t] \/ idle[t] + timeLeft[t] >= Timeout[t] + elapsed
      BY <1>1, <1>2 DEF Lacking, StartWait
    <2>2. idle[t] \in Nat /\ timeLeft[t] \in Nat /\ elapsed \in Nat
      BY <1>1 DEF TypeOK
    <2> QED
      BY <1>2, <2>1, <2>2 DEF TimeRemaining
  <1>7. UnusedNeverActive' /\ NobodyForgotten'
    <2>1. watched' = watched /\ active' = active /\ inactive' = inactive
      BY DEF StartWait
    <2>2. \A t \in Timer : timeLeft'[t] = INFINITE <=> timeLeft[t] = INFINITE
      BY <1>2
    <2> QED
      BY <1>1, <2>1, <2>2, Zenon DEF UnusedNeverActive, NobodyForgotten
  <1> QED
    BY <1>3, <1>4, <1>5, <1>6, <1>7 DEF IInv

(***************************************************************************)
(* The wait returns: a reset event that it consumes is remembered.         *)
(***************************************************************************)
LEMMA WaitReturns ==
    ASSUME IInv, WaitShutdown \/ WaitResume \/ WaitTimeout \/ \E t \in Timer : WaitReset(t)
    PROVE  IInv'
  <1> USE ConstantFacts
  <1> DEFINE W == WaitShutdown \/ WaitResume \/ WaitTimeout
  <1>1. CASE W
    <2>1. TypeOK'
      <3>1. UNCHANGED <<timerVars, reset, event, elapsed, late, idle, resumes>>
        BY <1>1 DEF WaitShutdown, WaitResume, WaitTimeout, eventVars
      <3>2. resume' \in BOOLEAN /\ pc' \in {"resume", "timeout", "done"}
        BY <1>1 DEF IInv, TypeOK, WaitShutdown, WaitResume, WaitTimeout, eventVars
      <3> QED
        BY <3>1, <3>2 DEF IInv, TypeOK, timerVars
    <2>2. Fits' /\ OnTime' /\ NotBefore'
      BY <1>1 DEF IInv, Fits, OnTime, NotBefore, InWait, NoTimeout, WaitShutdown, WaitResume,
                  WaitTimeout, timerVars, eventVars
    <2>3. Lacking' /\ UnusedNeverActive' /\ NobodyForgotten'
      BY <1>1 DEF IInv, Lacking, UnusedNeverActive, NobodyForgotten, WaitShutdown, WaitResume,
                  WaitTimeout, timerVars, eventVars
    <2> QED
      BY <2>1, <2>2, <2>3 DEF IInv
  <1>2. ASSUME NEW t \in Timer, WaitReset(t) PROVE IInv'
    <2>1. TypeOK'
      BY <1>2 DEF IInv, TypeOK, WaitReset, timerVars
    <2>2. Fits' /\ OnTime' /\ NotBefore'
      BY <1>2 DEF IInv, Fits, OnTime, NotBefore, InWait, NoTimeout, WaitReset, timerVars
    <2>3. Lacking'
      BY <1>2 DEF IInv, TypeOK, Lacking, WaitReset, timerVars
    <2>4. UnusedNeverActive' /\ NobodyForgotten'
      BY <1>2 DEF IInv, UnusedNeverActive, NobodyForgotten, WaitReset, timerVars
    <2> QED
      BY <2>1, <2>2, <2>3, <2>4 DEF IInv
  <1> QED
    BY <1>1, <1>2

(* After a resume all timers start anew. *)
LEMMA HandleResumeStep ==
    ASSUME IInv, HandleResume PROVE IInv'
  <1> USE ConstantFacts, BoundAssumption
  <1>1. TypeOK /\ Fits
    BY DEF IInv
  <1>2. \A t \in Timer : Rearmed(t) = Timeout[t] + elapsed
                           /\ Rearmed(t) \in 0 .. INFINITE /\ Rearmed(t) # INFINITE
    BY <1>1, RearmedSum
  <1>3. TypeOK'
    BY <1>1, <1>2 DEF HandleResume, TypeOK, eventVars
  <1>4. Fits' /\ OnTime' /\ NotBefore'
    BY <1>1, <1>2 DEF HandleResume, Fits, OnTime, NotBefore, InWait, TypeOK
  <1>5. Lacking'
    BY <1>1, <1>2 DEF HandleResume, Lacking, TypeOK
  <1>6. UnusedNeverActive' /\ NobodyForgotten'
    BY <1>2 DEF HandleResume, UnusedNeverActive, NobodyForgotten, IInv
  <1> QED
    BY <1>3, <1>4, <1>5, <1>6 DEF IInv

(***************************************************************************)
(* The time of some timers is up: those that were reset start anew, the    *)
(* others expire, and none of the others changes.                          *)
(***************************************************************************)
LEMMA HandleTimeoutStep ==
    ASSUME IInv, HandleTimeout PROVE IInv'
  <1> USE ConstantFacts
  <1> DEFINE due == {t \in Timer : timeLeft[t] # INFINITE /\ timeLeft[t] <= elapsed}
             expired == {t \in due : ~ reset[t]}
  <1>1. TypeOK /\ Fits
    BY DEF IInv
  <1>2. \A t \in Timer : Rearmed(t) = Timeout[t] + elapsed
                           /\ Rearmed(t) \in 0 .. INFINITE /\ Rearmed(t) # INFINITE
    BY <1>1, RearmedSum
  <1>3. /\ pc' = "compute" /\ elapsed' = elapsed /\ idle' = idle
        /\ \A t \in Timer :
             /\ timeLeft'[t] = IF t \in expired THEN INFINITE
                               ELSE IF t \in due THEN Rearmed(t) ELSE timeLeft[t]
             /\ reset'[t] = (reset[t] /\ t \notin due)
             /\ watched'[t] = (watched[t] \/ t \in expired)
             /\ active'[t] = (active[t] /\ t \notin expired)
             /\ inactive'[t] = (inactive[t] \/ t \in expired)
    BY DEF HandleTimeout
  <1>4. TypeOK'
    BY <1>1, <1>2 DEF HandleTimeout, TypeOK
  <1> HIDE DEF due, expired
  <1>5. Fits' /\ OnTime'
    BY <1>1, <1>3 DEF Fits, OnTime, InWait
  <1>6. NotBefore'
    BY <1>1, <1>2, <1>3 DEF NotBefore, IInv, TypeOK
  <1>7. Lacking'
    <2> SUFFICES ASSUME NEW t \in Timer, timeLeft'[t] # INFINITE, ~ reset'[t]
                 PROVE  idle[t] >= Timeout[t] \/ idle[t] + timeLeft'[t] >= Timeout[t] + elapsed
      BY <1>3 DEF Lacking
    <2>1. idle[t] \in Nat /\ elapsed \in Nat
      BY <1>1 DEF TypeOK
    <2>2. CASE t \in due
      BY <1>2, <1>3, <2>1, <2>2
    <2>3. CASE t \notin due
      <3>1. t \notin expired
        BY <2>3 DEF expired
      <3>2. timeLeft'[t] = timeLeft[t] /\ ~ reset[t] /\ pc = "timeout"
        BY <1>3, <2>3, <3>1 DEF HandleTimeout
      <3> QED
        BY <3>2 DEF Lacking, IInv
    <2> QED
      BY <2>2, <2>3
  <1>8. UnusedNeverActive' /\ NobodyForgotten'
    <2> SUFFICES ASSUME NEW t \in Timer
                 PROVE  /\ Timeout[t] = 0 => watched'[t] /\ ~ active'[t]
                        /\ ~ watched'[t] \/ active'[t] => timeLeft'[t] # INFINITE
                        /\ inactive'[t] => watched'[t] /\ ~ active'[t]
      BY DEF UnusedNeverActive, NobodyForgotten
    <2>1. /\ Timeout[t] = 0 => watched[t] /\ ~ active[t]
          /\ ~ watched[t] \/ active[t] => timeLeft[t] # INFINITE
          /\ inactive[t] => watched[t] /\ ~ active[t]
      BY DEF IInv, UnusedNeverActive, NobodyForgotten
    <2> QED
      BY <1>2, <1>3, <2>1
  <1> QED
    BY <1>4, <1>5, <1>6, <1>7, <1>8 DEF IInv

(***************************************************************************)
(* One timer was reset.  It is active and unwatched only with time left.   *)
(***************************************************************************)
LEMMA HandleResetStep ==
    ASSUME IInv, HandleReset PROVE IInv'
  <1> USE ConstantFacts
  <1> DEFINE e == event
  <1>1. TypeOK /\ Fits /\ e \in Timer /\ e # 0
    BY DEF IInv, TypeOK, HandleReset
  <1>2. Rearmed(e) = Timeout[e] + elapsed /\ Rearmed(e) \in 0 .. INFINITE /\ Rearmed(e) # INFINITE
    BY <1>1, RearmedSum
  <1>3. TypeOK'
    <2>1. timeLeft' \in [Timer -> 0 .. INFINITE]
      BY <1>1, <1>2 DEF HandleReset, TypeOK
    <2>2. watched' \in [Timer -> BOOLEAN]
      BY <1>1, Zenon DEF HandleReset, TypeOK
    <2>3. active' \in [Timer -> BOOLEAN]
      BY <1>1, Zenon DEF HandleReset, TypeOK
    <2>4. inactive' \in [Timer -> BOOLEAN]
      BY <1>1, Zenon DEF HandleReset, TypeOK
    <2>5. /\ UNCHANGED <<eventVars, elapsed, late, idle, resumes>>
          /\ pc' = "compute" /\ event' = 0
      BY DEF HandleReset
    <2> QED
      BY <1>1, <2>1, <2>2, <2>3, <2>4, <2>5 DEF TypeOK, eventVars
  <1>4. Fits' /\ OnTime'
    BY <1>1 DEF HandleReset, Fits, OnTime, InWait
  <1>5. NotBefore'
    BY <1>1, <1>2 DEF HandleReset, NotBefore, IInv, TypeOK
  <1>6. Lacking'
    BY <1>1, <1>2 DEF HandleReset, Lacking, IInv, TypeOK, eventVars
  <1>7. UnusedNeverActive' /\ NobodyForgotten'
    BY <1>1, <1>2 DEF HandleReset, UnusedNeverActive, NobodyForgotten, IInv, TypeOK
  <1> QED
    BY <1>3, <1>4, <1>5, <1>6, <1>7 DEF IInv

(* Time passes: what a timer lacks and what it has left shrink together. *)
LEMMA TickStep ==
    ASSUME ShortWaits, IInv, Tick PROVE IInv'
  <1> USE ConstantFacts, BoundAssumption
  <1>1. TypeOK
    BY DEF IInv
  <1>2. TypeOK'
    BY <1>1 DEF Tick, TypeOK, timerVars, eventVars
  <1>3. OnTime'
    <2> SUFFICES ASSUME InWait
                 PROVE  /\ NoTimeout => elapsed' <= MaxWait
                        /\ \A t \in Timer : timeLeft[t] # INFINITE =>
                              timeLeft[t] <= Timeout[t] /\ elapsed' <= timeLeft[t] + late'
      BY DEF Tick, OnTime, InWait, NoTimeout, timerVars
    <2>1. NoTimeout => elapsed' <= MaxWait
      BY <1>1 DEF Tick, OnTime, IInv, TypeOK
    <2>2. ASSUME NEW t \in Timer, timeLeft[t] # INFINITE
          PROVE  timeLeft[t] <= Timeout[t] /\ elapsed' <= timeLeft[t] + late'
      <3>1. timeLeft[t] <= Timeout[t] /\ elapsed <= timeLeft[t] + late
        BY <2>2 DEF OnTime, IInv
      <3>2. timeLeft[t] \in Nat /\ elapsed \in Nat /\ late \in Nat
        BY <1>1 DEF TypeOK
      <3>3. CASE CouldRun
        BY <3>1, <3>2, <3>3 DEF Tick, InWait
      <3>4. CASE ~ CouldRun
        <4>1. ~ (timeLeft[t] <= elapsed)
          BY <2>2, <3>4 DEF CouldRun, TimeIsUp
        <4> QED
          BY <3>1, <3>2, <3>4, <4>1 DEF Tick
      <3> QED
        BY <3>3, <3>4
    <2> QED
      BY <2>1, <2>2
  <1>4. Fits'
    <2>1. CASE InWait'
      <3>1. ShortWaits'
        BY DEF ShortWaits
      <3>2. Fits'
        <4> SUFFICES ASSUME NEW t \in Timer PROVE Timeout[t] + elapsed' < INFINITE
          BY DEF Fits
        <4>1. CASE \A u \in Timer : timeLeft'[u] = INFINITE
          BY <4>1, <2>1, <1>2, <1>3 DEF OnTime, NoTimeout, ShortWaits, TypeOK
        <4>2. CASE \E u \in Timer : timeLeft'[u] # INFINITE
          <5>1. PICK u \in Timer : timeLeft'[u] # INFINITE
            BY <4>2
          <5>2. timeLeft'[u] <= Timeout[u] /\ elapsed' <= timeLeft'[u] + late'
            BY <1>3, <2>1, <5>1 DEF OnTime
          <5>3. timeLeft'[u] \in Nat /\ late' \in Nat /\ late' <= Late /\ elapsed' \in Nat
            BY <1>2 DEF TypeOK
          <5>4. Timeout[t] + Timeout[u] + Late < INFINITE
            BY DEF ShortWaits
          <5> QED
            BY <5>2, <5>3, <5>4
        <4> QED
          BY <4>1, <4>2
      <3> QED
        BY <3>2
    <2>2. CASE ~ InWait'
      BY <2>2 DEF Tick, Fits, InWait, IInv
    <2> QED
      BY <2>1, <2>2
  <1>5. NotBefore'
    BY <1>1 DEF Tick, NotBefore, IInv, TypeOK, timerVars
  <1>6. Lacking'
    <2> SUFFICES ASSUME NEW t \in Timer, timeLeft[t] # INFINITE, ~ reset[t],
                        ~ (pc = "reset" /\ event = t)
                 PROVE  idle'[t] >= Timeout[t] \/ idle'[t] + timeLeft[t] >= Timeout[t] + elapsed'
      BY DEF Tick, Lacking, timerVars, eventVars
    <2>1. idle[t] >= Timeout[t] \/ idle[t] + timeLeft[t] >= Timeout[t] + elapsed
      BY DEF Lacking, IInv
    <2>2. idle[t] \in Nat /\ idle[t] <= MaxIdle /\ timeLeft[t] \in Nat /\ elapsed \in Nat
      BY <1>1 DEF TypeOK
    <2>3. idle'[t] = IF idle[t] < MaxIdle THEN idle[t] + 1 ELSE idle[t]
      BY DEF Tick
    <2>4. elapsed' = elapsed \/ elapsed' = elapsed + 1
      BY DEF Tick
    <2> QED
      BY <2>1, <2>2, <2>3, <2>4
  <1>7. UnusedNeverActive' /\ NobodyForgotten'
    <2>1. watched' = watched /\ active' = active /\ inactive' = inactive /\ timeLeft' = timeLeft
      BY DEF Tick, timerVars
    <2> QED
      BY <2>1, Zenon DEF UnusedNeverActive, NobodyForgotten, IInv
  <1> QED
    BY <1>2, <1>3, <1>4, <1>5, <1>6, <1>7 DEF IInv

(* Events are signalled; a timer that is reset may have to wait anew. *)
LEMMA SignalStep ==
    ASSUME IInv, PmPowerHandler \/ \E t \in Timer : Reset(t) PROVE IInv'
  <1> USE ConstantFacts, BoundAssumption
  <1>1. CASE PmPowerHandler
    <2>1. TypeOK'
      BY <1>1 DEF IInv, TypeOK, PmPowerHandler, timerVars, waitVars
    <2>2. Fits' /\ OnTime' /\ NotBefore' /\ Lacking' /\ UnusedNeverActive' /\ NobodyForgotten'
      BY <1>1 DEF IInv, Fits, OnTime, NotBefore, InWait, NoTimeout, Lacking, UnusedNeverActive,
                  NobodyForgotten, PmPowerHandler, timerVars, waitVars
    <2> QED
      BY <2>1, <2>2 DEF IInv
  <1>2. ASSUME NEW t \in Timer, Reset(t) PROVE IInv'
    <2>1. TypeOK'
      BY <1>2 DEF IInv, TypeOK, Reset, timerVars, waitVars
    <2>2. Fits' /\ OnTime' /\ NotBefore' /\ UnusedNeverActive' /\ NobodyForgotten'
      BY <1>2 DEF IInv, Fits, OnTime, NotBefore, InWait, NoTimeout, UnusedNeverActive,
                  NobodyForgotten, Reset, timerVars, waitVars
    <2>3. Lacking'
      BY <1>2 DEF IInv, TypeOK, Lacking, Reset, timerVars, waitVars
    <2> QED
      BY <2>1, <2>2, <2>3 DEF IInv
  <1> QED
    BY <1>1, <1>2

-----------------------------------------------------------------------------
LEMMA StepInvariant == ASSUME ShortWaits, IInv, [Next]_vars PROVE IInv'
  <1>1. CASE StartWait
    BY <1>1, StartWaitStep
  <1>2. CASE WaitShutdown \/ WaitResume \/ WaitTimeout \/ \E t \in Timer : WaitReset(t)
    BY <1>2, WaitReturns
  <1>3. CASE HandleResume
    BY <1>3, HandleResumeStep
  <1>4. CASE HandleTimeout
    BY <1>4, HandleTimeoutStep
  <1>5. CASE HandleReset
    BY <1>5, HandleResetStep
  <1>6. CASE Tick
    BY <1>6, TickStep
  <1>7. CASE PmPowerHandler \/ \E t \in Timer : Reset(t)
    BY <1>7, SignalStep
  <1>8. CASE UNCHANGED vars
    BY <1>8 DEF IInv, TypeOK, Fits, OnTime, NotBefore, InWait, NoTimeout, Lacking,
                UnusedNeverActive, NobodyForgotten, vars, timerVars, eventVars, waitVars
  <1> QED
    BY <1>1, <1>2, <1>3, <1>4, <1>5, <1>6, <1>7, <1>8 DEF Next, TimerThread

(* The strengthened invariant is one. *)
THEOREM InvariantHolds == ShortWaits => (Spec => []IInv)
  <1> SUFFICES ASSUME ShortWaits PROVE Spec => []IInv
    OBVIOUS
  <1>1. Init => IInv
    BY InitInvariant
  <1>2. IInv /\ [Next]_vars => IInv'
    BY StepInvariant
  <1> QED
    BY <1>1, <1>2, PTL DEF Spec

(* Every variable has its type. *)
THEOREM TypesHold == ShortWaits => (Spec => []TypeOK)
  BY InvariantHolds, PTL DEF IInv

(* No timer is left unwatched, or active, without time that runs out. *)
THEOREM ForgottenHolds == ShortWaits => (Spec => []NobodyForgotten)
  BY InvariantHolds, PTL DEF IInv

(***************************************************************************)
(* A timer expires only in HandleTimeout, and only when it has been idle.  *)
(***************************************************************************)
LEMMA ExpiresIdle ==
    ASSUME IInv, [Next]_vars, NEW t \in Timer, inactive'[t], ~ inactive[t]
    PROVE  idle[t] >= Timeout[t]
  <1> USE ConstantFacts
  <1>1. HandleTimeout
    <2>1. CASE HandleReset
      BY <2>1 DEF HandleReset, IInv, TypeOK
    <2>2. CASE UNCHANGED inactive
      BY <2>2
    <2>3. HandleTimeout \/ HandleReset \/ UNCHANGED inactive
      BY DEF Next, vars, TimerThread, StartWait, WaitShutdown, WaitResume, WaitReset, WaitTimeout,
             HandleResume, Tick, Reset, PmPowerHandler, timerVars
    <2> QED
      BY <2>1, <2>2, <2>3
  <1>2. timeLeft[t] # INFINITE /\ timeLeft[t] <= elapsed /\ ~ reset[t] /\ pc = "timeout"
    BY <1>1 DEF HandleTimeout
  <1>3. idle[t] >= Timeout[t] \/ idle[t] + timeLeft[t] >= Timeout[t] + elapsed
    BY <1>2 DEF IInv, Lacking
  <1>4. idle[t] \in Nat /\ timeLeft[t] \in Nat /\ elapsed \in Nat
    BY DEF IInv, TypeOK
  <1> QED
    BY <1>2, <1>3, <1>4

(***************************************************************************)
(* No timer is told inactive before it has been idle for its whole time.   *)
(***************************************************************************)
THEOREM NeverEarlyHolds == ShortWaits => (Spec => NeverEarly)
  <1> SUFFICES ASSUME ShortWaits PROVE Spec => NeverEarly
    OBVIOUS
  <1>1. IInv /\ [Next]_vars =>
          [\A t \in Timer : inactive'[t] /\ ~ inactive[t] => idle[t] >= Timeout[t]]_vars
    BY ExpiresIdle
  <1>2. Spec => []IInv
    BY InvariantHolds
  <1> QED
    BY <1>1, <1>2, PTL DEF Spec, NeverEarly
=============================================================================
