-------------------------- MODULE PMActivityTimer --------------------------
(***************************************************************************)
(* The activity timers of the power manager (PMDLL: pmtimer.cpp).  One     *)
(* thread waits for the shutdown event, the resume event and the reset     *)
(* events of the timers, no longer than the nearest timer has left, and    *)
(* tells the world through two events per timer whether it is active.      *)
(* After a reset it does not look at the timer's reset event again, a      *)
(* dummy takes its place among the events, until the time is up.           *)
(*                                                                         *)
(* Time is counted in ticks.  The thread measures the length of its waits; *)
(* what passes between two waits it does not see.  Drivers and             *)
(* applications signal the reset events, PmPowerHandler the resume event.  *)
(***************************************************************************)
EXTENDS Naturals

CONSTANTS
    N,              \* number of timers
    Timeout,        \* dwTimeout of each; 0 for one that is not used
    Modulus,        \* a DWORD holds 0 .. Modulus - 1
    Late,           \* bound: ticks the thread may be late in one round
    MaxWait,        \* bound: the longest wait without a timeout, in ticks
    MaxIdle,        \* bound: idle time is not counted any further
    MaxResumes      \* bound: number of resumes

Timer == 1 .. N
INFINITE == Modulus - 1

ASSUME SizeAssumption == N \in Nat /\ Modulus \in Nat \ {0}
ASSUME TimeoutAssumption ==
    /\ Timeout \in [Timer -> 0 .. MaxIdle]
    /\ \A t \in Timer : Timeout[t] < INFINITE
ASSUME BoundAssumption ==
    Late \in Nat /\ MaxWait \in Nat /\ MaxIdle \in Nat /\ MaxResumes \in Nat

VARIABLES
    timeLeft,       \* dwTimeLeft of each timer
    watched,        \* hEvents holds hevReset, and not hevDummy
    reset,          \* hevReset, an auto-reset event
    active,         \* hevActive
    inactive,       \* hevInactive
    resume,         \* ghevTimerResume, an auto-reset event
    pc,             \* where the thread stands
    event,          \* the timer whose reset event ended the wait
    elapsed,        \* dwWaitInterval, and during a wait the time it lasts
    late,           \* bookkeeping for Late: ticks since the thread could run
    idle,           \* history: ticks since the last reset or resume
    resumes         \* bookkeeping for MaxResumes

timerVars == <<timeLeft, watched, active, inactive>>
eventVars == <<reset, resume>>
waitVars == <<pc, event, elapsed>>
vars == <<timerVars, eventVars, waitVars, late, idle, resumes>>

Init ==
    /\ timeLeft = [t \in Timer |-> IF Timeout[t] = 0 THEN INFINITE ELSE Timeout[t]]
    /\ watched = [t \in Timer |-> TRUE]
    /\ reset = [t \in Timer |-> FALSE]
    /\ active = [t \in Timer |-> FALSE] /\ inactive = [t \in Timer |-> FALSE]
    /\ resume = FALSE
    /\ pc = "compute" /\ event = 0 /\ elapsed = 0
    /\ late = 0
    /\ idle = [t \in Timer |-> 0]
    /\ resumes = 0

(* The sum of two DWORDs. *)
Plus(a, b) == IF a + b < Modulus THEN a + b ELSE (a + b) - Modulus

(***************************************************************************)
(* The timeout of a timer, compensating for the time that the next round   *)
(* subtracts.                                                              *)
(***************************************************************************)
Rearmed(t) == Plus(Timeout[t], elapsed)

-----------------------------------------------------------------------------
(***************************************************************************)
(* Slips: variants of the definitions below, each with a mistake that one  *)
(* of the properties has to notice.  The specification does not use them.  *)
(***************************************************************************)
(* The reset event is not looked at when the time is up. *)
HandleTimeoutBlindly ==
    LET due == {t \in Timer : timeLeft[t] # INFINITE /\ timeLeft[t] <= elapsed} IN
    /\ pc = "timeout"
    /\ timeLeft' = [t \in Timer |-> IF t \in due THEN INFINITE ELSE timeLeft[t]]
    /\ watched' = [t \in Timer |-> watched[t] \/ t \in due]
    /\ active' = [t \in Timer |-> active[t] /\ t \notin due]
    /\ inactive' = [t \in Timer |-> inactive[t] \/ t \in due]
    /\ pc' = "compute"
    /\ UNCHANGED <<eventVars, event, elapsed, late, idle, resumes>>

(* An expired timer is not watched again. *)
HandleTimeoutUnwatched ==
    LET due == {t \in Timer : timeLeft[t] # INFINITE /\ timeLeft[t] <= elapsed}
        expired == {t \in due : ~ reset[t]}
    IN
    /\ pc = "timeout"
    /\ timeLeft' = [t \in Timer |-> IF t \in expired THEN INFINITE
                                    ELSE IF t \in due THEN Rearmed(t) ELSE timeLeft[t]]
    /\ reset' = [t \in Timer |-> reset[t] /\ t \notin due]
    /\ active' = [t \in Timer |-> active[t] /\ t \notin expired]
    /\ inactive' = [t \in Timer |-> inactive[t] \/ t \in expired]
    /\ pc' = "compute"
    /\ UNCHANGED <<watched, resume, event, elapsed, late, idle, resumes>>

(* A reset is passed over without a new deadline. *)
HandleResetUntimed ==
    LET t == event IN
    /\ pc = "reset"
    /\ active' = [active EXCEPT ![t] = TRUE]
    /\ inactive' = [inactive EXCEPT ![t] = FALSE]
    /\ watched' = [watched EXCEPT ![t] = FALSE]
    /\ pc' = "compute" /\ event' = 0
    /\ UNCHANGED <<timeLeft, eventVars, elapsed, late, idle, resumes>>

-----------------------------------------------------------------------------
(***************************************************************************)
(* GetNextInactivityTimeout takes the last wait off every timer, and the   *)
(* next wait begins.  Its timeout is the least of the times left, which    *)
(* stay as they are until the wait has ended.                              *)
(***************************************************************************)
TimeRemaining(t) ==
    IF timeLeft[t] = INFINITE THEN INFINITE
    ELSE IF timeLeft[t] < elapsed THEN 0 ELSE timeLeft[t] - elapsed

NoTimeout == \A t \in Timer : timeLeft[t] = INFINITE
TimeIsUp == \E t \in Timer : timeLeft[t] # INFINITE /\ timeLeft[t] <= elapsed

StartWait ==
    /\ pc = "compute"
    /\ timeLeft' = [t \in Timer |-> TimeRemaining(t)]
    /\ elapsed' = 0
    /\ late' = 0
    /\ pc' = "wait"
    /\ UNCHANGED <<watched, active, inactive, eventVars, event, idle, resumes>>

(***************************************************************************)
(* WaitForMultipleObjects returns the first event that is signalled, and   *)
(* consumes that one only; the timeout counts when none is.                *)
(***************************************************************************)
Signalled == {t \in Timer : watched[t] /\ reset[t]}

(* Somebody has set ghevPmShutdown, the first of the events. *)
WaitShutdown ==
    /\ pc = "wait"
    /\ pc' = "done"
    /\ UNCHANGED <<timerVars, eventVars, event, elapsed, late, idle, resumes>>

WaitResume ==
    /\ pc = "wait" /\ resume
    /\ resume' = FALSE
    /\ pc' = "resume"
    /\ UNCHANGED <<timerVars, reset, event, elapsed, late, idle, resumes>>

WaitReset(t) ==
    /\ pc = "wait" /\ ~ resume
    /\ t \in Signalled /\ \A u \in Signalled : t <= u
    /\ reset' = [reset EXCEPT ![t] = FALSE]
    /\ event' = t
    /\ pc' = "reset"
    /\ UNCHANGED <<timerVars, resume, elapsed, late, idle, resumes>>

WaitTimeout ==
    /\ pc = "wait" /\ ~ resume /\ Signalled = {}
    /\ TimeIsUp
    /\ pc' = "timeout"
    /\ UNCHANGED <<timerVars, eventVars, event, elapsed, late, idle, resumes>>

-----------------------------------------------------------------------------
(***************************************************************************)
(* What the thread does with the result, under the PM lock.  After a       *)
(* resume all timers are watched and start anew.                           *)
(***************************************************************************)
HandleResume ==
    /\ pc = "resume"
    /\ watched' = [t \in Timer |-> TRUE]
    /\ timeLeft' = [t \in Timer |-> Rearmed(t)]
    /\ idle' = [t \in Timer |-> 0]
    /\ pc' = "compute"
    /\ UNCHANGED <<active, inactive, eventVars, event, elapsed, late, resumes>>

(***************************************************************************)
(* The wait timed out.  A timer whose time is up has expired, unless its   *)
(* reset event was signalled while the thread did not look at it.          *)
(***************************************************************************)
HandleTimeout ==
    LET due == {t \in Timer : timeLeft[t] # INFINITE /\ timeLeft[t] <= elapsed}
        expired == {t \in due : ~ reset[t]}
    IN
    /\ pc = "timeout"
    /\ timeLeft' = [t \in Timer |-> IF t \in expired THEN INFINITE
                                    ELSE IF t \in due THEN Rearmed(t) ELSE timeLeft[t]]
    /\ reset' = [t \in Timer |-> reset[t] /\ t \notin due]
    /\ watched' = [t \in Timer |-> watched[t] \/ t \in expired]
    /\ active' = [t \in Timer |-> active[t] /\ t \notin expired]
    /\ inactive' = [t \in Timer |-> inactive[t] \/ t \in expired]
    /\ pc' = "compute"
    /\ UNCHANGED <<resume, event, elapsed, late, idle, resumes>>

(***************************************************************************)
(* A reset event ended the wait.  That of a timer without a timeout is     *)
(* ignored; any other timer is active from now on.                         *)
(***************************************************************************)
HandleReset ==
    LET t == event IN
    /\ pc = "reset"
    /\ IF Timeout[t] = 0
         THEN /\ timeLeft' = [timeLeft EXCEPT ![t] = INFINITE]
              /\ UNCHANGED <<watched, active, inactive>>
         ELSE /\ timeLeft' = [timeLeft EXCEPT ![t] = Rearmed(t)]
              /\ active' = [active EXCEPT ![t] = TRUE]
              /\ inactive' = [inactive EXCEPT ![t] = FALSE]
              /\ watched' = [watched EXCEPT ![t] = FALSE]
    /\ pc' = "compute" /\ event' = 0
    /\ UNCHANGED <<eventVars, elapsed, late, idle, resumes>>

-----------------------------------------------------------------------------
(***************************************************************************)
(* The world around the thread.  A tick passes; the thread is at most Late *)
(* ticks behind once it could go on.  dwWaitInterval is measured when the  *)
(* wait has returned, so a delay of the return counts.                     *)
(***************************************************************************)
CouldRun == pc # "wait" \/ resume \/ Signalled # {} \/ TimeIsUp

Tick ==
    /\ CouldRun /\ pc # "done" => late < Late
    /\ late' = IF CouldRun /\ pc # "done" THEN late + 1 ELSE late
    /\ elapsed' = IF pc \in {"wait", "resume", "timeout", "reset"}
                       /\ (NoTimeout => elapsed < MaxWait)
                    THEN elapsed + 1 ELSE elapsed
    /\ idle' = [t \in Timer |-> IF idle[t] < MaxIdle THEN idle[t] + 1 ELSE idle[t]]
    /\ UNCHANGED <<timerVars, eventVars, pc, event, resumes>>

(* External: SetEvent on a reset event, by a driver or an application. *)
Reset(t) ==
    /\ reset' = [reset EXCEPT ![t] = TRUE]
    /\ idle' = [idle EXCEPT ![t] = 0]
    /\ UNCHANGED <<timerVars, resume, waitVars, late, resumes>>

PmPowerHandler ==
    /\ resumes < MaxResumes
    /\ resumes' = resumes + 1
    /\ resume' = TRUE
    /\ UNCHANGED <<timerVars, reset, waitVars, late, idle>>

-----------------------------------------------------------------------------
TimerThread ==
    \/ StartWait
    \/ WaitResume
    \/ \E t \in Timer : WaitReset(t)
    \/ WaitTimeout
    \/ HandleResume
    \/ HandleTimeout
    \/ HandleReset

Next ==
    \/ TimerThread
    \/ Tick
    \/ \E t \in Timer : Reset(t)
    \/ PmPowerHandler
    \/ WaitShutdown

Spec == Init /\ [][Next]_vars

(***************************************************************************)
(* The thread runs, time passes whatever else happens, and not all of it   *)
(* between the waits.                                                      *)
(***************************************************************************)
FairSpec == Spec /\ WF_vars(TimerThread) /\ SF_vars(pc # "compute" /\ Tick)

-----------------------------------------------------------------------------
(* Every variable has its type. *)
TypeOK ==
    /\ timeLeft \in [Timer -> 0 .. INFINITE]
    /\ watched \in [Timer -> BOOLEAN]
    /\ reset \in [Timer -> BOOLEAN]
    /\ active \in [Timer -> BOOLEAN]
    /\ inactive \in [Timer -> BOOLEAN]
    /\ resume \in BOOLEAN
    /\ pc \in {"compute", "wait", "resume", "timeout", "reset", "done"}
    /\ event \in Timer \cup {0} /\ (pc = "reset" => event \in Timer)
    /\ elapsed \in Nat
    /\ late \in 0 .. Late
    /\ idle \in [Timer -> 0 .. MaxIdle]
    /\ resumes \in 0 .. MaxResumes

(***************************************************************************)
(* No timer is told inactive before it has been idle for its whole time,   *)
(* whatever else ends the waits in between: other timers, a resume, or a   *)
(* reset at the very moment at which the time is up.                       *)
(***************************************************************************)
NeverEarly ==
    [][\A t \in Timer : inactive'[t] /\ ~ inactive[t] => idle[t] >= Timeout[t]]_vars

(***************************************************************************)
(* No timer is forgotten.  One whose reset event is replaced by the dummy, *)
(* or that the world takes for active, has time left that runs out and     *)
(* makes the thread look at it; one that is inactive is watched.           *)
(***************************************************************************)
NobodyForgotten ==
    \A t \in Timer :
        /\ ~ watched[t] \/ active[t] => timeLeft[t] # INFINITE
        /\ inactive[t] => watched[t] /\ ~ active[t]

(***************************************************************************)
(* The event of a timer without a timeout is watched all the time, and an  *)
(* event earlier in the array goes first: signalled over and over, it      *)
(* keeps the thread from everything else.                                  *)
(***************************************************************************)
Starved == []<>(pc = "reset" /\ Timeout[event] = 0)

(* A timer in use that nobody resets becomes inactive.                     *)
UnusedExpires ==
    \/ Starved
    \/ \A t \in Timer : Timeout[t] # 0 =>
          []<>(inactive[t] \/ idle[t] = 0 \/ pc = "done")

(***************************************************************************)
(* A timer that has expired becomes active again when it is reset, unless  *)
(* a resume gives it another time.                                         *)
(***************************************************************************)
ResetRevives ==
    \/ Starved
    \/ \A t \in Timer :
          Timeout[t] # 0 /\ reset[t] /\ inactive[t] /\ timeLeft[t] = INFINITE
            ~> active[t] \/ pc = "done"

-----------------------------------------------------------------------------
(***************************************************************************)
(* The inductive invariant behind NobodyForgotten and NeverEarly.  It      *)
(* needs that no wait is so long that a sum of two DWORDs overflows.  A    *)
(* timer without a pending reset has at least as much time left as it      *)
(* lacks to its timeout.                                                   *)
(***************************************************************************)
ShortWaits ==
    \A t, u \in Timer :
        Timeout[t] + Timeout[u] + Late < INFINITE /\ Timeout[t] + MaxWait < INFINITE

InWait == pc \in {"wait", "resume", "timeout", "reset"}

Fits == \A t \in Timer : Timeout[t] + elapsed < INFINITE

OnTime ==
    InWait =>
        /\ NoTimeout => elapsed <= MaxWait
        /\ \A t \in Timer : timeLeft[t] # INFINITE =>
              timeLeft[t] <= Timeout[t] /\ elapsed <= timeLeft[t] + late

NotBefore == \A t \in Timer : timeLeft[t] # INFINITE => timeLeft[t] <= Timeout[t] + elapsed

Lacking ==
    \A t \in Timer :
        timeLeft[t] # INFINITE /\ ~ reset[t] /\ ~ (pc = "reset" /\ event = t) =>
            idle[t] >= Timeout[t] \/ idle[t] + timeLeft[t] >= Timeout[t] + elapsed

UnusedNeverActive == \A t \in Timer : Timeout[t] = 0 => watched[t] /\ ~ active[t]

IInv ==
    /\ TypeOK
    /\ Fits
    /\ OnTime
    /\ NotBefore
    /\ Lacking
    /\ UnusedNeverActive
    /\ NobodyForgotten

-----------------------------------------------------------------------------
(***************************************************************************)
(* What comments of the code say, and the code does not do.                *)
(***************************************************************************)
(* A timer without a timeout: "we're not using the event, so ignore it". *)
UnusedIsQuiet == \A t \in Timer : Timeout[t] = 0 => ~ inactive[t]

(* A reset makes an inactive timer active, whatever came before. *)
ResetAlwaysRevives ==
    \A t \in Timer :
        Timeout[t] # 0 /\ reset[t] /\ inactive[t] ~> active[t] \/ pc = "done"
=============================================================================
