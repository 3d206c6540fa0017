----------------------------- MODULE SDWorkItem -----------------------------
(***************************************************************************)
(* The event channel of a slot (CSDWorkItem): threads of the host          *)
(* controller driver post slot events, the slot's own thread handles them. *)
(* A semaphore counts the free places of a ring, the ring keeps the events *)
(* in order, an auto-reset event wakes the thread.  Posting is serialised  *)
(* by the object's lock; the thread takes no lock at all, and moves the    *)
(* read index while a poster may be testing whether the ring is full.      *)
(***************************************************************************)
EXTENDS Naturals, Sequences, FiniteSets

CONSTANTS
    Poster,         \* threads that post events
    Event,          \* SD_SLOT_EVENT
    NoEvent,        \* content of a place never written
    Size            \* m_dwMaxOfSlotEvent (0x10 in the code)

ASSUME SizeAssumption == Size \in Nat /\ Size > 1
ASSUME EventAssumption == NoEvent \notin Event
ASSUME PosterAssumption == IsFiniteSet(Poster)

Index == 0 .. Size - 1

VARIABLES
    ring,           \* m_psdSlotEvent
    readIndex,      \* m_dwReadIndex
    writeIndex,     \* m_dwWriteIndex
    sem,            \* count of m_hEmptySlotSem
    wakeup,         \* m_hWakeupEvent is signalled
    poster,         \* where each posting thread stands in PostEvent
    posting,        \* the event it posts
    lock,           \* the thread that owns the CLockObject, or none
    worker,         \* where the slot's thread stands in ThreadRun
    current,        \* the event the thread has taken out
    terminated      \* m_bTerminated

ringVars == <<ring, readIndex, writeIndex, sem, wakeup>>
postVars == <<poster, posting, lock>>
workVars == <<worker, current, terminated>>
vars == <<ringVars, postVars, workVars>>

IncIndex(i) == IF i < Size - 1 THEN i + 1 ELSE 0
IsEmpty == readIndex = writeIndex
IsFull == IncIndex(writeIndex) = readIndex

-----------------------------------------------------------------------------
(***************************************************************************)
(* Slips: variants of the actions below, each with a mistake that one of   *)
(* the properties has to notice.  The specification does not use them.     *)
(***************************************************************************)
LockAndTestUnlocked(p) ==
    /\ poster[p] = "lock"
    /\ poster' = [poster EXCEPT ![p] = IF IsFull THEN "assert" ELSE "write"]
    /\ UNCHANGED <<ringVars, posting, lock, workVars>>

SignalNobody(p) ==
    /\ poster[p] \in {"signal", "assert"}
    /\ lock' = {}
    /\ poster' = [poster EXCEPT ![p] = "idle"]
    /\ posting' = [posting EXCEPT ![p] = NoEvent]
    /\ UNCHANGED <<ringVars, workVars>>

ReadNextEvent ==
    /\ worker = "read"
    /\ current' = ring[IncIndex(readIndex)]
    /\ worker' = "advance"
    /\ UNCHANGED <<ringVars, postVars, terminated>>

ReadAndRelease ==
    /\ worker = "read"
    /\ current' = ring[readIndex]
    /\ sem' = sem + 1
    /\ worker' = "advance"
    /\ UNCHANGED <<ring, readIndex, writeIndex, wakeup, postVars, terminated>>

ReleaseNothing ==
    /\ worker = "release"
    /\ worker' = "handle"
    /\ UNCHANGED <<ringVars, postVars, current, terminated>>

-----------------------------------------------------------------------------
Init ==
    /\ ring = [i \in Index |-> NoEvent]
    /\ readIndex = 0 /\ writeIndex = 0
    /\ sem = Size - 1
    /\ wakeup = TRUE
    /\ poster = [p \in Poster |-> "idle"]
    /\ posting = [p \in Poster |-> NoEvent]
    /\ lock = {}
    /\ worker = "test"
    /\ current = NoEvent
    /\ terminated = FALSE

-----------------------------------------------------------------------------
(* PostEvent: wait, without limit, for a free place; write it under the lock. *)
PostEvent(p, e) ==
    /\ poster[p] = "idle"
    /\ poster' = [poster EXCEPT ![p] = "wait"]
    /\ posting' = [posting EXCEPT ![p] = e]
    /\ UNCHANGED <<ringVars, lock, workVars>>

WaitEmptySlot(p) ==
    /\ poster[p] = "wait"
    /\ sem > 0
    /\ sem' = sem - 1
    /\ poster' = [poster EXCEPT ![p] = "lock"]
    /\ UNCHANGED <<ring, readIndex, writeIndex, wakeup, posting, lock, workVars>>

LockAndTest(p) ==
    /\ poster[p] = "lock"
    /\ lock = {}
    /\ lock' = {p}
    /\ poster' = [poster EXCEPT ![p] = IF IsFull THEN "assert" ELSE "write"]
    /\ UNCHANGED <<ringVars, posting, workVars>>

WriteEvent(p) ==
    /\ poster[p] = "write"
    /\ ring' = [ring EXCEPT ![writeIndex] = posting[p]]
    /\ poster' = [poster EXCEPT ![p] = "index"]
    /\ UNCHANGED <<readIndex, writeIndex, sem, wakeup, posting, lock, workVars>>

(* The write index moves: the event is visible from here. *)
AdvanceWrite(p) ==
    /\ poster[p] = "index"
    /\ writeIndex' = IncIndex(writeIndex)
    /\ poster' = [poster EXCEPT ![p] = "signal"]
    /\ UNCHANGED <<ring, readIndex, sem, wakeup, posting, lock, workVars>>

SignalAndUnlock(p) ==
    /\ poster[p] \in {"signal", "assert"}
    /\ wakeup' = (wakeup \/ poster[p] = "signal")
    /\ lock' = {}
    /\ poster' = [poster EXCEPT ![p] = "idle"]
    /\ posting' = [posting EXCEPT ![p] = NoEvent]
    /\ UNCHANGED <<ring, readIndex, writeIndex, sem, workVars>>

-----------------------------------------------------------------------------
(* ThreadRun of the slot's thread. *)
TestEmpty ==
    /\ worker = "test"
    /\ worker' = IF terminated THEN "done" ELSE IF IsEmpty THEN "sleep" ELSE "read"
    /\ UNCHANGED <<ringVars, postVars, current, terminated>>

Sleep ==
    /\ worker = "sleep"
    /\ wakeup
    /\ wakeup' = FALSE
    /\ worker' = "test"
    /\ UNCHANGED <<ring, readIndex, writeIndex, sem, postVars, current, terminated>>

ReadEvent ==
    /\ worker = "read"
    /\ current' = ring[readIndex]
    /\ worker' = "advance"
    /\ UNCHANGED <<ringVars, postVars, terminated>>

AdvanceRead ==
    /\ worker = "advance"
    /\ readIndex' = IncIndex(readIndex)
    /\ worker' = "release"
    /\ UNCHANGED <<ring, writeIndex, sem, wakeup, postVars, current, terminated>>

ReleaseSlot ==
    /\ worker = "release"
    /\ sem' = sem + 1
    /\ worker' = "handle"
    /\ UNCHANGED <<ring, readIndex, writeIndex, wakeup, postVars, current, terminated>>

(* SlotStatusChangeProcessing returns. *)
HandleEvent ==
    /\ worker = "handle"
    /\ current' = NoEvent
    /\ worker' = "test"
    /\ UNCHANGED <<ringVars, postVars, terminated>>

(* The destructor asks the thread to stop, and wakes it. *)
Terminate ==
    /\ ~ terminated
    /\ terminated' = TRUE
    /\ wakeup' = TRUE
    /\ UNCHANGED <<ring, readIndex, writeIndex, sem, postVars, worker, current>>

-----------------------------------------------------------------------------
PosterStep(p) ==
    \/ WaitEmptySlot(p)
    \/ LockAndTest(p)
    \/ WriteEvent(p)
    \/ AdvanceWrite(p)
    \/ SignalAndUnlock(p)

WorkerStep ==
    \/ TestEmpty
    \/ Sleep
    \/ ReadEvent
    \/ AdvanceRead
    \/ ReleaseSlot
    \/ HandleEvent

Next ==
    \/ \E p \in Poster : (\E e \in Event : PostEvent(p, e)) \/ PosterStep(p)
    \/ WorkerStep
    \/ Terminate

Spec == Init /\ [][Next]_vars

(***************************************************************************)
(* Both threads are scheduled.  The semaphore and the lock are handed to   *)
(* their waiters in turn, so a poster that waits for one of them gets it   *)
(* although others take it again and again.                                *)
(***************************************************************************)
Fairness ==
    /\ WF_vars(WorkerStep)
    /\ \A p \in Poster :
         /\ SF_vars(WaitEmptySlot(p)) /\ SF_vars(LockAndTest(p))
         /\ WF_vars(WriteEvent(p) \/ AdvanceWrite(p) \/ SignalAndUnlock(p))

FairSpec == Spec /\ Fairness

-----------------------------------------------------------------------------
(* Every variable has its type. *)
TypeOK ==
    /\ ring \in [Index -> Event \cup {NoEvent}]
    /\ readIndex \in Index /\ writeIndex \in Index
    /\ sem \in 0 .. Size - 1
    /\ wakeup \in BOOLEAN
    /\ poster \in [Poster -> {"idle", "wait", "lock", "assert", "write", "index", "signal"}]
    /\ posting \in [Poster -> Event \cup {NoEvent}]
    /\ lock \in SUBSET Poster
    /\ worker \in {"test", "sleep", "read", "advance", "release", "handle", "done"}
    /\ current \in Event \cup {NoEvent}
    /\ terminated \in BOOLEAN

(* The places in use, and where the i-th of them is. *)
Used == IF writeIndex >= readIndex THEN writeIndex - readIndex
        ELSE writeIndex + Size - readIndex
Place(i) == IF readIndex + i - 1 < Size THEN readIndex + i - 1
            ELSE readIndex + i - 1 - Size

(***************************************************************************)
(* Every place of the ring but one is accounted for exactly once: counted  *)
(* by the semaphore, promised to a poster, holding an event, or emptied    *)
(* and not yet given back.  It needs the read index to move before the     *)
(* semaphore is released.                                                  *)
(***************************************************************************)
Promised == {p \in Poster : poster[p] \in {"lock", "assert", "write", "index"}}

PlacesAccounted ==
    sem + Cardinality(Promised) + Used + (IF worker = "release" THEN 1 ELSE 0) = Size - 1

(* PostEvent's ASSERT(FALSE) for a full ring is never reached. *)
NeverFull == \A p \in Poster : poster[p] # "assert"

(***************************************************************************)
(* The thread, which reads without the lock, never reads the place a       *)
(* poster is writing, nor one without an event.                            *)
(***************************************************************************)
ReadIsStable ==
    worker \in {"read", "advance"} =>
        /\ ring[readIndex] # NoEvent
        /\ worker = "advance" => current = ring[readIndex]
        /\ \A p \in Poster : poster[p] \in {"write", "index"} => writeIndex # readIndex

(***************************************************************************)
(* No lost wake-up: the thread never sleeps on a ring with events unless   *)
(* its event is signalled or a poster is about to signal it.               *)
(***************************************************************************)
NoLostWakeup ==
    worker = "sleep" /\ ~ IsEmpty => wakeup \/ \E p \in Poster : poster[p] = "signal"

(* The ring implements the channel. *)
Events == [i \in 1 .. Used |-> ring[Place(i)]]

Handling == IF worker \in {"release", "handle"} THEN current ELSE NoEvent

Channel == INSTANCE SDEventChannel WITH
    events <- Events,
    handling <- Handling,
    Capacity <- Size - 1

ChannelSpec == Channel!Spec

(***************************************************************************)
(* The inductive invariant behind the safety properties.                   *)
(***************************************************************************)
Inside == {"assert", "write", "index", "signal"}

LockHeld ==
    /\ \A p \in Poster : poster[p] \in Inside <=> p \in lock
    /\ \A p, q \in lock : p = q

PostingKnown ==
    \A p \in Poster :
        /\ poster[p] # "idle" => posting[p] \in Event
        /\ poster[p] = "index" => ring[writeIndex] = posting[p]

RingFilled == \A i \in 1 .. Used : ring[Place(i)] \in Event

WorkerHasEvent ==
    /\ worker \in {"read", "advance"} => ~ IsEmpty
    /\ worker = "advance" => current = ring[readIndex]
    /\ worker \in {"release", "handle"} <=> current # NoEvent /\ worker # "advance"

IInv ==
    /\ TypeOK
    /\ PlacesAccounted
    /\ LockHeld
    /\ NeverFull
    /\ PostingKnown
    /\ RingFilled
    /\ WorkerHasEvent
    /\ NoLostWakeup

-----------------------------------------------------------------------------
(* Until the slot is destroyed, a thread that posts comes back, *)
EveryPostReturns ==
    \A p \in Poster : poster[p] # "idle" ~> poster[p] = "idle" \/ terminated

(* and every event that was posted is handled. *)
EveryEventHandled == ~ IsEmpty ~> worker = "handle" \/ terminated
=============================================================================
