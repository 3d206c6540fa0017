------------------------- MODULE SDWorkItem_proofs -------------------------
(***************************************************************************)
(* Proofs about the event channel of a slot, for any number of posting     *)
(* threads, any events and any size of the ring.                           *)
(***************************************************************************)
EXTENDS SDWorkItem, FiniteSetTheorems, SequenceTheorems, TLAPS

(***************************************************************************)
(* The ring: what the indices say about the places in use.                 *)
(***************************************************************************)
LEMMA RingPlaces ==
    ASSUME readIndex \in Index, writeIndex \in Index
    PROVE  /\ Used \in 0 .. Size - 1
           /\ IsEmpty <=> Used = 0
           /\ IsFull <=> Used = Size - 1
           /\ Place(1) = readIndex
           /\ Place(Used + 1) = writeIndex
           /\ \A i \in 1 .. Used : Place(i) \in Index /\ Place(i) # writeIndex
BY SizeAssumption DEF Index, Used, Place, IsEmpty, IsFull, IncIndex

(* The write index moves. *)
LEMMA WriteAdvances ==
    ASSUME readIndex \in Index, writeIndex \in Index, ~ IsFull,
           writeIndex' = IncIndex(writeIndex), readIndex' = readIndex
    PROVE  /\ writeIndex' \in Index /\ Used' = Used + 1 /\ ~ IsEmpty'
           /\ \A i \in 1 .. Used + 1 : Place(i)' = Place(i)
BY SizeAssumption DEF Index, Used, Place, IsEmpty, IsFull, IncIndex

(* The read index moves. *)
LEMMA ReadAdvances ==
    ASSUME readIndex \in Index, writeIndex \in Index, ~ IsEmpty,
           readIndex' = IncIndex(readIndex), writeIndex' = writeIndex
    PROVE  /\ readIndex' \in Index /\ Used' = Used - 1
           /\ \A i \in 1 .. Used - 1 : Place(i)' = Place(i + 1)
BY SizeAssumption DEF Index, Used, Place, IsEmpty, IncIndex

(* The indices stay. *)
LEMMA IndicesStay ==
    ASSUME readIndex' = readIndex, writeIndex' = writeIndex
    PROVE  /\ Used' = Used /\ (IsEmpty' <=> IsEmpty) /\ (IsFull' <=> IsFull)
           /\ \A i : Place(i)' = Place(i)
BY DEF Used, Place, IsEmpty, IsFull

(* Promised is finite, and grows and shrinks by one poster. *)
LEMMA PromisedFinite == IsFiniteSet(Promised) /\ Cardinality(Promised) \in Nat
<1>1. Promised \in SUBSET Poster
  BY DEF Promised
<1>2. IsFiniteSet(Promised)
  BY <1>1, PosterAssumption, FS_Subset
<1> QED BY <1>2, FS_CardinalityType

(* A promise leaves room in the ring. *)
LEMMA PromiseLeavesRoom ==
    ASSUME TypeOK, PlacesAccounted, NEW p \in Promised
    PROVE  ~ IsFull /\ Used < Size - 1
<1>1. Promised # {}
  OBVIOUS
<1>2. Cardinality(Promised) \in Nat /\ Cardinality(Promised) # 0
  BY <1>1, PromisedFinite, FS_EmptySet
<1>3. Used \in 0 .. Size - 1 /\ (IsFull <=> Used = Size - 1) /\ sem \in Nat
  BY RingPlaces, SizeAssumption DEF TypeOK
<1> QED BY <1>2, <1>3, SizeAssumption DEF PlacesAccounted

(* The promises after the step of one poster. *)
Promising == {"lock", "assert", "write", "index"}

LEMMA PromisesAfter ==
    ASSUME TypeOK, NEW p \in Poster, NEW c, poster' = [poster EXCEPT ![p] = c]
    PROVE  /\ Cardinality(Promised)' \in Nat
           /\ poster[p] \notin Promising /\ c \in Promising =>
                Cardinality(Promised)' = Cardinality(Promised) + 1
           /\ poster[p] \in Promising /\ c \notin Promising =>
                Cardinality(Promised)' = Cardinality(Promised) - 1
           /\ (poster[p] \in Promising <=> c \in Promising) =>
                Cardinality(Promised)' = Cardinality(Promised)
<1> DEFINE P == Promised
           N == Promised'
<1>1. N = IF c \in Promising THEN P \cup {p} ELSE P \ {p}
  BY DEF TypeOK, Promised, Promising
<1>2. IsFiniteSet(P) /\ Cardinality(P) \in Nat
  BY PromisedFinite
<1>3. p \in P <=> poster[p] \in Promising
  BY DEF Promised, Promising
<1>4. Cardinality(Promised)' = Cardinality(N)
  OBVIOUS
<1> HIDE DEF P, N
<1>5. /\ IsFiniteSet(P \cup {p})
      /\ Cardinality(P \cup {p}) = IF p \in P THEN Cardinality(P) ELSE Cardinality(P) + 1
  BY <1>2, FS_AddElement
<1>6. /\ IsFiniteSet(P \ {p})
      /\ Cardinality(P \ {p}) = IF p \in P THEN Cardinality(P) - 1 ELSE Cardinality(P)
  BY <1>2, FS_RemoveElement
<1>7. IsFiniteSet(N) /\ Cardinality(N) \in Nat
  BY <1>1, <1>5, <1>6, FS_CardinalityType
<1>8. CASE c \in Promising
  <2>1. Cardinality(N) = IF p \in P THEN Cardinality(P) ELSE Cardinality(P) + 1
    BY <1>1, <1>5, <1>8
  <2> QED BY <1>3, <1>4, <1>7, <1>8, <2>1 DEF P
<1>9. CASE c \notin Promising
  <2>1. Cardinality(N) = IF p \in P THEN Cardinality(P) - 1 ELSE Cardinality(P)
    BY <1>1, <1>6, <1>9
  <2> QED BY <1>3, <1>4, <1>7, <1>9, <2>1 DEF P
<1> QED BY <1>8, <1>9

(* The numbers PlacesAccounted adds. *)
LEMMA Numbers ==
    ASSUME TypeOK
    PROVE  sem \in Nat /\ Used \in Nat /\ Cardinality(Promised) \in Nat
BY RingPlaces, PromisedFinite, SizeAssumption DEF TypeOK

-----------------------------------------------------------------------------
(* The initial state. *)
LEMMA InitInvariant == Init => IInv
<1> SUFFICES ASSUME Init PROVE IInv
  OBVIOUS
<1> USE SizeAssumption DEF Init
<1>1. TypeOK
  <2>1. ring \in [Index -> Event \cup {NoEvent}] /\ readIndex \in Index /\ writeIndex \in Index
    BY DEF Index
  <2>2. sem \in 0 .. Size - 1
    OBVIOUS
  <2>3. posting \in [Poster -> Event \cup {NoEvent}] /\ lock \in SUBSET Poster
    OBVIOUS
  <2>4. /\ poster \in [Poster -> {"idle", "wait", "lock", "assert", "write", "index", "signal"}]
        /\ worker \in {"test", "sleep", "read", "advance", "release", "handle", "done"}
        /\ current \in Event \cup {NoEvent} /\ wakeup \in BOOLEAN /\ terminated \in BOOLEAN
    OBVIOUS
  <2> QED BY <2>1, <2>2, <2>3, <2>4 DEF TypeOK
<1>2. Used = 0 /\ IsEmpty
  BY <1>1, RingPlaces DEF TypeOK, IsEmpty
<1>3. Promised = {}
  BY DEF Promised
<1>4. PlacesAccounted
  BY <1>2, <1>3, FS_EmptySet DEF PlacesAccounted
<1>5. LockHeld /\ NeverFull /\ PostingKnown /\ NoLostWakeup
  BY DEF LockHeld, NeverFull, PostingKnown, NoLostWakeup, Inside
<1>6. RingFilled
  BY <1>2 DEF RingFilled
<1>7. WorkerHasEvent
  BY DEF WorkerHasEvent
<1> QED BY <1>1, <1>4, <1>5, <1>6, <1>7 DEF IInv

-----------------------------------------------------------------------------
(***************************************************************************)
(* The steps of a poster.                                                  *)
(***************************************************************************)

(* What does not look at posters, when a poster moves and the ring stays. *)
LEMMA WorkerFrame ==
    ASSUME IInv, UNCHANGED <<ring, readIndex, writeIndex, workVars>>
    PROVE  RingFilled' /\ WorkerHasEvent'
<1>1. Used' = Used /\ (IsEmpty' <=> IsEmpty) /\ \A i : Place(i)' = Place(i)
  BY IndicesStay
<1>2. RingFilled'
  BY <1>1 DEF IInv, RingFilled
<1>3. WorkerHasEvent'
  BY <1>1 DEF IInv, WorkerHasEvent, workVars
<1> QED BY <1>2, <1>3

LEMMA PostEventStep ==
    ASSUME IInv, NEW p \in Poster, NEW e \in Event, PostEvent(p, e)
    PROVE  IInv'
<1> USE DEF PostEvent, ringVars, workVars
<1>1. TypeOK'
  BY DEF IInv, TypeOK
<1>2. PlacesAccounted'
  <2>1. Used' = Used
    BY IndicesStay
  <2>2. poster[p] \notin Promising /\ "wait" \notin Promising
    BY DEF Promising
  <2>3. Cardinality(Promised)' = Cardinality(Promised)
    BY <2>2, PromisesAfter DEF IInv
  <2> QED BY <2>1, <2>3 DEF IInv, PlacesAccounted
<1>3. LockHeld' /\ NeverFull' /\ PostingKnown' /\ NoLostWakeup'
  BY IndicesStay
  DEF IInv, TypeOK, LockHeld, NeverFull, PostingKnown, NoLostWakeup, Inside
<1> QED BY <1>1, <1>2, <1>3, WorkerFrame DEF IInv

LEMMA WaitEmptySlotStep ==
    ASSUME IInv, NEW p \in Poster, WaitEmptySlot(p)
    PROVE  IInv'
<1> USE DEF WaitEmptySlot, workVars
<1>1. sem \in 0 .. Size - 1 /\ sem - 1 \in 0 .. Size - 1 /\ sem' = sem - 1
  BY SizeAssumption DEF IInv, TypeOK
<1>2. TypeOK'
  BY <1>1 DEF IInv, TypeOK
<1>3. PlacesAccounted'
  <2>1. Used' = Used
    BY IndicesStay
  <2>2. poster[p] \notin Promising /\ "lock" \in Promising
    BY DEF Promising
  <2>3. Cardinality(Promised)' = Cardinality(Promised) + 1
    BY <2>2, PromisesAfter DEF IInv
  <2> QED BY <1>1, <2>1, <2>3, Numbers DEF IInv, PlacesAccounted
<1>4. LockHeld' /\ NeverFull' /\ PostingKnown' /\ NoLostWakeup'
  BY IndicesStay
  DEF IInv, TypeOK, LockHeld, NeverFull, PostingKnown, NoLostWakeup, Inside
<1> QED BY <1>2, <1>3, <1>4, WorkerFrame DEF IInv

LEMMA LockAndTestStep ==
    ASSUME IInv, NEW p \in Poster, LockAndTest(p)
    PROVE  IInv'
<1> USE DEF LockAndTest, ringVars, workVars
<1>1. ~ IsFull
  <2>1. p \in Promised
    BY DEF Promised
  <2> QED BY <2>1, PromiseLeavesRoom DEF IInv
<1>2. poster' = [poster EXCEPT ![p] = "write"]
  BY <1>1
<1>3. TypeOK'
  BY <1>2 DEF IInv, TypeOK
<1>4. PlacesAccounted'
  <2>1. Used' = Used
    BY IndicesStay
  <2>2. poster[p] \in Promising /\ "write" \in Promising
    BY DEF Promising
  <2>3. Cardinality(Promised)' = Cardinality(Promised)
    BY <1>2, <2>2, PromisesAfter DEF IInv
  <2> QED BY <2>1, <2>3 DEF IInv, PlacesAccounted
<1>5. LockHeld' /\ NeverFull' /\ PostingKnown' /\ NoLostWakeup'
  BY <1>2, IndicesStay
  DEF IInv, TypeOK, LockHeld, NeverFull, PostingKnown, NoLostWakeup, Inside
<1> QED BY <1>3, <1>4, <1>5, WorkerFrame DEF IInv

LEMMA WriteEventStep ==
    ASSUME IInv, NEW p \in Poster, WriteEvent(p)
    PROVE  IInv'
<1> USE DEF WriteEvent, workVars
<1>1. /\ readIndex \in Index /\ writeIndex \in Index
      /\ ring \in [Index -> Event \cup {NoEvent}]
      /\ posting[p] \in Event /\ p \in lock
  BY DEF IInv, TypeOK, PostingKnown, LockHeld, Inside
<1>2. TypeOK'
  BY <1>1 DEF IInv, TypeOK
<1>3. PlacesAccounted'
  <2>1. Used' = Used
    BY IndicesStay
  <2>2. poster[p] \in Promising /\ "index" \in Promising
    BY DEF Promising
  <2>3. Cardinality(Promised)' = Cardinality(Promised)
    BY <2>2, PromisesAfter DEF IInv
  <2> QED BY <2>1, <2>3 DEF IInv, PlacesAccounted
<1>4. LockHeld' /\ NeverFull' /\ NoLostWakeup'
  BY IndicesStay
  DEF IInv, TypeOK, LockHeld, NeverFull, NoLostWakeup, Inside
<1>5. PostingKnown'
  <2>1. ring'[writeIndex'] = posting[p]
    BY <1>1
  <2>2. ASSUME NEW q \in Poster, poster'[q] = "index"
        PROVE  q = p
    BY <2>2 DEF IInv, TypeOK, LockHeld, Inside
  <2> QED BY <2>1, <2>2 DEF IInv, TypeOK, PostingKnown
<1>6. RingFilled'
  <2>1. Used' = Used /\ \A i : Place(i)' = Place(i)
    BY IndicesStay
  <2>2. \A i \in 1 .. Used : Place(i) \in Index /\ Place(i) # writeIndex
    BY <1>1, RingPlaces
  <2> QED BY <1>1, <2>1, <2>2 DEF IInv, RingFilled
<1>7. WorkerHasEvent'
  <2>1. IsEmpty' <=> IsEmpty
    BY IndicesStay
  <2>2. ~ IsEmpty => ring'[readIndex] = ring[readIndex]
    BY <1>1 DEF IsEmpty
  <2> QED BY <2>1, <2>2 DEF IInv, WorkerHasEvent
<1> QED BY <1>2, <1>3, <1>4, <1>5, <1>6, <1>7 DEF IInv

LEMMA AdvanceWriteStep ==
    ASSUME IInv, NEW p \in Poster, AdvanceWrite(p)
    PROVE  IInv'
<1> USE DEF AdvanceWrite, workVars
<1>1. /\ readIndex \in Index /\ writeIndex \in Index
      /\ posting[p] \in Event /\ ring[writeIndex] = posting[p] /\ p \in lock
  BY DEF IInv, TypeOK, PostingKnown, LockHeld, Inside
<1>2. ~ IsFull
  <2>1. p \in Promised
    BY DEF Promised
  <2> QED BY <2>1, PromiseLeavesRoom DEF IInv
<1>3. /\ writeIndex' \in Index /\ Used' = Used + 1 /\ ~ IsEmpty'
      /\ \A i \in 1 .. Used + 1 : Place(i)' = Place(i)
  BY <1>1, <1>2, WriteAdvances
<1>4. TypeOK'
  BY <1>3 DEF IInv, TypeOK
<1>5. PlacesAccounted'
  <2>1. poster[p] \in Promising /\ "signal" \notin Promising
    BY DEF Promising
  <2>2. Cardinality(Promised)' = Cardinality(Promised) - 1
    BY <2>1, PromisesAfter DEF IInv
  <2> QED BY <1>3, <2>2, Numbers DEF IInv, PlacesAccounted
<1>6. LockHeld' /\ NeverFull' /\ NoLostWakeup'
  BY DEF IInv, TypeOK, LockHeld, NeverFull, NoLostWakeup, Inside
<1>7. PostingKnown'
  <2>1. ASSUME NEW q \in Poster
        PROVE  poster'[q] # "index"
    BY <2>1 DEF IInv, TypeOK, LockHeld, Inside
  <2> QED BY <2>1 DEF IInv, TypeOK, PostingKnown
<1>8. RingFilled'
  <2>1. Used \in Nat /\ Place(Used + 1) = writeIndex
    BY <1>1, RingPlaces, SizeAssumption
  <2>2. ASSUME NEW i \in 1 .. Used + 1
        PROVE  ring[Place(i)] \in Event
    <3>1. CASE i = Used + 1
      BY <1>1, <2>1, <3>1
    <3>2. CASE i # Used + 1
      <4>1. i \in 1 .. Used
        BY <2>1, <3>2
      <4> QED BY <4>1 DEF IInv, RingFilled
    <3> QED BY <3>1, <3>2
  <2> QED BY <1>3, <2>2 DEF RingFilled
<1>9. WorkerHasEvent'
  BY <1>3 DEF IInv, WorkerHasEvent
<1> QED BY <1>4, <1>5, <1>6, <1>7, <1>8, <1>9 DEF IInv

LEMMA SignalAndUnlockStep ==
    ASSUME IInv, NEW p \in Poster, SignalAndUnlock(p)
    PROVE  IInv'
<1> USE DEF SignalAndUnlock, workVars
<1>1. poster[p] = "signal" /\ wakeup' = TRUE
  BY DEF IInv, NeverFull
<1>2. TypeOK'
  BY <1>1 DEF IInv, TypeOK
<1>3. PlacesAccounted'
  <2>1. Used' = Used
    BY IndicesStay
  <2>2. poster[p] \notin Promising /\ "idle" \notin Promising
    BY <1>1 DEF Promising
  <2>3. Cardinality(Promised)' = Cardinality(Promised)
    BY <2>2, PromisesAfter DEF IInv
  <2> QED BY <2>1, <2>3 DEF IInv, PlacesAccounted
<1>4. LockHeld'
  BY <1>1 DEF IInv, TypeOK, LockHeld, Inside
<1>5. NeverFull' /\ PostingKnown' /\ NoLostWakeup'
  BY <1>1 DEF IInv, TypeOK, NeverFull, PostingKnown, NoLostWakeup
<1> QED BY <1>2, <1>3, <1>4, <1>5, WorkerFrame DEF IInv

-----------------------------------------------------------------------------
(***************************************************************************)
(* The steps of the slot's thread, and of the destructor.                  *)
(***************************************************************************)

(* What does not look at the thread, when the indices and the ring stay. *)
LEMMA PosterFrame ==
    ASSUME IInv, UNCHANGED <<ring, readIndex, writeIndex, postVars>>
    PROVE  /\ LockHeld' /\ NeverFull' /\ PostingKnown' /\ RingFilled'
           /\ Used' = Used /\ (IsEmpty' <=> IsEmpty)
           /\ Cardinality(Promised)' = Cardinality(Promised)
<1>1. Used' = Used /\ (IsEmpty' <=> IsEmpty) /\ \A i : Place(i)' = Place(i)
  BY IndicesStay
<1>2. RingFilled'
  BY <1>1 DEF IInv, RingFilled
<1>3. LockHeld' /\ NeverFull' /\ PostingKnown'
  BY DEF IInv, LockHeld, NeverFull, PostingKnown, postVars
<1>4. Promised' = Promised
  BY DEF Promised, postVars
<1> QED BY <1>1, <1>2, <1>3, <1>4

LEMMA TestEmptyStep ==
    ASSUME IInv, TestEmpty
    PROVE  IInv'
<1> USE DEF TestEmpty, ringVars, postVars
<1>1. TypeOK'
  BY DEF IInv, TypeOK
<1>2. PlacesAccounted'
  BY PosterFrame DEF IInv, PlacesAccounted
<1>3. WorkerHasEvent' /\ NoLostWakeup'
  BY PosterFrame DEF IInv, WorkerHasEvent, NoLostWakeup
<1> QED BY <1>1, <1>2, <1>3, PosterFrame DEF IInv

LEMMA SleepStep ==
    ASSUME IInv, Sleep
    PROVE  IInv'
<1> USE DEF Sleep, postVars
<1>1. TypeOK'
  BY DEF IInv, TypeOK
<1>2. PlacesAccounted'
  BY PosterFrame DEF IInv, PlacesAccounted
<1>3. WorkerHasEvent' /\ NoLostWakeup'
  BY PosterFrame DEF IInv, WorkerHasEvent, NoLostWakeup
<1> QED BY <1>1, <1>2, <1>3, PosterFrame DEF IInv

LEMMA ReadEventStep ==
    ASSUME IInv, ReadEvent
    PROVE  IInv'
<1> USE DEF ReadEvent, ringVars, postVars
<1>1. /\ readIndex \in Index /\ writeIndex \in Index
      /\ ring \in [Index -> Event \cup {NoEvent}] /\ ~ IsEmpty
  BY DEF IInv, TypeOK, WorkerHasEvent
<1>2. TypeOK'
  BY <1>1 DEF IInv, TypeOK
<1>3. PlacesAccounted'
  BY PosterFrame DEF IInv, PlacesAccounted
<1>4. WorkerHasEvent' /\ NoLostWakeup'
  BY <1>1, PosterFrame DEF WorkerHasEvent, NoLostWakeup
<1> QED BY <1>2, <1>3, <1>4, PosterFrame DEF IInv

LEMMA AdvanceReadStep ==
    ASSUME IInv, AdvanceRead
    PROVE  IInv'
<1> USE DEF AdvanceRead, postVars
<1>1. /\ readIndex \in Index /\ writeIndex \in Index
      /\ ~ IsEmpty /\ current = ring[readIndex]
  BY DEF IInv, TypeOK, WorkerHasEvent
<1>2. /\ readIndex' \in Index /\ Used' = Used - 1
      /\ \A i \in 1 .. Used - 1 : Place(i)' = Place(i + 1)
  BY <1>1, ReadAdvances
<1>3. Used \in Nat /\ Used # 0 /\ Place(1) = readIndex
  BY <1>1, RingPlaces, SizeAssumption
<1>4. TypeOK'
  BY <1>2 DEF IInv, TypeOK
<1>5. PlacesAccounted'
  <2>1. Cardinality(Promised)' = Cardinality(Promised)
    BY DEF Promised
  <2> QED BY <1>2, <2>1, Numbers DEF IInv, PlacesAccounted
<1>6. LockHeld' /\ NeverFull' /\ PostingKnown' /\ NoLostWakeup'
  BY DEF IInv, LockHeld, NeverFull, PostingKnown, NoLostWakeup
<1>7. RingFilled'
  <2>1. ASSUME NEW i \in 1 .. Used - 1
        PROVE  ring[Place(i + 1)] \in Event
    <3>1. i + 1 \in 1 .. Used
      BY <1>3
    <3> QED BY <3>1 DEF IInv, RingFilled
  <2> QED BY <1>2, <2>1 DEF RingFilled
<1>8. WorkerHasEvent'
  <2>1. ring[Place(1)] \in Event
    BY <1>3 DEF IInv, RingFilled
  <2> QED BY <1>1, <1>3, <2>1, EventAssumption DEF WorkerHasEvent
<1> QED BY <1>4, <1>5, <1>6, <1>7, <1>8 DEF IInv

LEMMA ReleaseSlotStep ==
    ASSUME IInv, ReleaseSlot
    PROVE  IInv'
<1> USE DEF ReleaseSlot, postVars
<1>1. sem + Cardinality(Promised) + Used + 1 = Size - 1
  BY DEF IInv, PlacesAccounted
<1>2. sem' = sem + 1 /\ sem' \in 0 .. Size - 1
  BY <1>1, Numbers, SizeAssumption DEF IInv
<1>3. TypeOK'
  BY <1>2 DEF IInv, TypeOK
<1>4. PlacesAccounted'
  BY <1>1, <1>2, PosterFrame, Numbers DEF IInv, PlacesAccounted
<1>5. WorkerHasEvent' /\ NoLostWakeup'
  BY PosterFrame DEF IInv, WorkerHasEvent, NoLostWakeup
<1> QED BY <1>3, <1>4, <1>5, PosterFrame DEF IInv

LEMMA HandleEventStep ==
    ASSUME IInv, HandleEvent
    PROVE  IInv'
<1> USE DEF HandleEvent, ringVars, postVars
<1>1. TypeOK'
  BY DEF IInv, TypeOK
<1>2. PlacesAccounted'
  BY PosterFrame DEF IInv, PlacesAccounted
<1>3. WorkerHasEvent' /\ NoLostWakeup'
  BY PosterFrame DEF IInv, WorkerHasEvent, NoLostWakeup
<1> QED BY <1>1, <1>2, <1>3, PosterFrame DEF IInv

LEMMA TerminateStep ==
    ASSUME IInv, Terminate
    PROVE  IInv'
<1> USE DEF Terminate, postVars
<1>1. TypeOK'
  BY DEF IInv, TypeOK
<1>2. PlacesAccounted'
  BY PosterFrame DEF IInv, PlacesAccounted
<1>3. WorkerHasEvent' /\ NoLostWakeup'
  BY PosterFrame DEF IInv, WorkerHasEvent, NoLostWakeup
<1> QED BY <1>1, <1>2, <1>3, PosterFrame DEF IInv

-----------------------------------------------------------------------------
(* Every step. *)
LEMMA StepInvariant == IInv /\ [Next]_vars => IInv'
<1> SUFFICES ASSUME IInv, [Next]_vars PROVE IInv'
  OBVIOUS
<1>1. ASSUME NEW p \in Poster, NEW e \in Event, PostEvent(p, e) PROVE IInv'
  BY <1>1, PostEventStep
<1>2. ASSUME NEW p \in Poster, PosterStep(p) PROVE IInv'
  BY <1>2, WaitEmptySlotStep, LockAndTestStep, WriteEventStep, AdvanceWriteStep,
     SignalAndUnlockStep DEF PosterStep
<1>3. CASE WorkerStep
  BY <1>3, TestEmptyStep, SleepStep, ReadEventStep, AdvanceReadStep, ReleaseSlotStep,
     HandleEventStep DEF WorkerStep
<1>4. CASE Terminate
  BY <1>4, TerminateStep
<1>5. CASE UNCHANGED vars
  <2> USE <1>5 DEF vars, ringVars, postVars, workVars
  <2>1. TypeOK'
    BY DEF IInv, TypeOK
  <2>2. PlacesAccounted' /\ NoLostWakeup'
    BY PosterFrame DEF IInv, PlacesAccounted, NoLostWakeup
  <2>3. WorkerHasEvent'
    BY WorkerFrame
  <2> QED BY <2>1, <2>2, <2>3, PosterFrame DEF IInv
<1> QED BY <1>1, <1>2, <1>3, <1>4, <1>5 DEF Next

(* The invariant holds in every reachable state. *)
THEOREM InductiveInvariant == Spec => []IInv
BY InitInvariant, StepInvariant, PTL DEF Spec

(* Every variable has its type. *)
THEOREM TypeCorrect == Spec => []TypeOK
<1>1. IInv => TypeOK
  BY DEF IInv
<1> QED BY <1>1, InductiveInvariant, PTL

(***************************************************************************)
(* Every place of the ring but one is counted by the semaphore, promised   *)
(* to a poster, holds an event or is about to be given back (PostEvent     *)
(* and ThreadRun, whatever the size of the ring).                          *)
(***************************************************************************)
THEOREM EveryPlaceAccounted == Spec => []PlacesAccounted
<1>1. IInv => PlacesAccounted
  BY DEF IInv
<1> QED BY <1>1, InductiveInvariant, PTL

(* PostEvent never comes to its ASSERT(FALSE) for a full ring. *)
THEOREM RingNeverFull == Spec => []NeverFull
<1>1. IInv => NeverFull
  BY DEF IInv
<1> QED BY <1>1, InductiveInvariant, PTL

(***************************************************************************)
(* The thread of the slot reads, without the lock, a place that holds an   *)
(* event and that no poster is writing.                                    *)
(***************************************************************************)
THEOREM UnlockedReadIsStable == Spec => []ReadIsStable
<1>1. IInv => ReadIsStable
  <2> SUFFICES ASSUME IInv, worker \in {"read", "advance"}
               PROVE  /\ ring[readIndex] # NoEvent
                      /\ worker = "advance" => current = ring[readIndex]
                      /\ writeIndex # readIndex
    BY DEF ReadIsStable
  <2>1. ~ IsEmpty /\ (worker = "advance" => current = ring[readIndex])
    BY DEF IInv, WorkerHasEvent
  <2>2. readIndex \in Index /\ writeIndex \in Index
    BY DEF IInv, TypeOK
  <2>3. Used \in Nat /\ Used # 0 /\ Place(1) = readIndex
    BY <2>1, <2>2, RingPlaces, SizeAssumption
  <2>4. ring[Place(1)] \in Event
    BY <2>3 DEF IInv, RingFilled
  <2> QED BY <2>1, <2>3, <2>4, EventAssumption DEF IsEmpty
<1> QED BY <1>1, InductiveInvariant, PTL

(***************************************************************************)
(* The thread never sleeps on a ring with events unless it is about to be  *)
(* woken: the signal follows the move of the write index.                  *)
(***************************************************************************)
THEOREM WakeupNeverLost == Spec => []NoLostWakeup
<1>1. IInv => NoLostWakeup
  BY DEF IInv
<1> QED BY <1>1, InductiveInvariant, PTL

-----------------------------------------------------------------------------
(***************************************************************************)
(* The ring implements the channel.                                        *)
(***************************************************************************)
LEMMA EventsInRing ==
    ASSUME TypeOK, RingFilled
    PROVE  /\ Events \in Seq(Event) /\ Used \in Nat /\ Len(Events) = Used
           /\ \A i \in 1 .. Used : Events[i] = ring[Place(i)]
<1>1. Used \in Nat
  BY RingPlaces, SizeAssumption DEF TypeOK
<1>2. Events \in [1 .. Used -> Event]
  BY DEF Events, RingFilled
<1>3. Events \in Seq(Event)
  BY <1>1, <1>2, SeqDef
<1>4. Len(Events) \in Nat /\ DOMAIN Events = 1 .. Len(Events)
  BY <1>3, LenProperties
<1>5. Len(Events) = Used
  BY <1>1, <1>2, <1>4
<1> QED BY <1>1, <1>3, <1>5 DEF Events

(* What moves neither the indices, the ring nor the thread's event. *)
LEMMA ChannelStutter ==
    ASSUME Events' = Events, Handling' = Handling
    PROVE  [Channel!Next]_Channel!vars
BY DEF Channel!vars

LEMMA EventsStay ==
    ASSUME UNCHANGED <<ring, readIndex, writeIndex>>
    PROVE  Events' = Events
BY IndicesStay DEF Events

LEMMA WriteIsInvisible ==
    ASSUME IInv, NEW p \in Poster, WriteEvent(p)
    PROVE  Events' = Events /\ Handling' = Handling
<1>1. \A i \in 1 .. Used : Place(i) \in Index /\ Place(i) # writeIndex
  BY RingPlaces DEF IInv, TypeOK
<1>2. \A i \in 1 .. Used : ring'[Place(i)] = ring[Place(i)]
  BY <1>1 DEF WriteEvent, IInv, TypeOK
<1>3. Used' = Used /\ \A i : Place(i)' = Place(i)
  BY IndicesStay DEF WriteEvent
<1>4. Events' = Events
  BY <1>2, <1>3 DEF Events
<1>5. Handling' = Handling
  BY DEF Handling, WriteEvent, workVars
<1> QED BY <1>4, <1>5

LEMMA AdvanceWritePosts ==
    ASSUME IInv, IInv', NEW p \in Poster, AdvanceWrite(p)
    PROVE  Channel!Next
<1> DEFINE E == Events
           F == Events'
           e == posting[p]
           n == Used
<1>1. /\ readIndex \in Index /\ writeIndex \in Index
      /\ e \in Event /\ ring[writeIndex] = e
      /\ writeIndex' = IncIndex(writeIndex) /\ readIndex' = readIndex /\ ring' = ring
  BY DEF AdvanceWrite, IInv, TypeOK, PostingKnown
<1>2. ~ IsFull /\ Used < Size - 1
  BY PromiseLeavesRoom DEF AdvanceWrite, Promised, IInv
<1>3. Used' = n + 1 /\ \A i \in 1 .. n + 1 : Place(i)' = Place(i)
  BY <1>1, <1>2, WriteAdvances
<1>4. E \in Seq(Event) /\ n \in Nat /\ Len(E) = n /\ \A i \in 1 .. n : E[i] = ring[Place(i)]
  BY EventsInRing DEF IInv
<1>5. (TypeOK /\ RingFilled =>
        /\ Events \in Seq(Event) /\ Len(Events) = Used
        /\ \A i \in 1 .. Used : Events[i] = ring[Place(i)])'
  BY EventsInRing, PTL
<1>6. F \in Seq(Event) /\ Len(F) = n + 1 /\ \A i \in 1 .. n + 1 : F[i] = ring[Place(i)]
  BY <1>1, <1>3, <1>5 DEF IInv
<1>7. F[n + 1] = e
  BY <1>1, <1>4, <1>6, RingPlaces
<1>8. Handling' = Handling
  BY DEF Handling, AdvanceWrite, workVars
<1>9. n < Size - 1
  BY <1>2
<1> HIDE DEF E, F, e, n
<1>10. F = Append(E, e)
  <2>1. /\ Append(E, e) \in Seq(Event) /\ Len(Append(E, e)) = n + 1
        /\ \A i \in 1 .. n : Append(E, e)[i] = E[i]
        /\ Append(E, e)[n + 1] = e
    BY <1>1, <1>4, AppendProperties
  <2>2. \A i \in 1 .. n + 1 : F[i] = Append(E, e)[i]
    <3>1. ASSUME NEW i \in 1 .. n + 1
          PROVE  i = n + 1 \/ i \in 1 .. n
      BY <1>4
    <3> QED BY <1>4, <1>6, <1>7, <2>1, <3>1
  <2> QED BY <1>6, <2>1, <2>2, SeqEqual
<1>11. Channel!Post(e)
  BY <1>4, <1>8, <1>9, <1>10 DEF Channel!Post, E, F
<1> QED BY <1>1, <1>11 DEF Channel!Next

LEMMA AdvanceReadTakes ==
    ASSUME IInv, IInv', AdvanceRead
    PROVE  Channel!Next
<1> DEFINE E == Events
           F == Events'
           n == Used
<1>1. /\ readIndex \in Index /\ writeIndex \in Index
      /\ ~ IsEmpty /\ current = ring[readIndex]
      /\ readIndex' = IncIndex(readIndex) /\ writeIndex' = writeIndex /\ ring' = ring
  BY DEF AdvanceRead, IInv, TypeOK, WorkerHasEvent
<1>2. Used' = n - 1 /\ \A i \in 1 .. n - 1 : Place(i)' = Place(i + 1)
  BY <1>1, ReadAdvances
<1>3. E \in Seq(Event) /\ n \in Nat /\ Len(E) = n /\ \A i \in 1 .. n : E[i] = ring[Place(i)]
  BY EventsInRing DEF IInv
<1>4. (TypeOK /\ RingFilled =>
        /\ Events \in Seq(Event) /\ Len(Events) = Used
        /\ \A i \in 1 .. Used : Events[i] = ring[Place(i)])'
  BY EventsInRing, PTL
<1>5. F \in Seq(Event) /\ Len(F) = n - 1 /\ \A i \in 1 .. n - 1 : F[i] = ring[Place(i + 1)]
  BY <1>1, <1>2, <1>4 DEF IInv
<1>6. n # 0 /\ Place(1) = readIndex
  BY <1>1, RingPlaces
<1>7. E[1] = current
  BY <1>1, <1>3, <1>6
<1>8. Handling = NoEvent /\ Handling' = current
  BY DEF Handling, AdvanceRead
<1>9. \A i \in 1 .. n - 1 : E[i + 1] = ring[Place(i + 1)]
  BY <1>3
<1> HIDE DEF E, F, n
<1>10. E # <<>>
  BY <1>3, <1>6, EmptySeq
<1>11. F = Tail(E)
  <2>1. /\ Tail(E) \in Seq(Event) /\ Len(Tail(E)) = n - 1
        /\ \A i \in 1 .. n - 1 : Tail(E)[i] = E[i + 1]
    BY <1>3, <1>10, HeadTailProperties
  <2>2. \A i \in 1 .. n - 1 : F[i] = Tail(E)[i]
    BY <1>5, <1>9, <2>1
  <2> QED BY <1>5, <2>1, <2>2, SeqEqual
<1>12. Head(E) = E[1]
  OBVIOUS
<1>13. Channel!Take
  BY <1>7, <1>8, <1>10, <1>11, <1>12 DEF Channel!Take, E, F
<1> QED BY <1>13 DEF Channel!Next

LEMMA HandleEventIsDone ==
    ASSUME IInv, HandleEvent
    PROVE  Channel!Next
<1>1. Events' = Events
  BY EventsStay DEF HandleEvent, ringVars
<1>2. Handling # NoEvent /\ Handling' = NoEvent
  BY DEF HandleEvent, Handling, IInv, WorkerHasEvent
<1>3. Channel!Done
  BY <1>1, <1>2 DEF Channel!Done
<1> QED BY <1>3 DEF Channel!Next

LEMMA ChannelStep ==
    ASSUME IInv, IInv', [Next]_vars
    PROVE  [Channel!Next]_Channel!vars
<1>1. ASSUME NEW p \in Poster, AdvanceWrite(p) PROVE Channel!Next
  BY <1>1, AdvanceWritePosts
<1>2. ASSUME NEW p \in Poster, WriteEvent(p) PROVE [Channel!Next]_Channel!vars
  BY <1>2, WriteIsInvisible, ChannelStutter
<1>3. ASSUME NEW p \in Poster,
             \/ \E e \in Event : PostEvent(p, e)
             \/ WaitEmptySlot(p) \/ LockAndTest(p) \/ SignalAndUnlock(p)
      PROVE  [Channel!Next]_Channel!vars
  <2>1. UNCHANGED <<ring, readIndex, writeIndex, worker, current>>
    BY <1>3 DEF PostEvent, WaitEmptySlot, LockAndTest, SignalAndUnlock, ringVars, workVars
  <2>2. Handling' = Handling
    BY <2>1 DEF Handling
  <2> QED BY <2>1, <2>2, EventsStay, ChannelStutter
<1>4. CASE AdvanceRead
  BY <1>4, AdvanceReadTakes
<1>5. CASE HandleEvent
  BY <1>5, HandleEventIsDone
<1>6. CASE TestEmpty \/ Sleep \/ ReadEvent \/ ReleaseSlot \/ Terminate \/ UNCHANGED vars
  <2>1. UNCHANGED <<ring, readIndex, writeIndex>>
    BY <1>6 DEF TestEmpty, Sleep, ReadEvent, ReleaseSlot, Terminate, vars, ringVars
  <2>2. Handling' = Handling
    BY <1>6 DEF TestEmpty, Sleep, ReadEvent, ReleaseSlot, Terminate, vars, workVars, Handling
  <2> QED BY <2>1, <2>2, EventsStay, ChannelStutter
<1> QED BY <1>1, <1>2, <1>3, <1>4, <1>5, <1>6 DEF Next, PosterStep, WorkerStep

(***************************************************************************)
(* The channel of a slot: events are handled one at a time, in the order   *)
(* in which they were posted, none lost, none twice, and never more of     *)
(* them wait than the ring has room for, for any number of threads that    *)
(* post and any size of the ring.                                          *)
(***************************************************************************)
THEOREM RingImplementsChannel == Spec => ChannelSpec
<1>1. Init => Channel!Init
  <2> SUFFICES ASSUME Init PROVE Events = <<>> /\ Handling = NoEvent
    BY DEF Channel!Init
  <2>1. IInv
    BY InitInvariant
  <2>2. IsEmpty /\ Used = 0
    BY <2>1, RingPlaces DEF Init, IsEmpty, IInv, TypeOK
  <2>3. Events \in Seq(Event) /\ Len(Events) = 0
    BY <2>1, <2>2, EventsInRing DEF IInv
  <2>4. Events = <<>>
    BY <2>3, EmptySeq
  <2> QED BY <2>4 DEF Init, Handling
<1>2. IInv /\ IInv' /\ [Next]_vars => [Channel!Next]_Channel!vars
  BY ChannelStep
<1> QED BY <1>1, <1>2, InductiveInvariant, PTL DEF Spec, ChannelSpec, Channel!Spec
=============================================================================
