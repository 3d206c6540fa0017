-------------------------- MODULE SDRequestService --------------------------
(***************************************************************************)
(* What the request queue of a slot promises to the clients of the bus     *)
(* driver, without locks, controller, retries or threads: accepted         *)
(* requests wait in a line, only the first one can come to an end by       *)
(* itself, the others only by being cancelled, and the outcome of a        *)
(* request is decided once and stays until its memory is used again.       *)
(***************************************************************************)
EXTENDS Sequences, SequencesExt

CONSTANTS Request, Outcome, Failed

VARIABLES
    pending,    \* accepted requests without an outcome, oldest first
    outcome     \* the outcome of each request, "none" before there is one

vars == <<pending, outcome>>

Init ==
    /\ pending = <<>>
    /\ outcome = [r \in Request |-> "none"]

IsNew(r) == r \notin ToSet(pending) /\ outcome[r] = "none"

Accept(r) ==
    /\ IsNew(r)
    /\ pending' = Append(pending, r)
    /\ UNCHANGED outcome

Refuse(r) ==
    /\ IsNew(r)
    /\ \E o \in Failed : outcome' = [outcome EXCEPT ![r] = o]
    /\ UNCHANGED pending

Finish ==
    /\ pending # <<>>
    /\ \E o \in Outcome : outcome' = [outcome EXCEPT ![Head(pending)] = o]
    /\ pending' = Tail(pending)

Withdraw(i) ==
    /\ outcome' = [outcome EXCEPT ![pending[i]] = "CANCELED"]
    /\ pending' = RemoveAt(pending, i)

(* Detach cancels everybody at once, with or without the first in line. *)
Flush(keep) ==
    /\ keep < Len(pending)
    /\ outcome' = [r \in Request |->
                     IF \E i \in keep + 1 .. Len(pending) : pending[i] = r
                       THEN "CANCELED" ELSE outcome[r]]
    /\ pending' = SubSeq(pending, 1, keep)

Forget(r) ==
    /\ outcome[r] # "none"
    /\ outcome' = [outcome EXCEPT ![r] = "none"]
    /\ UNCHANGED pending

Next ==
    \/ \E r \in Request : Accept(r) \/ Refuse(r) \/ Forget(r)
    \/ Finish
    \/ \E i \in 2 .. Len(pending) : Withdraw(i)
    \/ \E keep \in {0, 1} : Flush(keep)

Spec == Init /\ [][Next]_vars
=============================================================================
