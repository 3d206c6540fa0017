--------------------------- MODULE SDEventChannel ---------------------------
(***************************************************************************)
(* What the event channel of a slot promises: a bounded line of events,    *)
(* handled one at a time in the order in which they were posted.  None is  *)
(* lost, handled twice or overwritten.                                     *)
(***************************************************************************)
EXTENDS Naturals, Sequences

CONSTANTS Event, NoEvent, Capacity

VARIABLES
    events,     \* posted and not yet taken
    handling    \* the event being handled, or NoEvent

vars == <<events, handling>>

Init == events = <<>> /\ handling = NoEvent

Post(e) ==
    /\ Len(events) < Capacity
    /\ events' = Append(events, e)
    /\ UNCHANGED handling

Take ==
    /\ handling = NoEvent
    /\ events # <<>>
    /\ handling' = Head(events)
    /\ events' = Tail(events)

Done ==
    /\ handling # NoEvent
    /\ handling' = NoEvent
    /\ UNCHANGED events

Next == (\E e \in Event : Post(e)) \/ Take \/ Done

Spec == Init /\ [][Next]_vars
=============================================================================
