---------------------------- MODULE ReaderContract ----------------------------
(***************************************************************************)
(* What the decomposer relies on when it reads one container level:        *)
(* entries and members in order, one member in flight at a time, its bytes *)
(* exactly as many as announced and reported at its end, and no end of the *)
(* container inside a member.                                              *)
(***************************************************************************)
EXTENDS ReaderEvents

VARIABLES
  events,   \* what the last call reported
  member,   \* the member in flight
  phase     \* "reading", "ended" or "faulted"

Init ==
  /\ events = <<>>
  /\ member = Idle(0)
  /\ phase = "reading"

Report ==
  /\ phase = "reading" /\ phase' \in {"reading", "ended"}
  /\ LET around == Along(member, events') IN
     /\ \A i \in DOMAIN events' : Admits(around[i - 1], events'[i])
     /\ member' = around[Len(events')]
  /\ phase' = "ended" => ~member'.open

\* The container is refused; the member in flight never ends.
Fault ==
  /\ phase = "reading" /\ phase' = "faulted"
  /\ events' = <<>> /\ UNCHANGED member

Next == Report \/ Fault

Spec == Init /\ [][Next]_<<events, member, phase>>
==============================================================================
