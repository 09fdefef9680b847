------------------------ MODULE EnrollmentRefinement ------------------------
(***************************************************************************)
(* Enrollment implements SeatAllocation: the holders of a section are the  *)
(* students whose enrollment consumes a seat, its queue is the ACTIVE      *)
(* waitlist rows in the order of their positions.                          *)
(***************************************************************************)
EXTENDS Enrollment

SeatsOf == [c \in Section |-> SeatHolders(enrollment, c)]

QueueOf ==
  [c \in Section |->
     [i \in 1..Cardinality(Active(c)) |->
        CHOOSE s \in Active(c) : position[c][s] = i]]

Allocation == INSTANCE SeatAllocation WITH holders <- SeatsOf, queue <- QueueOf

(* Every step of the service is a step the abstract allocation allows, or a *)
(* stuttering one: first come, first served, and never an extra seat.       *)
ImplementsSeatAllocation == Allocation!Spec
=============================================================================
