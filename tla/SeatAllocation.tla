--------------------------- MODULE SeatAllocation ---------------------------
(***************************************************************************)
(* What seat allocation promises to a caller of the academic service,      *)
(* with rows, statuses, counters and positions forgotten: every section    *)
(* has a set of seat holders, a first-come first-served queue of waiting   *)
(* students and a capacity that only the administration changes.           *)
(*                                                                         *)
(*   - a seat is only ever given while one is free;                        *)
(*   - a student joins the queue at its tail, and only when the section is *)
(*     full;                                                               *)
(*   - a released seat is handed over along the queue: what is consumed is *)
(*     a prefix of it, so nobody is passed by a student who waited behind; *)
(*   - only staff may pick a student out of turn.                          *)
(*                                                                         *)
(* Enrollment.tla is shown to implement this module.                       *)
(***************************************************************************)
EXTENDS Integers, FiniteSets, Sequences, SequencesExt

CONSTANTS Student, Section

VARIABLES
  holders,    \* [Section -> SUBSET Student]: who has a seat
  queue,      \* [Section -> Seq(Student)]: who waits, in order
  capacity    \* [Section -> Nat]

allocVars == <<holders, queue, capacity>>

Waiting(c) == ToSet(queue[c])

Free(c) == Cardinality(holders[c]) < capacity[c]

Init ==
  /\ holders = [c \in Section |-> {}]
  /\ queue = [c \in Section |-> << >>]
  /\ capacity \in [Section -> Nat]

(* A newcomer takes a free seat. *)
Admit(c, s) ==
  /\ s \notin holders[c] \cup Waiting(c)
  /\ Free(c)
  /\ holders' = [holders EXCEPT ![c] = @ \cup {s}]
  /\ UNCHANGED <<queue, capacity>>

(* A newcomer finds the section full and waits behind everybody else. *)
Join(c, s) ==
  /\ s \notin holders[c] \cup Waiting(c)
  /\ ~Free(c)
  /\ queue' = [queue EXCEPT ![c] = Append(@, s)]
  /\ UNCHANGED <<holders, capacity>>

(* A holder leaves.  A prefix of the queue is consumed; of the students in *)
(* it some are seated, within the capacity, and the others dismissed.      *)
Release(c, s) ==
  /\ s \in holders[c]
  /\ \E k \in 0..Len(queue[c]) :
       \E seated \in SUBSET ToSet(SubSeq(queue[c], 1, k)) :
         /\ seated # {} => Cardinality(holders[c] \ {s}) + Cardinality(seated) <= capacity[c]
         /\ holders' = [holders EXCEPT ![c] = (@ \ {s}) \cup seated]
         /\ queue' = [queue EXCEPT ![c] = SubSeq(@, k + 1, Len(@))]
  /\ UNCHANGED capacity

(* Staff give a free seat to a waiting student of their choice. *)
Pick(c, s) ==
  /\ Free(c)
  /\ holders' = [holders EXCEPT ![c] = @ \cup {s}]
  /\ \E i \in DOMAIN queue[c] : queue[c][i] = s /\ queue' = [queue EXCEPT ![c] = RemoveAt(@, i)]
  /\ UNCHANGED capacity

(* A waiting student gives up, or is taken off the queue. *)
Withdraw(c, s) ==
  /\ \E i \in DOMAIN queue[c] : queue[c][i] = s /\ queue' = [queue EXCEPT ![c] = RemoveAt(@, i)]
  /\ UNCHANGED <<holders, capacity>>

(* The administration resizes a section, possibly below its holders. *)
Resize(c) ==
  /\ capacity'[c] \in Nat
  /\ capacity' = [capacity EXCEPT ![c] = capacity'[c]]
  /\ UNCHANGED <<holders, queue>>

Next ==
  \E c \in Section :
    \/ Resize(c)
    \/ \E s \in Student :
         Admit(c, s) \/ Join(c, s) \/ Release(c, s) \/ Pick(c, s) \/ Withdraw(c, s)

Spec == Init /\ [][Next]_allocVars
=============================================================================
