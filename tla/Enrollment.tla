----------------------------- MODULE Enrollment -----------------------------
(***************************************************************************)
(* EnrollmentsService and WaitlistService of academic-service: enrolling,  *)
(* dropping, the waitlist and its promotions, and the administration's     *)
(* edits of an enrollment and of a section.                                *)
(*                                                                         *)
(* Every mutation runs in one PostgreSQL SERIALIZABLE transaction that     *)
(* also locks the section's row (withSerializableTransaction,              *)
(* lockSection), so a committed operation is one atomic step.  One that    *)
(* throws, or that loses to a conflict three times, rolls back and leaves  *)
(* no trace: it is a stuttering step and has no action here.               *)
(*                                                                         *)
(* @@unique([studentId, sectionId]) makes an enrollment, and a waitlist    *)
(* row, a function of its section and student.                             *)
(***************************************************************************)
EXTENDS Integers, FiniteSets, FiniteSetsExt

CONSTANTS
  Student, Section, Semester, Course,
  SemesterOf,          \* [Section -> Semester]
  CourseOf,            \* [Section -> Course]
  Prerequisites,       \* [Course -> SUBSET Course]
  Credits,             \* [Course -> Nat]
  Overlapping,         \* sets {c, d} of sections whose schedules overlap
  MaxCredits,          \* [Section -> Nat], 0 when the column is null or zero
  DefaultMaxCredits,   \* the 21 of assertCreditLimit
  RegistrationStart, RegistrationEnd, AddDropStart, AddDropEnd,
                       \* [Semester -> Nat \cup {NoDate}]
  NoDate,              \* a date column that is null
  NoRow,               \* no row for this student and section
  Capacities,          \* bound: [Section -> the capacities the administration sets]
  Statuses,            \* bound: the section statuses the administration sets
  Targets,             \* bound: [Section -> the enrollment statuses the administration sets]
  MaxTime              \* bound: the last instant modelled

EnrollmentStatus == {"PENDING", "CONFIRMED", "DROPPED", "COMPLETED", "CANCELLED"}
WaitlistStatus == {"ACTIVE", "CONVERTED", "EXPIRED", "CANCELLED"}
SectionStatus == {"OPEN", "CLOSED"}
SeatConsuming == {"PENDING", "CONFIRMED", "COMPLETED"}
Droppable == {"PENDING", "CONFIRMED"}
Dates == 0..MaxTime \cup {NoDate}

ASSUME StudentAssumption == IsFiniteSet(Student)

ASSUME SectionAssumption == IsFiniteSet(Section)

ASSUME CatalogAssumption ==
  /\ SemesterOf \in [Section -> Semester]
  /\ CourseOf \in [Section -> Course]
  /\ Prerequisites \in [Course -> SUBSET Course]
  /\ Credits \in [Course -> Nat]
  /\ MaxCredits \in [Section -> Nat]
  /\ DefaultMaxCredits \in Nat

ASSUME DateAssumption ==
  /\ MaxTime \in Nat
  /\ NoDate \notin Nat
  /\ {RegistrationStart, RegistrationEnd, AddDropStart, AddDropEnd}
       \subseteq [Semester -> Dates]

ASSUME RowAssumption ==
  /\ Capacities \in [Section -> SUBSET Nat]
  /\ Statuses \subseteq SectionStatus
  /\ Targets \in [Section -> SUBSET EnrollmentStatus]
  /\ NoRow \notin EnrollmentStatus \cup WaitlistStatus

VARIABLES
  enrollment,      \* [Section -> [Student -> EnrollmentStatus or NoRow]]
  waitlist,        \* [Section -> [Student -> WaitlistStatus or NoRow]]
  position,        \* [Section -> [Student -> Nat]], 0 unless ACTIVE
  enrolledCount,   \* [Section -> Nat], the denormalised counter column
  capacity,        \* [Section -> Nat]
  status,          \* [Section -> SectionStatus]
  now,             \* the server's clock
  notices          \* the messages whose publication the last step starts once it has committed

rows == <<enrollment, waitlist, position, enrolledCount>>
sectionVars == <<capacity, status>>
vars == <<enrollment, waitlist, position, enrolledCount, capacity, status, now, notices>>

-----------------------------------------------------------------------------
(* Queries. *)

SeatHolders(enr, c) == {s \in Student : enr[c][s] \in SeatConsuming}

SeatsTaken(c) == Cardinality(SeatHolders(enrollment, c))

Active(c) == {s \in Student : waitlist[c][s] = "ACTIVE"}

(* Mutant: a seat counts as taken only once staff have confirmed it. *)
FullOnceConfirmed(c) ==
  Cardinality({s \in Student : enrollment[c][s] \in {"CONFIRMED", "COMPLETED"}}) >= capacity[c]

Full(c) == SeatsTaken(c) >= capacity[c]

Reached(date) == date # NoDate => now >= date
NotPassed(date) == date # NoDate => now <= date

WindowOpen(sem) ==
  /\ Reached(RegistrationStart[sem])
  /\ \/ NotPassed(RegistrationEnd[sem])
     \/ Reached(AddDropStart[sem]) /\ NotPassed(AddDropEnd[sem])

OpenForEnrollment(c) == status[c] = "OPEN" /\ WindowOpen(SemesterOf[c])

(* The student's seat-consuming enrollments in the semester of section c. *)
Timetable(enr, s, sem) ==
  {d \in Section : enr[d][s] \in SeatConsuming /\ SemesterOf[d] = sem}

Load(enr, s, sem) ==
  MapThenSumSet(LAMBDA d : Credits[CourseOf[d]], Timetable(enr, s, sem))

CreditLimit(c) == IF MaxCredits[c] = 0 THEN DefaultMaxCredits ELSE MaxCredits[c]

HasPrerequisites(enr, s, c) ==
  \A p \in Prerequisites[CourseOf[c]] :
    \E d \in Section : CourseOf[d] = p /\ enr[d][s] = "COMPLETED"

(* Mutant: only confirmed enrollments are compared. *)
FitsConfirmedTimetable(enr, s, c) ==
  \A d \in Timetable(enr, s, SemesterOf[c]) :
    enr[d][s] # "PENDING" => {c, d} \notin Overlapping

FitsTimetable(enr, s, c) ==
  \A d \in Timetable(enr, s, SemesterOf[c]) : {c, d} \notin Overlapping

WithinCreditLimit(enr, s, c) ==
  Load(enr, s, SemesterOf[c]) + Credits[CourseOf[c]] <= CreditLimit(c)

Eligible(enr, s, c) ==
  /\ HasPrerequisites(enr, s, c)
  /\ FitsTimetable(enr, s, c)
  /\ WithinCreditLimit(enr, s, c)

-----------------------------------------------------------------------------
(* The waitlist. *)

(* ROW_NUMBER() over the ACTIVE rows by position.  The tie breakers addedAt *)
(* and id are left out: positions never tie (QueueGapless).                 *)
Resequenced(active, pos) ==
  [s \in Student |->
     IF s \in active THEN Cardinality({t \in active : pos[t] <= pos[s]}) ELSE 0]

(* Mutant: the last position is taken to be the number of those who wait. *)
CountedPosition(c) == Cardinality(Active(c))

LastPosition(c) == IF Active(c) = {} THEN 0 ELSE Max({position[c][s] : s \in Active(c)})

WithoutRow(enr, c, s) == [enr EXCEPT ![c][s] = NoRow]

(* Of section c's rows, the enrollments become enr and the waitlist wl; the *)
(* counter is written and the waitlist renumbered.                          *)
Commit(c, enr, wl, count) ==
  /\ enrollment' = enr
  /\ waitlist' = [waitlist EXCEPT ![c] = wl]
  /\ position' = [position EXCEPT
       ![c] = Resequenced({s \in Student : wl[s] = "ACTIVE"}, position[c])]
  /\ enrolledCount' = [enrolledCount EXCEPT ![c] = count]

(* Mutant: the loop stops after one promotion. *)
OneFreeSeat(enr, c) ==
  IF OpenForEnrollment(c) /\ Cardinality(SeatHolders(enr, c)) < capacity[c] THEN 1 ELSE 0

(* The seats handleSeatAvailability may give away once the enrollments are enr. *)
FreeSeats(enr, c) ==
  LET taken == Cardinality(SeatHolders(enr, c)) IN
  IF OpenForEnrollment(c) /\ taken < capacity[c] THEN capacity[c] - taken ELSE 0

(* Mutant: a promotion trusts the check made when the student queued. *)
ClaimableUnchecked(enr, c, s) == enr[c][s] = NoRow

Claimable(enr, c, s) == enr[c][s] = NoRow /\ Eligible(enr, s, c)

(* Mutant: the waitlist is read in descending order. *)
ConsideredFromTail(enr, c) ==
  {s \in Active(c) :
     Cardinality({t \in Active(c) : position[c][t] > position[c][s] /\ Claimable(enr, c, t)})
       < FreeSeats(enr, c)}

(* Mutant: an ineligible student uses up one of the free seats. *)
ConsideredWithoutSkipping(enr, c) ==
  {s \in Active(c) :
     Cardinality({t \in Active(c) : position[c][t] < position[c][s]}) < FreeSeats(enr, c)}

(* The waiting students its loop reaches: those with fewer promotions ahead *)
(* of them than there are seats.                                            *)
Considered(enr, c) ==
  {s \in Active(c) :
     Cardinality({t \in Active(c) : position[c][t] < position[c][s] /\ Claimable(enr, c, t)})
       < FreeSeats(enr, c)}

Promoted(enr, c) == {s \in Considered(enr, c) : Claimable(enr, c, s)}

WithPromotions(enr, c) ==
  [enr EXCEPT ![c] = [s \in Student |-> IF s \in Promoted(enr, c) THEN "PENDING" ELSE @[s]]]

AfterPromotions(enr, c) ==
  [s \in Student |->
     CASE s \in Promoted(enr, c)               -> "CONVERTED"
       [] s \in Considered(enr, c) \ Promoted(enr, c) ->
            IF enr[c][s] = NoRow THEN "EXPIRED" ELSE "CANCELLED"
       [] OTHER                                -> waitlist[c][s]]

(* One notification: its template, whom it tells and of which section.  What *)
(* becomes of it after the commit is the matter of EnrollmentNotices.        *)
Notice(template, s, c) == [template |-> template, student |-> s, section |-> c]

(* Mutant: no message is started for the promoted students. *)
NoPromotionNotices(enr, c) == {}

(* The loop over promotedEnrollments, when the transaction has committed. *)
PromotionNotices(enr, c) == {Notice("enrollment.promoted", s, c) : s \in Promoted(enr, c)}

(* Mutant: the counter is synchronised before the promotions only. *)
HandOverWithoutResync(c, enr) ==
  Commit(c, WithPromotions(enr, c), AfterPromotions(enr, c), Cardinality(SeatHolders(enr, c)))

(* handleSeatAvailability, after a seat of c was released. *)
HandleSeatAvailability(c, enr) ==
  LET promoted == WithPromotions(enr, c) IN
  Commit(c, promoted, AfterPromotions(enr, c), Cardinality(SeatHolders(promoted, c)))

-----------------------------------------------------------------------------
(* Operations of students. *)

(* Mutant: only enrollment rows are looked for. *)
MayEnrollUnlessEnrolled(s, c) ==
  /\ OpenForEnrollment(c)
  /\ enrollment[c][s] = NoRow
  /\ Eligible(enrollment, s, c)

MayEnroll(s, c) ==
  /\ OpenForEnrollment(c)
  /\ enrollment[c][s] = NoRow
  /\ waitlist[c][s] = NoRow
  /\ Eligible(enrollment, s, c)

(* Mutant: the counter is incremented instead of recounted. *)
EnrollSeatedIncrementing(s, c) ==
  /\ MayEnroll(s, c)
  /\ ~Full(c)
  /\ enrollment' = [enrollment EXCEPT ![c][s] = "PENDING"]
  /\ enrolledCount' = [enrolledCount EXCEPT ![c] = @ + 1]
  /\ notices' = {Notice("enrollment.confirmed", s, c)}
  /\ UNCHANGED <<waitlist, position, capacity, status, now>>

(* enrollStudent, a seat is free. *)
EnrollSeated(s, c) ==
  /\ MayEnroll(s, c)
  /\ ~Full(c)
  /\ enrollment' = [enrollment EXCEPT ![c][s] = "PENDING"]
  /\ enrolledCount' = [enrolledCount EXCEPT ![c] = SeatsTaken(c) + 1]
  /\ notices' = {Notice("enrollment.confirmed", s, c)}
  /\ UNCHANGED <<waitlist, position, capacity, status, now>>

(* enrollStudent, the section is full. *)
EnrollWaitlisted(s, c) ==
  /\ MayEnroll(s, c)
  /\ Full(c)
  /\ waitlist' = [waitlist EXCEPT ![c][s] = "ACTIVE"]
  /\ position' = [position EXCEPT ![c][s] = LastPosition(c) + 1]
  /\ enrolledCount' = [enrolledCount EXCEPT ![c] = SeatsTaken(c)]
  /\ notices' = {Notice("enrollment.waitlisted", s, c)}
  /\ UNCHANGED <<enrollment, capacity, status, now>>

(* dropEnrollment: the row is deleted and the seat handed over. *)
DropEnrollment(s, c) ==
  LET without == WithoutRow(enrollment, c, s) IN
  /\ enrollment[c][s] \in Droppable
  /\ NotPassed(AddDropEnd[SemesterOf[c]])
  /\ HandleSeatAvailability(c, without)
  /\ notices' = {Notice("enrollment.dropped", s, c)} \cup PromotionNotices(without, c)
  /\ UNCHANGED <<capacity, status, now>>

(* Mutant: the rows behind a removed one keep their positions. *)
RemoveWithoutResequencing(s, c) ==
  /\ waitlist[c][s] # NoRow
  /\ waitlist' = [waitlist EXCEPT ![c][s] = NoRow]
  /\ position' = [position EXCEPT ![c][s] = 0]
  /\ notices' = {}
  /\ UNCHANGED <<enrollment, enrolledCount, capacity, status, now>>

(* removeWaitlistEntry, by its owner or by staff. *)
RemoveWaitlistEntry(s, c) ==
  LET wl == [waitlist[c] EXCEPT ![s] = NoRow] IN
  /\ waitlist[c][s] # NoRow
  /\ waitlist' = [waitlist EXCEPT ![c] = wl]
  /\ position' = IF s \in Active(c)
                 THEN [position EXCEPT ![c] = Resequenced(Active(c) \ {s}, @)]
                 ELSE position
  /\ notices' = {}
  /\ UNCHANGED <<enrollment, enrolledCount, capacity, status, now>>

-----------------------------------------------------------------------------
(* Operations of the administration. *)

(* promoteWaitlistEntry.  Its branch for a student who is enrolled already  *)
(* throws, which undoes the cancellation it has just written: no step.      *)
PromoteWaitlistEntry(s, c) ==
  /\ s \in Active(c)
  /\ OpenForEnrollment(c)
  /\ ~Full(c)
  /\ Claimable(enrollment, c, s)
  /\ Commit(c, [enrollment EXCEPT ![c][s] = "PENDING"],
               [waitlist[c] EXCEPT ![s] = "CONVERTED"], SeatsTaken(c) + 1)
  /\ notices' = {Notice("enrollment.promoted", s, c)}
  /\ UNCHANGED <<capacity, status, now>>

ValidTransitions(from) ==
  CASE from = "PENDING"   -> {"CONFIRMED", "CANCELLED"}
    [] from = "CONFIRMED" -> {"COMPLETED", "DROPPED", "CANCELLED"}
    [] OTHER              -> {}

(* update, to a status that keeps the seat. *)
UpdateKeepingSeat(s, c, next) ==
  /\ next \in ValidTransitions(enrollment[c][s]) \cap SeatConsuming
  /\ enrollment' = [enrollment EXCEPT ![c][s] = next]
  /\ notices' = {}
  /\ UNCHANGED <<waitlist, position, enrolledCount, capacity, status, now>>

(* update, to a status that gives the seat up. *)
UpdateReleasingSeat(s, c, next) ==
  LET updated == [enrollment EXCEPT ![c][s] = next] IN
  /\ next \in ValidTransitions(enrollment[c][s]) \ SeatConsuming
  /\ HandleSeatAvailability(c, updated)
  /\ notices' = PromotionNotices(updated, c)
       \cup {Notice("enrollment.dropped", s, c) : x \in {next} \cap {"DROPPED"}}
  /\ UNCHANGED <<capacity, status, now>>

(* remove, of a row that holds a seat. *)
RemoveSeated(s, c) ==
  LET without == WithoutRow(enrollment, c, s) IN
  /\ enrollment[c][s] \in SeatConsuming
  /\ HandleSeatAvailability(c, without)
  /\ notices' = PromotionNotices(without, c)
  /\ UNCHANGED <<capacity, status, now>>

(* Mutant: every removal takes one off the counter. *)
RemoveDecrementing(s, c) ==
  /\ enrollment[c][s] \in EnrollmentStatus \ SeatConsuming
  /\ enrollment' = WithoutRow(enrollment, c, s)
  /\ enrolledCount' = [enrolledCount EXCEPT ![c] = @ - 1]
  /\ notices' = {}
  /\ UNCHANGED <<waitlist, position, capacity, status, now>>

(* remove, of a row that holds none. *)
RemoveUnseated(s, c) ==
  /\ enrollment[c][s] \in EnrollmentStatus \ SeatConsuming
  /\ enrollment' = WithoutRow(enrollment, c, s)
  /\ notices' = {}
  /\ UNCHANGED <<waitlist, position, enrolledCount, capacity, status, now>>

(* SectionsService.updateSection: any capacity, any status, and no promotion. *)
UpdateSection(c, seats, st) ==
  /\ <<seats, st>> # <<capacity[c], status[c]>>
  /\ capacity' = [capacity EXCEPT ![c] = seats]
  /\ status' = [status EXCEPT ![c] = st]
  /\ notices' = {}
  /\ UNCHANGED <<enrollment, waitlist, position, enrolledCount, now>>

-----------------------------------------------------------------------------
Tick ==
  /\ now < MaxTime
  /\ now' = now + 1
  /\ notices' = {}
  /\ UNCHANGED <<enrollment, waitlist, position, enrolledCount, capacity, status>>

Init ==
  /\ enrollment = [c \in Section |-> [s \in Student |-> NoRow]]
  /\ waitlist = [c \in Section |-> [s \in Student |-> NoRow]]
  /\ position = [c \in Section |-> [s \in Student |-> 0]]
  /\ enrolledCount = [c \in Section |-> 0]
  /\ capacity \in [Section -> UNION {Capacities[c] : c \in Section}]
  /\ \A c \in Section : capacity[c] \in Capacities[c]
  /\ status = [c \in Section |-> "OPEN"]
  /\ now = 0
  /\ notices = {}

StudentOperation(s, c) ==
  \/ EnrollSeated(s, c)
  \/ EnrollWaitlisted(s, c)
  \/ DropEnrollment(s, c)
  \/ RemoveWaitlistEntry(s, c)

AdminOperation(s, c) ==
  \/ PromoteWaitlistEntry(s, c)
  \/ \E next \in Targets[c] : UpdateKeepingSeat(s, c, next)
  \/ \E next \in Targets[c] : UpdateReleasingSeat(s, c, next)
  \/ RemoveSeated(s, c)
  \/ RemoveUnseated(s, c)

Next ==
  \/ Tick
  \/ \E c \in Section :
       \/ \E seats \in Capacities[c], st \in Statuses : UpdateSection(c, seats, st)
       \/ \E s \in Student : StudentOperation(s, c) \/ AdminOperation(s, c)

Spec == Init /\ [][Next]_vars
-----------------------------------------------------------------------------
(* Type invariant: rows carry the enum values of schema.prisma, and a       *)
(* position belongs to ACTIVE rows only.                                    *)
TypeOK ==
  /\ enrollment \in [Section -> [Student -> EnrollmentStatus \cup {NoRow}]]
  /\ waitlist \in [Section -> [Student -> WaitlistStatus \cup {NoRow}]]
  /\ position \in [Section -> [Student -> Nat]]
  /\ enrolledCount \in [Section -> Nat]
  /\ capacity \in [Section -> Nat]
  /\ status \in [Section -> SectionStatus]
  /\ now \in 0..MaxTime
  /\ notices \subseteq [template : {"enrollment.confirmed", "enrollment.waitlisted",
                                     "enrollment.promoted", "enrollment.dropped"},
                        student : Student, section : Section]

(* The enrolledCount column, written by four different paths of the service, *)
(* always equals the number of seat-consuming enrollments it stands for.     *)
EnrolledCountInSync == \A c \in Section : enrolledCount[c] = SeatsTaken(c)

(* The ACTIVE waitlist rows of a section are numbered 1, 2, ..., n with no gap *)
(* and no tie, whatever promotions, expiries and removals went before: the     *)
(* load test's "no inconsistent waitlist ordering".                            *)
QueueGapless ==
  \A c \in Section :
    {position[c][s] : s \in Active(c)} = 1..Cardinality(Active(c))

(* Nobody waits for a section they already have an enrollment in: the branches *)
(* of promoteWaitlistEntry and handleSeatAvailability for that case guard      *)
(* against what these operations never produce.                                *)
NeverQueuedAndEnrolled ==
  \A c \in Section, s \in Student : waitlist[c][s] = "ACTIVE" => enrollment[c][s] = NoRow

(* Nobody is given a seat, by their own request, by staff or by a promotion    *)
(* inside another student's drop, without having completed the prerequisites   *)
(* at that moment: they may have been removed since the student queued.        *)
SeatsNeedPrerequisites ==
  [][\A c \in Section, s \in Student :
       enrollment[c][s] = NoRow /\ enrollment'[c][s] # NoRow
         => HasPrerequisites(enrollment, s, c)]_vars

(* A student never holds seats in two overlapping sections of a semester, even *)
(* when the second seat came by a promotion decided inside another student's   *)
(* drop, long after the student was checked.                                   *)
NoScheduleConflict ==
  \A s \in Student : \A c, d \in Section :
    /\ c # d
    /\ SemesterOf[c] = SemesterOf[d]
    /\ {enrollment[c][s], enrollment[d][s]} \subseteq SeatConsuming
    => {c, d} \notin Overlapping

(* Whoever is given a seat, at once or by a promotion long after queueing,     *)
(* holds no more credits in the semester then than that section's limit.       *)
CreditLoadWithinLimit ==
  [][\A s \in Student, c \in Section :
       enrollment[c][s] \notin SeatConsuming /\ enrollment'[c][s] \in SeatConsuming
         => Load(enrollment', s, SemesterOf[c]) <= CreditLimit(c)]_vars

(* No step of the service fills a section beyond its capacity.  A section may  *)
(* be over capacity (the administration shrank it) but never becomes fuller.   *)
NoOversell ==
  [][\A c \in Section :
       LET after == Cardinality(SeatHolders(enrollment', c)) IN
       after > SeatsTaken(c) => after <= capacity[c]]_vars

(* A step that frees a seat of a section open for enrollment hands over every  *)
(* seat it can: afterwards no seat is left while someone who waits could take  *)
(* it (handleSeatAvailability's loop neither stops early nor skips anyone).    *)
ReleaseLeavesNoIdleSeat ==
  [][\A c \in Section :
       /\ ~(SeatHolders(enrollment, c) \subseteq SeatHolders(enrollment', c))
       /\ OpenForEnrollment(c)
       /\ Cardinality(SeatHolders(enrollment', c)) < capacity[c]
       => \A s \in Student : waitlist'[c][s] = "ACTIVE" => ~Claimable(enrollment', c, s)]_vars
=============================================================================
