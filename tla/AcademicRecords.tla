--------------------------- MODULE AcademicRecords --------------------------
(***************************************************************************)
(* academic-service as a whole: Enrollment together with the writers of    *)
(* the same tables that go round its section lock and its bookkeeping.     *)
(*                                                                         *)
(*   - SectionsService.updateSectionGrades sets every enrollment it is     *)
(*     given to COMPLETED, whatever its status was when it runs (the page  *)
(*     it was filled in from may be old), and publishSectionGrades         *)
(*     releases the grades;                                                *)
(*   - EnrollmentsService.update may set a grade on its own;               *)
(*   - PeopleShadowConsumer deletes a student, and the foreign keys        *)
(*     (onDelete: Cascade) delete the student's enrollments and waitlist   *)
(*     rows with no counter, promotion or renumbering.                     *)
(***************************************************************************)
EXTENDS Enrollment

CONSTANTS
  NoGrade,       \* finalGrade is null
  MaxPosition    \* bound: students are deleted while positions are this low

ASSUME GradeAssumption == NoGrade \notin {"DRAFT", "PUBLISHED"} /\ MaxPosition \in Nat

VARIABLES
  grade,         \* [Section -> [Student -> gradeStatus, or NoGrade]]
  registered     \* the students whose shadow row exists

recordsVars == <<enrollment, waitlist, position, enrolledCount, capacity, status, now,
                 notices, grade, registered>>

-----------------------------------------------------------------------------
(* A grade goes with its enrollment row. *)
KeepGradesOfRows ==
  grade' = [c \in Section |-> [s \in Student |->
              IF enrollment'[c][s] = NoRow THEN NoGrade ELSE grade[c][s]]]

(* An operation of Enrollment.tla, by or for a student this service knows. *)
EnrollmentOperation ==
  /\ \E c \in Section, s \in registered : StudentOperation(s, c) \/ AdminOperation(s, c)
  /\ KeepGradesOfRows
  /\ UNCHANGED registered

SectionOperation ==
  /\ \E c \in Section : \E seats \in Capacities[c], st \in Statuses : UpdateSection(c, seats, st)
  /\ UNCHANGED <<grade, registered>>

(* update with a finalGrade and no status: the grade's status is not touched, *)
(* and a row is born with gradeStatus DRAFT.                                  *)
UpdateFinalGrade(s, c) ==
  /\ enrollment[c][s] # NoRow
  /\ grade[c][s] = NoGrade
  /\ grade' = [grade EXCEPT ![c][s] = "DRAFT"]
  /\ notices' = {}
  /\ UNCHANGED <<enrollment, waitlist, position, enrolledCount, capacity, status, now, registered>>

(* updateSectionGrades, for any non-empty set of rows: one that has vanished *)
(* makes the whole batch fail.                                               *)
UpdateSectionGrades(batch) ==
  /\ \A r \in batch : enrollment[r[1]][r[2]] # NoRow
  /\ enrollment' = [c \in Section |-> [s \in Student |->
       IF <<c, s>> \in batch THEN "COMPLETED" ELSE enrollment[c][s]]]
  /\ grade' = [c \in Section |-> [s \in Student |->
       IF <<c, s>> \in batch THEN "DRAFT" ELSE grade[c][s]]]
  /\ notices' = {}
  /\ UNCHANGED <<waitlist, position, enrolledCount, capacity, status, now, registered>>

(* Mutant: the grades of all rows are released. *)
PublishAllGrades(c) ==
  /\ grade' = [grade EXCEPT ![c] = [s \in Student |->
       IF @[s] # NoGrade THEN "PUBLISHED" ELSE @[s]]]
  /\ notices' = {}
  /\ UNCHANGED <<enrollment, waitlist, position, enrolledCount, capacity, status, now, registered>>

(* publishSectionGrades: the graded rows of students who take the section. *)
PublishSectionGrades(c) ==
  /\ grade' = [grade EXCEPT ![c] = [s \in Student |->
       IF enrollment[c][s] \in {"CONFIRMED", "COMPLETED"} /\ @[s] # NoGrade
       THEN "PUBLISHED" ELSE @[s]]]
  /\ notices' = {}
  /\ UNCHANGED <<enrollment, waitlist, position, enrolledCount, capacity, status, now, registered>>

(* Mutant: the cascade stops at the enrollments. *)
StudentDeletedKeepingQueue(s) ==
  /\ s \in registered
  /\ \A c \in Section : LastPosition(c) <= MaxPosition
  /\ registered' = registered \ {s}
  /\ enrollment' = [c \in Section |-> [enrollment[c] EXCEPT ![s] = NoRow]]
  /\ grade' = [c \in Section |-> [grade[c] EXCEPT ![s] = NoGrade]]
  /\ notices' = {}
  /\ UNCHANGED <<waitlist, position, enrolledCount, capacity, status, now>>

(* student.deleted: the cascade reaches rows of every section. *)
StudentDeleted(s) ==
  LET without(table) == [c \in Section |-> [table[c] EXCEPT ![s] = NoRow]] IN
  /\ s \in registered
  /\ \A c \in Section : LastPosition(c) <= MaxPosition
  /\ registered' = registered \ {s}
  /\ enrollment' = without(enrollment)
  /\ waitlist' = without(waitlist)
  /\ position' = [c \in Section |-> [position[c] EXCEPT ![s] = 0]]
  /\ grade' = [c \in Section |-> [grade[c] EXCEPT ![s] = NoGrade]]
  /\ notices' = {}
  /\ UNCHANGED <<enrolledCount, capacity, status, now>>

(* student.upserted, of a student not known yet. *)
StudentUpserted(s) ==
  /\ s \notin registered
  /\ registered' = registered \cup {s}
  /\ notices' = {}
  /\ UNCHANGED <<enrollment, waitlist, position, enrolledCount, capacity, status, now, grade>>

RecordsInit ==
  /\ Init
  /\ grade = [c \in Section |-> [s \in Student |-> NoGrade]]
  /\ registered = Student

RecordsNext ==
  \/ EnrollmentOperation
  \/ SectionOperation
  \/ Tick /\ UNCHANGED <<grade, registered>>
  \/ \E batch \in SUBSET (Section \X Student) : UpdateSectionGrades(batch)
  \/ \E c \in Section : PublishSectionGrades(c)
  \/ \E s \in Student : StudentDeleted(s) \/ StudentUpserted(s)
  \/ \E c \in Section, s \in Student : UpdateFinalGrade(s, c)

RecordsSpec == RecordsInit /\ [][RecordsNext]_recordsVars

-----------------------------------------------------------------------------
(* Type invariant of the composition; rows belong to known students. *)
RecordsTypeOK ==
  /\ TypeOK
  /\ grade \in [Section -> [Student -> {"DRAFT", "PUBLISHED", NoGrade}]]
  /\ registered \subseteq Student
  /\ \A c \in Section, s \in Student \ registered :
       enrollment[c][s] = NoRow /\ waitlist[c][s] = NoRow

(* Two students who wait for a section never swap, not even when deletions *)
(* leave gaps in the positions, and who joins is behind all who wait: the  *)
(* load test's "no inconsistent waitlist ordering".                        *)
WaitlistOrderStable ==
  [][\A c \in Section, s, t \in Student :
       /\ waitlist[c][s] = "ACTIVE"
       /\ waitlist'[c][s] = "ACTIVE" /\ waitlist'[c][t] = "ACTIVE"
       /\ waitlist[c][t] = "ACTIVE" => position[c][s] < position[c][t]
       => position'[c][s] < position'[c][t]
     ]_recordsVars

(* The counter column drifts when rows change behind its back, but whenever   *)
(* it is written the value written is right: one enrollment operation on the  *)
(* section heals it.                                                          *)
CounterHeals ==
  [][\A c \in Section :
       enrolledCount'[c] # enrolledCount[c]
         => enrolledCount'[c] = Cardinality(SeatHolders(enrollment', c))]_recordsVars

(* A grade is published only for someone who was at least confirmed in the   *)
(* section; later drops and cancellations do not take the grade back.        *)
PublishedOnlyOnceConfirmed ==
  \A c \in Section, s \in Student :
    grade[c][s] = "PUBLISHED" => enrollment[c][s] \notin {"PENDING", NoRow}

(* load-tests/README.md: "no over-capacity confirmations".  Does not hold: a  *)
(* grade batch revives an enrollment whose seat was handed to somebody else.  *)
NoOverCapacityConfirmation ==
  [][\A c \in Section :
       LET after == Cardinality(SeatHolders(enrollment', c)) IN
       after > SeatsTaken(c) => after <= capacity[c]]_recordsVars

(* What getStudentGrades and the transcript show the student. *)
ShownToStudent(c, s) ==
  enrollment[c][s] = "COMPLETED" \/ (enrollment[c][s] # NoRow /\ grade[c][s] = "PUBLISHED")

(* The lecturer's page announces publishing as the step after which students  *)
(* see the results.  Does not hold: saving a draft completes the enrollment,  *)
(* and every completed enrollment is shown with its grade.                    *)
DraftGradesHidden ==
  \A c \in Section, s \in Student : grade[c][s] = "DRAFT" => ~ShownToStudent(c, s)
=============================================================================
