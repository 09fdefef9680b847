---------------------------- MODULE RecordsProofs ----------------------------
(***************************************************************************)
(* Theorems about academic-service as a whole: what still holds when the   *)
(* gradebook and the people shadow write beside the enrollment service.    *)
(* The queues may have gaps then, but no ties, and the lemmas of           *)
(* EnrollmentProofs ask for no more.                                       *)
(***************************************************************************)
EXTENDS AcademicRecords, EnrollmentProofs

Grades == [Section -> [Student -> {"DRAFT", "PUBLISHED", NoGrade}]]

(* Nobody the service does not know has a row. *)
RowsOfKnown ==
  /\ registered \subseteq Student
  /\ \A c \in Section, s \in Student \ registered :
       enrollment[c][s] = NoRow /\ waitlist[c][s] = NoRow

(* PublishedOnlyOnceConfirmed needs that nobody waits who is enrolled: a    *)
(* student who was and dropped could be promoted by that very step, and the *)
(* grade, kept with the row, would be one of somebody PENDING.              *)
RecordsInv ==
  /\ Structural
  /\ grade \in Grades
  /\ RowsOfKnown
  /\ NeverQueuedAndEnrolled
  /\ PublishedOnlyOnceConfirmed

-----------------------------------------------------------------------------
(* The enrollment service's own steps. *)

(* A row becomes PENDING only by being made, and rows are made for those    *)
(* who ask for them or wait.                                                *)
RowsAreMade ==
  \A c \in Section, s \in Student :
    enrollment'[c][s] = "PENDING" => enrollment[c][s] \in {"PENDING", NoRow}

LEMMA HandOverMakesRows ==
  ASSUME Structural, NeverQueuedAndEnrolled, NEW c \in Section, NEW enr \in Tables,
         \A d \in Section \ {c} : enr[d] = enrollment[d],
         \A s \in Student : enr[c][s] = "PENDING" => enrollment[c][s] = "PENDING",
         HandleSeatAvailability(c, enr)
  PROVE  RowsAreMade
<1>1. enrollment' = WithPromotions(enr, c)
  BY DEF HandleSeatAvailability, Commit
<1> SUFFICES ASSUME NEW d \in Section, NEW s \in Student, enrollment'[d][s] = "PENDING"
             PROVE  enrollment[d][s] \in {"PENDING", NoRow}
  BY DEF RowsAreMade
<1>2. CASE d # c
  BY <1>1, <1>2 DEF WithPromotions, Tables
<1>3. CASE d = c
  <2>1. CASE s \in Promoted(enr, c)
    <3>1. waitlist[c][s] = "ACTIVE"
      BY <2>1 DEF Promoted, Considered, Active
    <3> QED BY <1>3, <3>1 DEF NeverQueuedAndEnrolled
  <2>2. CASE s \notin Promoted(enr, c)
    BY <1>1, <1>3, <2>2 DEF WithPromotions, Tables
  <2> QED BY <2>1, <2>2
<1> QED BY <1>2, <1>3

LEMMA OperationMakesRows ==
  ASSUME Structural, NeverQueuedAndEnrolled, NEW c \in Section, NEW s \in Student,
         StudentOperation(s, c) \/ AdminOperation(s, c)
  PROVE  RowsAreMade
<1>1. enrollment \in Tables
  BY DEF Structural, TypeOK, Tables
<1>2. CASE EnrollSeated(s, c) \/ PromoteWaitlistEntry(s, c)
  <2>1. enrollment[c][s] = NoRow /\ enrollment' = [enrollment EXCEPT ![c][s] = "PENDING"]
    BY <1>2 DEF EnrollSeated, MayEnroll, PromoteWaitlistEntry, Claimable, Commit
  <2> QED BY <1>1, <2>1 DEF RowsAreMade, Tables
<1>3. CASE enrollment' = enrollment
  BY <1>3 DEF RowsAreMade
<1>4. CASE DropEnrollment(s, c) \/ RemoveSeated(s, c)
  <2> DEFINE enr == WithoutRow(enrollment, c, s)
  <2>1. enr \in Tables /\ \A d \in Section \ {c} : enr[d] = enrollment[d]
    BY WithoutRowLoses
  <2>2. \A t \in Student : enr[c][t] = "PENDING" => enrollment[c][t] = "PENDING"
    BY WithoutRowLoses DEF SeatConsuming
  <2>3. HandleSeatAvailability(c, enr)
    BY <1>4 DEF DropEnrollment, RemoveSeated
  <2> HIDE DEF enr
  <2> QED BY <2>1, <2>2, <2>3, HandOverMakesRows
<1>5. ASSUME NEW next \in Targets[c], UpdateReleasingSeat(s, c, next)
      PROVE  RowsAreMade
  <2> DEFINE enr == [enrollment EXCEPT ![c][s] = next]
  <2>1. next \in EnrollmentStatus /\ next # "PENDING"
    BY <1>5 DEF UpdateReleasingSeat, ValidTransitions, EnrollmentStatus
  <2>2. enr \in Tables /\ \A d \in Section \ {c} : enr[d] = enrollment[d]
    BY <1>1, <2>1 DEF Tables
  <2>3. \A t \in Student : enr[c][t] = "PENDING" => enrollment[c][t] = "PENDING"
    BY <1>1, <2>1 DEF Tables
  <2>4. HandleSeatAvailability(c, enr)
    BY <1>5 DEF UpdateReleasingSeat
  <2> HIDE DEF enr
  <2> QED BY <2>2, <2>3, <2>4, HandOverMakesRows
<1>6. ASSUME NEW next \in Targets[c], UpdateKeepingSeat(s, c, next)
      PROVE  RowsAreMade
  BY <1>1, <1>6 DEF UpdateKeepingSeat, ValidTransitions, RowsAreMade, Tables
<1>7. CASE RemoveUnseated(s, c)
  BY <1>1, <1>7, RowAssumption
     DEF RemoveUnseated, WithoutRow, RowsAreMade, Tables, EnrollmentStatus
<1> QED BY <1>2, <1>3, <1>4, <1>5, <1>6, <1>7
     DEF StudentOperation, AdminOperation, EnrollWaitlisted, RemoveWaitlistEntry

(* Rows appear only for the student of the operation, or for who waits. *)
LEMMA OperationKnowsWhoItServes ==
  ASSUME RecordsInv, NEW c \in Section, NEW s \in registered,
         StudentOperation(s, c) \/ AdminOperation(s, c)
  PROVE  \A d \in Section, t \in Student \ registered :
           enrollment'[d][t] = NoRow /\ waitlist'[d][t] = NoRow
<1>1. /\ s \in Student /\ enrollment \in Tables
      /\ waitlist \in [Section -> WaitlistRows]
  BY DEF RecordsInv, RowsOfKnown, Structural, TypeOK, Tables, WaitlistRows
<1> SUFFICES ASSUME NEW d \in Section, NEW t \in Student \ registered
             PROVE  enrollment'[d][t] = NoRow /\ waitlist'[d][t] = NoRow
  OBVIOUS
<1>2. /\ t # s /\ enrollment[d][t] = NoRow /\ waitlist[d][t] = NoRow
      /\ waitlist[c][t] = NoRow
  BY DEF RecordsInv, RowsOfKnown
<1>3. \A d2 \in Section : waitlist[d2][t] # "ACTIVE"
  BY RowAssumption DEF RecordsInv, RowsOfKnown, WaitlistStatus
<1>4. ASSUME NEW enr \in Tables, HandleSeatAvailability(c, enr), enr[d][t] = NoRow
      PROVE  enrollment'[d][t] = NoRow /\ waitlist'[d][t] = NoRow
  <2>1. t \notin Considered(enr, c) /\ t \notin Promoted(enr, c)
    BY <1>3 DEF Promoted, Considered, Active
  <2>2. /\ enrollment' = WithPromotions(enr, c)
        /\ waitlist' = [waitlist EXCEPT ![c] = AfterPromotions(enr, c)]
    BY <1>4 DEF HandleSeatAvailability, Commit
  <2>3. enrollment'[d][t] = enr[d][t]
    BY <2>1, <2>2 DEF WithPromotions, Tables
  <2>4. AfterPromotions(enr, c)[t] = waitlist[c][t]
    BY <2>1 DEF AfterPromotions
  <2>5. waitlist'[d][t] = waitlist[d][t]
    BY <1>1, <2>2, <2>4 DEF WaitlistRows
  <2> QED BY <1>2, <1>4, <2>3, <2>5
<1>5. CASE EnrollSeated(s, c) \/ EnrollWaitlisted(s, c) \/ RemoveWaitlistEntry(s, c)
           \/ RemoveUnseated(s, c)
  BY <1>1, <1>2, <1>5
     DEF EnrollSeated, EnrollWaitlisted, RemoveWaitlistEntry, RemoveUnseated, WithoutRow,
         Tables, WaitlistRows
<1>6. CASE PromoteWaitlistEntry(s, c)
  <2>1. /\ enrollment' = [enrollment EXCEPT ![c][s] = "PENDING"]
        /\ waitlist' = [waitlist EXCEPT ![c] = [waitlist[c] EXCEPT ![s] = "CONVERTED"]]
    BY <1>6 DEF PromoteWaitlistEntry, Commit
  <2> QED BY <1>1, <1>2, <2>1 DEF Tables, WaitlistRows
<1>7. CASE DropEnrollment(s, c) \/ RemoveSeated(s, c)
  <2> DEFINE enr == WithoutRow(enrollment, c, s)
  <2>1. enr \in Tables /\ HandleSeatAvailability(c, enr) /\ enr[d][t] = NoRow
    BY <1>1, <1>2, <1>7 DEF DropEnrollment, RemoveSeated, WithoutRow, Tables
  <2> HIDE DEF enr
  <2> QED BY <1>4, <2>1
<1>8. ASSUME NEW next \in Targets[c], UpdateReleasingSeat(s, c, next)
      PROVE  enrollment'[d][t] = NoRow /\ waitlist'[d][t] = NoRow
  <2> DEFINE enr == [enrollment EXCEPT ![c][s] = next]
  <2>1. next \in EnrollmentStatus
    BY <1>8 DEF UpdateReleasingSeat, ValidTransitions, EnrollmentStatus
  <2>2. enr \in Tables /\ enr[d][t] = NoRow
    BY <1>1, <1>2, <2>1 DEF Tables
  <2>3. HandleSeatAvailability(c, enr)
    BY <1>8 DEF UpdateReleasingSeat
  <2> HIDE DEF enr
  <2> QED BY <1>4, <2>2, <2>3
<1>9. ASSUME NEW next \in Targets[c], UpdateKeepingSeat(s, c, next)
      PROVE  enrollment'[d][t] = NoRow /\ waitlist'[d][t] = NoRow
  BY <1>1, <1>2, <1>9 DEF UpdateKeepingSeat, Tables
<1> QED BY <1>5, <1>6, <1>7, <1>8, <1>9 DEF StudentOperation, AdminOperation

LEMMA OperationIsAStep ==
  ASSUME EnrollmentOperation, registered \subseteq Student
  PROVE  Next
BY DEF EnrollmentOperation, Next

LEMMA EnrollmentOperationKeeps ==
  ASSUME RecordsInv, EnrollmentOperation
  PROVE  RecordsInv'
<1>1. PICK c \in Section, s \in registered : StudentOperation(s, c) \/ AdminOperation(s, c)
  BY DEF EnrollmentOperation
<1>2. s \in Student /\ [Next]_vars /\ Structural /\ NeverQueuedAndEnrolled
  BY OperationIsAStep DEF RecordsInv, RowsOfKnown
<1>3. Structural' /\ NeverQueuedAndEnrolled'
  BY <1>2, NextStructural, StepSeparates
<1>4. RowsAreMade
  BY <1>1, <1>2, OperationMakesRows
<1>5. KeepGradesOfRows /\ registered' = registered
  BY DEF EnrollmentOperation
<1>6. grade' \in Grades
  BY <1>5 DEF KeepGradesOfRows, Grades, RecordsInv
<1>7. RowsOfKnown'
  BY <1>1, <1>5, OperationKnowsWhoItServes DEF RowsOfKnown, RecordsInv
<1>8. PublishedOnlyOnceConfirmed'
  <2> SUFFICES ASSUME NEW d \in Section, NEW t \in Student, grade'[d][t] = "PUBLISHED"
               PROVE  enrollment'[d][t] \notin {"PENDING", NoRow}
    BY DEF PublishedOnlyOnceConfirmed
  <2>1. enrollment'[d][t] # NoRow /\ grade[d][t] = "PUBLISHED"
    BY <1>5, GradeAssumption DEF KeepGradesOfRows
  <2>2. enrollment[d][t] \notin {"PENDING", NoRow}
    BY <2>1 DEF RecordsInv, PublishedOnlyOnceConfirmed
  <2> QED BY <1>4, <2>1, <2>2 DEF RowsAreMade
<1> QED BY <1>3, <1>6, <1>7, <1>8 DEF RecordsInv

(* A step that touches no enrollment, no place in a queue and no grade. *)
LEMMA QuietStepKeeps ==
  ASSUME RecordsInv, [Next]_vars, UNCHANGED <<enrollment, waitlist, position, grade>>,
         registered' \subseteq Student, registered \subseteq registered'
  PROVE  RecordsInv'
<1>1. Structural'
  BY NextStructural DEF RecordsInv
<1> QED BY <1>1 DEF RecordsInv, RowsOfKnown, NeverQueuedAndEnrolled, PublishedOnlyOnceConfirmed

(* The same for the types of a step that no operation of Enrollment is. *)
LEMMA SameSectionsStructural ==
  ASSUME Structural, enrollment' \in Tables, waitlist' \in [Section -> WaitlistRows],
         position' \in [Section -> [Student -> Nat]], Spaced', notices' = {},
         UNCHANGED <<enrolledCount, capacity, status, now>>
  PROVE  Structural'
BY DEF Structural, TypeOK, Tables, WaitlistRows

-----------------------------------------------------------------------------
(* The gradebook. *)

LEMMA UpdateFinalGradeKeeps ==
  ASSUME RecordsInv, NEW c \in Section, NEW s \in Student, UpdateFinalGrade(s, c)
  PROVE  RecordsInv'
<1>1. UNCHANGED <<enrollment, waitlist, position, enrolledCount, capacity, status, now, registered>>
      /\ notices' = {} /\ grade' = [grade EXCEPT ![c][s] = "DRAFT"]
  BY DEF UpdateFinalGrade
<1>2. Structural'
  BY <1>1 DEF RecordsInv, Structural, TypeOK, Spaced, Active
<1>3. grade' \in Grades
  BY <1>1 DEF RecordsInv, Grades
<1>4. PublishedOnlyOnceConfirmed'
  BY <1>1 DEF RecordsInv, Grades, PublishedOnlyOnceConfirmed
<1> QED BY <1>1, <1>2, <1>3, <1>4 DEF RecordsInv, RowsOfKnown, NeverQueuedAndEnrolled

LEMMA UpdateSectionGradesKeeps ==
  ASSUME RecordsInv, NEW batch \in SUBSET (Section \X Student), UpdateSectionGrades(batch)
  PROVE  RecordsInv'
<1>1. /\ UNCHANGED <<waitlist, position, enrolledCount, capacity, status, now, registered>>
      /\ notices' = {}
      /\ \A c \in Section, s \in Student :
           <<c, s>> \in batch => enrollment[c][s] # NoRow
      /\ enrollment' = [c \in Section |-> [s \in Student |->
           IF <<c, s>> \in batch THEN "COMPLETED" ELSE enrollment[c][s]]]
      /\ grade' = [c \in Section |-> [s \in Student |->
           IF <<c, s>> \in batch THEN "DRAFT" ELSE grade[c][s]]]
  BY DEF UpdateSectionGrades
<1>2. enrollment \in Tables /\ grade \in Grades
  BY DEF RecordsInv, Structural, TypeOK, Tables
<1>3. enrollment' \in Tables
  BY <1>1, <1>2 DEF Tables, EnrollmentStatus
<1>4. grade' \in Grades
  BY <1>1, <1>2 DEF Grades
<1>5. \A c \in Section, s \in Student :
        /\ enrollment'[c][s] = NoRow <=> enrollment[c][s] = NoRow
        /\ \/ enrollment'[c][s] = "COMPLETED" /\ grade'[c][s] = "DRAFT"
           \/ enrollment'[c][s] = enrollment[c][s] /\ grade'[c][s] = grade[c][s]
  BY <1>1, RowAssumption DEF EnrollmentStatus
<1>6. Structural'
  BY <1>1, <1>3 DEF RecordsInv, Structural, TypeOK, Tables, Spaced, Active
<1>7. PublishedOnlyOnceConfirmed'
  BY <1>5 DEF RecordsInv, PublishedOnlyOnceConfirmed
<1>8. RowsOfKnown' /\ NeverQueuedAndEnrolled'
  BY <1>1, <1>5 DEF RecordsInv, RowsOfKnown, NeverQueuedAndEnrolled
<1> QED BY <1>4, <1>6, <1>7, <1>8 DEF RecordsInv

LEMMA PublishSectionGradesKeeps ==
  ASSUME RecordsInv, NEW c \in Section, PublishSectionGrades(c)
  PROVE  RecordsInv'
<1>1. /\ UNCHANGED <<enrollment, waitlist, position, enrolledCount, capacity, status, now, registered>>
      /\ notices' = {}
      /\ grade' = [grade EXCEPT ![c] = [s \in Student |->
           IF enrollment[c][s] \in {"CONFIRMED", "COMPLETED"} /\ @[s] # NoGrade
           THEN "PUBLISHED" ELSE @[s]]]
  BY DEF PublishSectionGrades
<1>2. grade \in Grades /\ grade' \in Grades
  BY <1>1 DEF RecordsInv, Grades
<1>3. \A d \in Section, s \in Student :
        grade'[d][s] = grade[d][s] \/ enrollment[d][s] \in {"CONFIRMED", "COMPLETED"}
  BY <1>1, <1>2 DEF Grades
<1>4. Structural'
  BY <1>1 DEF RecordsInv, Structural, TypeOK, Spaced, Active
<1>5. PublishedOnlyOnceConfirmed'
  BY <1>1, <1>3, RowAssumption DEF RecordsInv, PublishedOnlyOnceConfirmed, EnrollmentStatus
<1> QED BY <1>1, <1>2, <1>4, <1>5 DEF RecordsInv, RowsOfKnown, NeverQueuedAndEnrolled

-----------------------------------------------------------------------------
(* The people shadow. *)

LEMMA StudentDeletedRows ==
  ASSUME RecordsInv, NEW s \in Student, StudentDeleted(s)
  PROVE  /\ UNCHANGED <<enrolledCount, capacity, status, now>>
         /\ notices' = {}
         /\ registered' = registered \ {s}
         /\ enrollment' \in Tables /\ waitlist' \in [Section -> WaitlistRows]
         /\ position' \in [Section -> [Student -> Nat]] /\ grade' \in Grades
         /\ \A c \in Section : /\ enrollment'[c][s] = NoRow /\ waitlist'[c][s] = NoRow
                               /\ grade'[c][s] = NoGrade
         /\ \A c \in Section, t \in Student \ {s} :
              /\ enrollment'[c][t] = enrollment[c][t] /\ waitlist'[c][t] = waitlist[c][t]
              /\ position'[c][t] = position[c][t] /\ grade'[c][t] = grade[c][t]
<1>1. /\ UNCHANGED <<enrolledCount, capacity, status, now>>
      /\ notices' = {}
      /\ registered' = registered \ {s}
      /\ enrollment' = [c \in Section |-> [enrollment[c] EXCEPT ![s] = NoRow]]
      /\ waitlist' = [c \in Section |-> [waitlist[c] EXCEPT ![s] = NoRow]]
      /\ position' = [c \in Section |-> [position[c] EXCEPT ![s] = 0]]
      /\ grade' = [c \in Section |-> [grade[c] EXCEPT ![s] = NoGrade]]
  BY DEF StudentDeleted
<1>2. /\ enrollment \in Tables /\ waitlist \in [Section -> WaitlistRows]
      /\ position \in [Section -> [Student -> Nat]] /\ grade \in Grades
  BY DEF RecordsInv, Structural, TypeOK, Tables, WaitlistRows
<1>3. enrollment' \in Tables /\ waitlist' \in [Section -> WaitlistRows]
  BY <1>1, <1>2 DEF Tables, WaitlistRows
<1>4. position' \in [Section -> [Student -> Nat]] /\ grade' \in Grades
  BY <1>1, <1>2 DEF Grades
<1>5. \A c \in Section : /\ enrollment'[c][s] = NoRow /\ waitlist'[c][s] = NoRow
                         /\ grade'[c][s] = NoGrade
  BY <1>1, <1>2 DEF Tables, WaitlistRows, Grades
<1>6. \A c \in Section, t \in Student \ {s} :
        /\ enrollment'[c][t] = enrollment[c][t] /\ waitlist'[c][t] = waitlist[c][t]
        /\ position'[c][t] = position[c][t] /\ grade'[c][t] = grade[c][t]
  BY <1>1, <1>2 DEF Tables, WaitlistRows, Grades
<1> QED BY <1>1, <1>3, <1>4, <1>5, <1>6

LEMMA StudentDeletedKeeps ==
  ASSUME RecordsInv, NEW s \in Student, StudentDeleted(s)
  PROVE  RecordsInv'
<1>1. \A c \in Section : Active(c)' = Active(c) \ {s}
  BY StudentDeletedRows, RowAssumption DEF Active, WaitlistStatus
<1>2. Spaced'
  <2> SUFFICES ASSUME NEW c \in Section, NEW t \in Active(c)', NEW u \in Active(c)',
                      position'[c][t] = position'[c][u]
               PROVE  t = u
    BY DEF Spaced
  <2>1. t \in Active(c) \ {s} /\ u \in Active(c) \ {s} /\ t \in Student /\ u \in Student
    BY <1>1 DEF Active
  <2>2. position[c][t] = position[c][u]
    BY <2>1, StudentDeletedRows
  <2> QED BY <2>1, <2>2 DEF RecordsInv, Structural, Spaced
<1>3. Structural'
  BY <1>2, StudentDeletedRows, SameSectionsStructural DEF RecordsInv
<1>4. RowsOfKnown'
  <2> SUFFICES ASSUME NEW c \in Section, NEW t \in Student \ registered'
               PROVE  enrollment'[c][t] = NoRow /\ waitlist'[c][t] = NoRow
    BY StudentDeletedRows DEF RecordsInv, RowsOfKnown
  <2>1. CASE t = s
    BY <2>1, StudentDeletedRows
  <2>2. CASE t # s
    BY <2>2, StudentDeletedRows DEF RecordsInv, RowsOfKnown
  <2> QED BY <2>1, <2>2
<1>5. NeverQueuedAndEnrolled'
  BY StudentDeletedRows DEF RecordsInv, NeverQueuedAndEnrolled
<1>6. PublishedOnlyOnceConfirmed'
  BY StudentDeletedRows, GradeAssumption DEF RecordsInv, PublishedOnlyOnceConfirmed
<1> QED BY <1>3, <1>4, <1>5, <1>6, StudentDeletedRows DEF RecordsInv

LEMMA StudentUpsertedKeeps ==
  ASSUME RecordsInv, NEW s \in Student, StudentUpserted(s)
  PROVE  RecordsInv'
<1>1. /\ UNCHANGED <<enrollment, waitlist, position, enrolledCount, capacity, status, now, grade>>
      /\ notices' = {} /\ registered' = registered \cup {s}
  BY DEF StudentUpserted
<1>2. Structural'
  BY <1>1 DEF RecordsInv, Structural, TypeOK, Spaced, Active
<1> QED BY <1>1, <1>2
       DEF RecordsInv, RowsOfKnown, NeverQueuedAndEnrolled, PublishedOnlyOnceConfirmed

-----------------------------------------------------------------------------
LEMMA RecordsInitHolds == RecordsInit => RecordsInv
<1> SUFFICES ASSUME RecordsInit PROVE RecordsInv
  OBVIOUS
<1>1. Structural
  BY InitStructural DEF RecordsInit
<1>2. grade \in Grades /\ PublishedOnlyOnceConfirmed
  BY GradeAssumption DEF RecordsInit, Grades, PublishedOnlyOnceConfirmed
<1>3. RowsOfKnown
  BY DEF RecordsInit, RowsOfKnown
<1>4. NeverQueuedAndEnrolled
  BY RowAssumption DEF RecordsInit, Init, NeverQueuedAndEnrolled
<1> QED BY <1>1, <1>2, <1>3, <1>4 DEF RecordsInv

LEMMA RecordsNextKeeps == RecordsInv /\ [RecordsNext]_recordsVars => RecordsInv'
<1> SUFFICES ASSUME RecordsInv, [RecordsNext]_recordsVars PROVE RecordsInv'
  OBVIOUS
<1>1. CASE SectionOperation \/ (Tick /\ UNCHANGED <<grade, registered>>)
           \/ UNCHANGED recordsVars
  <2>1. [Next]_vars
    BY <1>1 DEF SectionOperation, Next, vars, recordsVars
  <2>2. UNCHANGED <<enrollment, waitlist, position, grade, registered>>
    BY <1>1 DEF SectionOperation, UpdateSection, Tick, recordsVars
  <2>3. registered' \subseteq Student /\ registered \subseteq registered'
    BY <2>2 DEF RecordsInv, RowsOfKnown
  <2> QED BY <2>1, <2>2, <2>3, QuietStepKeeps
<1> QED BY <1>1, EnrollmentOperationKeeps, UpdateSectionGradesKeeps, PublishSectionGradesKeeps,
           StudentDeletedKeeps, StudentUpsertedKeeps, UpdateFinalGradeKeeps DEF RecordsNext

LEMMA RecordsInvHolds == RecordsSpec => []RecordsInv
BY RecordsInitHolds, RecordsNextKeeps, PTL DEF RecordsSpec

(* With all its writers, academic-service's rows stay well typed and belong *)
(* to students it knows (the foreign keys of schema.prisma).                *)
THEOREM RecordsTypesHold == RecordsSpec => []RecordsTypeOK
<1>1. RecordsInv => RecordsTypeOK
  BY DEF RecordsInv, Structural, Grades, RowsOfKnown, RecordsTypeOK
<1> QED BY RecordsInvHolds, <1>1, PTL

(* A grade is published only for someone who was at least confirmed in the  *)
(* section, whatever edits, batches, deletions and promotions come between  *)
(* (publishSectionGrades, updateSectionGrades, handleSeatAvailability).     *)
THEOREM PublishedWereConfirmed == RecordsSpec => []PublishedOnlyOnceConfirmed
<1>1. RecordsInv => PublishedOnlyOnceConfirmed
  BY DEF RecordsInv
<1> QED BY RecordsInvHolds, <1>1, PTL

(* What the enrollment service promises of its rows survives the gradebook  *)
(* and the people shadow: nobody waits for a section they have a row in     *)
(* (addStudentToWaitlist, handleSeatAvailability, promoteWaitlistEntry).    *)
THEOREM QueuedStayApart == RecordsSpec => []NeverQueuedAndEnrolled
<1>1. RecordsInv => NeverQueuedAndEnrolled
  BY DEF RecordsInv
<1> QED BY RecordsInvHolds, <1>1, PTL

-----------------------------------------------------------------------------
(* The order of those who wait. *)

(* What a step may do to the queue of section c: some leave and the others  *)
(* keep their positions, or are renumbered; or one joins at the end.        *)
SomeLeave(c) ==
  /\ Active(c)' \subseteq Active(c)
  /\ \A s \in Active(c)' : position'[c][s] = position[c][s]

Renumbers(c) ==
  /\ Active(c)' \subseteq Active(c)
  /\ position'[c] = Resequenced(Active(c)', position[c])

OneJoins(c) ==
  \E s \in Student \ Active(c) :
    /\ Active(c)' = Active(c) \cup {s}
    /\ position'[c][s] = LastPosition(c) + 1
    /\ \A t \in Active(c) : position'[c][t] = position[c][t]

QueueMoves(c) == SomeLeave(c) \/ Renumbers(c) \/ OneJoins(c)

LEMMA CommitMoves ==
  ASSUME Structural, NEW c \in Section, NEW enr, NEW wl \in WaitlistRows, NEW count,
         {s \in Student : wl[s] = "ACTIVE"} \subseteq Active(c),
         Commit(c, enr, wl, count)
  PROVE  \A d \in Section : QueueMoves(d)
<1>1. /\ waitlist' = [waitlist EXCEPT ![c] = wl]
      /\ position' = [position EXCEPT
           ![c] = Resequenced({s \in Student : wl[s] = "ACTIVE"}, position[c])]
      /\ waitlist \in [Section -> WaitlistRows] /\ position \in [Section -> [Student -> Nat]]
  BY DEF Commit, Structural, TypeOK, WaitlistRows
<1>2. Active(c)' = {s \in Student : wl[s] = "ACTIVE"}
  BY <1>1 DEF Active
<1>3. Renumbers(c)
  BY <1>1, <1>2 DEF Renumbers
<1>4. ASSUME NEW d \in Section, d # c PROVE SomeLeave(d)
  BY <1>1, <1>4 DEF SomeLeave, Active
<1> QED BY <1>3, <1>4 DEF QueueMoves

LEMMA HandOverMoves ==
  ASSUME Structural, NEW c \in Section, NEW enr \in Tables, HandleSeatAvailability(c, enr)
  PROVE  \A d \in Section : QueueMoves(d)
BY HandOverRows, CommitMoves DEF HandleSeatAvailability

LEMMA SameQueuesMove ==
  ASSUME UNCHANGED <<waitlist, position>>
  PROVE  \A d \in Section : QueueMoves(d)
BY DEF QueueMoves, SomeLeave, Active

LEMMA OperationMoves ==
  ASSUME Structural, NEW c \in Section, NEW s \in Student,
         StudentOperation(s, c) \/ AdminOperation(s, c)
  PROVE  \A d \in Section : QueueMoves(d)
<1>1. /\ enrollment \in Tables /\ waitlist \in [Section -> WaitlistRows]
      /\ position \in [Section -> [Student -> Nat]]
  BY DEF Structural, TypeOK, Tables, WaitlistRows
<1>2. CASE EnrollSeated(s, c)
  BY <1>2, SameQueuesMove DEF EnrollSeated
<1>3. CASE EnrollWaitlisted(s, c)
  <2>1. /\ waitlist' = [waitlist EXCEPT ![c][s] = "ACTIVE"]
        /\ position' = [position EXCEPT ![c][s] = LastPosition(c) + 1]
        /\ s \in Student \ Active(c)
    BY <1>3, RowAssumption DEF EnrollWaitlisted, MayEnroll, Active, WaitlistStatus
  <2>2. Active(c)' = Active(c) \cup {s}
    BY <1>1, <2>1 DEF Active, WaitlistRows
  <2>3. position'[c][s] = LastPosition(c) + 1 /\ \A t \in Active(c) : position'[c][t] = position[c][t]
    BY <1>1, <2>1
  <2>4. OneJoins(c)
    BY <2>1, <2>2, <2>3 DEF OneJoins
  <2>5. ASSUME NEW d \in Section, d # c PROVE SomeLeave(d)
    BY <1>1, <2>1, <2>5 DEF SomeLeave, Active
  <2> QED BY <2>4, <2>5 DEF QueueMoves
<1>4. CASE RemoveWaitlistEntry(s, c)
  <2>1. /\ waitlist' = [waitlist EXCEPT ![c] = [waitlist[c] EXCEPT ![s] = NoRow]]
        /\ position' = IF s \in Active(c)
                       THEN [position EXCEPT ![c] = Resequenced(Active(c) \ {s}, position[c])]
                       ELSE position
    BY <1>4 DEF RemoveWaitlistEntry
  <2>2. Active(c)' = Active(c) \ {s}
    BY <1>1, <2>1, RowAssumption DEF Active, WaitlistRows, WaitlistStatus
  <2>3. CASE s \in Active(c)
    <3>1. Renumbers(c)
      BY <1>1, <2>1, <2>2, <2>3 DEF Renumbers
    <3> QED BY <1>1, <2>1, <2>3, <3>1 DEF QueueMoves, SomeLeave, Active
  <2>4. CASE s \notin Active(c)
    <3>1. \A d \in Section : Active(d)' \subseteq Active(d)
      BY <1>1, <2>1, <2>2 DEF Active
    <3> QED BY <2>1, <2>4, <3>1 DEF QueueMoves, SomeLeave
  <2> QED BY <2>3, <2>4
<1>5. CASE DropEnrollment(s, c) \/ RemoveSeated(s, c)
  BY <1>5, WithoutRowLoses, HandOverMoves DEF DropEnrollment, RemoveSeated
<1>6. CASE PromoteWaitlistEntry(s, c)
  <2> DEFINE wl == [waitlist[c] EXCEPT ![s] = "CONVERTED"]
  <2>1. wl \in WaitlistRows /\ {t \in Student : wl[t] = "ACTIVE"} \subseteq Active(c)
    BY <1>1 DEF WaitlistRows, WaitlistStatus, Active
  <2>2. Commit(c, [enrollment EXCEPT ![c][s] = "PENDING"], wl, SeatsTaken(c) + 1)
    BY <1>6 DEF PromoteWaitlistEntry
  <2> HIDE DEF wl
  <2> QED BY <2>1, <2>2, CommitMoves
<1>7. ASSUME NEW next \in Targets[c], UpdateReleasingSeat(s, c, next)
      PROVE  \A d \in Section : QueueMoves(d)
  <2> DEFINE enr == [enrollment EXCEPT ![c][s] = next]
  <2>1. next \in EnrollmentStatus
    BY <1>7 DEF UpdateReleasingSeat, ValidTransitions, EnrollmentStatus
  <2>2. enr \in Tables /\ HandleSeatAvailability(c, enr)
    BY <1>1, <1>7, <2>1 DEF Tables, UpdateReleasingSeat
  <2> HIDE DEF enr
  <2> QED BY <2>2, HandOverMoves
<1>8. CASE RemoveUnseated(s, c) \/ \E next \in Targets[c] : UpdateKeepingSeat(s, c, next)
  BY <1>8, SameQueuesMove DEF RemoveUnseated, UpdateKeepingSeat
<1> QED BY <1>2, <1>3, <1>4, <1>5, <1>6, <1>7, <1>8 DEF StudentOperation, AdminOperation

LEMMA RecordsStepMoves ==
  ASSUME RecordsInv, [RecordsNext]_recordsVars
  PROVE  \A c \in Section : QueueMoves(c)
<1>1. CASE EnrollmentOperation
  BY <1>1, OperationMoves DEF EnrollmentOperation, RecordsInv, RowsOfKnown
<1>2. ASSUME NEW s \in Student, StudentDeleted(s)
      PROVE  \A c \in Section : QueueMoves(c)
  <2>1. \A c \in Section : Active(c)' = Active(c) \ {s}
    BY <1>2, StudentDeletedRows, RowAssumption DEF Active, WaitlistStatus
  <2>2. \A c \in Section : Active(c) \subseteq Student
    BY DEF Active
  <2>3. \A c \in Section : SomeLeave(c)
    BY <1>2, <2>1, <2>2, StudentDeletedRows DEF SomeLeave
  <2> QED BY <2>3 DEF QueueMoves
<1>3. CASE UNCHANGED <<waitlist, position>>
  BY <1>3, SameQueuesMove
<1> QED BY <1>1, <1>2, <1>3
     DEF RecordsNext, SectionOperation, UpdateSection, Tick, UpdateSectionGrades,
         PublishSectionGrades, StudentUpserted, UpdateFinalGrade, recordsVars

(* Renumbering keeps the order. *)
LEMMA ResequencedKeepsOrder ==
  ASSUME NEW active \in SUBSET Student, NEW pos \in [Student -> Nat],
         NEW s \in active, NEW t \in active, pos[s] < pos[t]
  PROVE  Resequenced(active, pos)[s] < Resequenced(active, pos)[t]
<1> DEFINE upto(x) == {u \in active : pos[u] <= pos[x]}
<1>1. upto(s) \in SUBSET upto(t) /\ t \in upto(t) /\ t \notin upto(s)
  OBVIOUS
<1>2. upto(t) \in SUBSET Student
  OBVIOUS
<1>3. Cardinality(upto(s)) < Cardinality(upto(t))
  BY <1>1, <1>2, StrictlyMore
<1> QED BY <1>3 DEF Resequenced

(* Positions of two who wait before and after are compared as before; who *)
(* joins is behind.                                                       *)
LEMMA MovesKeepOrder ==
  ASSUME Structural, NEW c \in Section, QueueMoves(c),
         NEW s \in Active(c), s \in Active(c)', NEW t \in Active(c)',
         t \in Active(c) => position[c][s] < position[c][t]
  PROVE  position'[c][s] < position'[c][t]
<1>1. Active(c) \in SUBSET Student /\ position[c] \in [Student -> Nat]
  BY ActiveFacts
<1>2. CASE SomeLeave(c)
  BY <1>2 DEF SomeLeave
<1>3. CASE Renumbers(c)
  <2>1. PICK active \in SUBSET Student : active = Active(c)'
    BY <1>1, <1>3 DEF Renumbers
  <2>2. s \in active /\ t \in active /\ position[c][s] < position[c][t]
    BY <1>3, <2>1 DEF Renumbers
  <2> QED BY <1>1, <1>3, <2>1, <2>2, ResequencedKeepsOrder DEF Renumbers
<1>4. CASE OneJoins(c)
  <2>1. PICK u \in Student \ Active(c) :
          /\ Active(c)' = Active(c) \cup {u}
          /\ position'[c][u] = LastPosition(c) + 1
          /\ \A v \in Active(c) : position'[c][v] = position[c][v]
    BY <1>4 DEF OneJoins
  <2>2. CASE t = u
    <3>1. LastPosition(c) \in Nat /\ position[c][s] <= LastPosition(c) /\ position[c][s] \in Nat
      BY <1>1, LastPositionIsLast DEF Structural
    <3> QED BY <2>1, <2>2, <3>1
  <2>3. CASE t # u
    BY <2>1, <2>3
  <2> QED BY <2>2, <2>3
<1> QED BY <1>2, <1>3, <1>4 DEF QueueMoves

(* First come, first served, also where deletions of students leave gaps    *)
(* in the positions: two who wait never swap, and who joins is behind       *)
(* (resequenceWaitlist, addStudentToWaitlist, the foreign keys' cascade).   *)
THEOREM WaitlistNeverReordered == RecordsSpec => WaitlistOrderStable
<1>1. ASSUME RecordsInv, [RecordsNext]_recordsVars
      PROVE  \A c \in Section, s, t \in Student :
               /\ waitlist[c][s] = "ACTIVE"
               /\ waitlist'[c][s] = "ACTIVE" /\ waitlist'[c][t] = "ACTIVE"
               /\ waitlist[c][t] = "ACTIVE" => position[c][s] < position[c][t]
               => position'[c][s] < position'[c][t]
  <2> SUFFICES ASSUME NEW c \in Section, NEW s \in Student, NEW t \in Student,
                      waitlist[c][s] = "ACTIVE",
                      waitlist'[c][s] = "ACTIVE", waitlist'[c][t] = "ACTIVE",
                      waitlist[c][t] = "ACTIVE" => position[c][s] < position[c][t]
               PROVE  position'[c][s] < position'[c][t]
    OBVIOUS
  <2>1. Structural /\ QueueMoves(c)
    BY <1>1, RecordsStepMoves DEF RecordsInv
  <2>2. s \in Active(c) /\ s \in Active(c)' /\ t \in Active(c)'
    BY DEF Active
  <2>3. t \in Active(c) => position[c][s] < position[c][t]
    BY DEF Active
  <2> QED BY <2>1, <2>2, <2>3, MovesKeepOrder
<1> QED BY RecordsInvHolds, <1>1, PTL DEF RecordsSpec, WaitlistOrderStable

-----------------------------------------------------------------------------
(* The counter. *)

(* Every counter a step writes becomes the number of seats after the step. *)
CountersHeal ==
  \A c \in Section :
    enrolledCount'[c] # enrolledCount[c]
      => enrolledCount'[c] = Cardinality(SeatHolders(enrollment', c))

LEMMA OneCounterHeals ==
  ASSUME Structural, NEW c \in Section, NEW enr,
         enrollment' = enr,
         enrolledCount' = [enrolledCount EXCEPT ![c] = Cardinality(SeatHolders(enr, c))]
  PROVE  CountersHeal
BY DEF CountersHeal, Structural, TypeOK

LEMMA OperationHeals ==
  ASSUME Structural, NEW c \in Section, NEW s \in Student,
         StudentOperation(s, c) \/ AdminOperation(s, c)
  PROVE  CountersHeal
<1>1. ASSUME NEW enr, HandleSeatAvailability(c, enr) PROVE CountersHeal
  BY <1>1, OneCounterHeals DEF HandleSeatAvailability, Commit
<1>2. CASE EnrollSeated(s, c) \/ PromoteWaitlistEntry(s, c)
  <2> DEFINE enr == [enrollment EXCEPT ![c][s] = "PENDING"]
  <2>1. enrollment[c][s] = NoRow
    BY <1>2 DEF EnrollSeated, MayEnroll, PromoteWaitlistEntry, Claimable
  <2>2. Cardinality(SeatHolders(enr, c)) = SeatsTaken(c) + 1
    BY <2>1, OneMoreSeat
  <2>3. /\ enrollment' = enr
        /\ enrolledCount' = [enrolledCount EXCEPT ![c] = SeatsTaken(c) + 1]
    BY <1>2 DEF EnrollSeated, PromoteWaitlistEntry, Commit
  <2> HIDE DEF enr
  <2> QED BY <2>2, <2>3, OneCounterHeals
<1>3. CASE EnrollWaitlisted(s, c)
  <2>1. enrollment' = enrollment
        /\ enrolledCount' = [enrolledCount EXCEPT ![c] = Cardinality(SeatHolders(enrollment, c))]
    BY <1>3 DEF EnrollWaitlisted, SeatsTaken
  <2> QED BY <2>1, OneCounterHeals
<1>4. CASE enrolledCount' = enrolledCount
  BY <1>4 DEF CountersHeal
<1> QED BY <1>1, <1>2, <1>3, <1>4
     DEF StudentOperation, AdminOperation, DropEnrollment, RemoveWaitlistEntry,
         UpdateKeepingSeat, UpdateReleasingSeat, RemoveSeated, RemoveUnseated

(* The gradebook and the cascade let the counter column drift; whatever     *)
(* writes it again writes the number of seats taken                         *)
(* (syncSectionEnrolledCount and enrollStudent).                            *)
THEOREM CounterAlwaysHeals == RecordsSpec => CounterHeals
<1>1. ASSUME RecordsInv, [RecordsNext]_recordsVars PROVE CountersHeal
  <2>1. CASE EnrollmentOperation
    BY <1>1, <2>1, OperationHeals DEF EnrollmentOperation, RecordsInv, RowsOfKnown
  <2>2. CASE enrolledCount' = enrolledCount
    BY <2>2 DEF CountersHeal
  <2> QED BY <1>1, <2>1, <2>2
       DEF RecordsNext, SectionOperation, UpdateSection, Tick, UpdateSectionGrades,
           PublishSectionGrades, StudentDeleted, StudentUpserted, UpdateFinalGrade, recordsVars
<1>2. RecordsInv /\ [RecordsNext]_recordsVars
        => [\A c \in Section :
              enrolledCount'[c] # enrolledCount[c]
                => enrolledCount'[c] = Cardinality(SeatHolders(enrollment', c))]_recordsVars
  BY <1>1 DEF CountersHeal
<1> QED BY RecordsInvHolds, <1>2, PTL DEF RecordsSpec, CounterHeals
=============================================================================
