---------------------------- MODULE AttendanceRoll ----------------------------
(***************************************************************************)
(* academic-service: the attendance of one section on one day.  A lecturer *)
(* saves the whole roll: the section is checked to be theirs, the rows of  *)
(* the day are deleted and the new ones are inserted by one statement, all *)
(* or none.  No transaction encloses the three.  An administrator inserts, *)
(* changes and deletes rows by hand.                                       *)
(***************************************************************************)
EXTENDS Naturals, FiniteSets

CONSTANTS
  Roll,        \* requests to save a roll, each served once
  Teacher,     \* lecturers
  Pupil,       \* the students named by rolls
  Known,       \* those of them that exist
  MaxMarks,    \* bound: the entries of a roll
  NoRoll       \* the maker of a row inserted by hand

ASSUME RollAssumption == Known \subseteq Pupil /\ NoRoll \notin Roll /\ MaxMarks \in Nat

VARIABLES
  attendance,   \* the rows of Attendance: [student, status, by]
  teacher,      \* lecturerId of the section
  saving,       \* [Roll -> [by, marks, step]], step "none" before it comes
  crossing,     \* history: [Roll -> the rolls saved at the same time]
  standing,     \* history: the roll that was saved alone and last, or NoRoll
  edited        \* history: the students whose row was edited by hand since

rollVars == <<attendance, teacher, saving, crossing, standing, edited>>

MarkStatus == {"PRESENT", "ABSENT"}
Mark == [student : Pupil, status : MarkStatus]
Marks == {marks \in SUBSET Mark : Cardinality(marks) <= MaxMarks}

RollInit ==
  /\ attendance = {}
  /\ teacher \in Teacher
  /\ saving = [k \in Roll |-> [by |-> teacher, marks |-> {}, step |-> "none"]]
  /\ crossing = [k \in Roll |-> {}]
  /\ standing = NoRoll
  /\ edited = {}

-----------------------------------------------------------------------------
Underway == {k \in Roll : saving[k].step \in {"check", "erase", "insert"}}
SavingAt(k, step) == saving[k].step = step
Proceed(k, step) == saving' = [saving EXCEPT ![k].step = step]
CalledIn(marks) == {m.student : m \in marks}

(* A roll may name a student twice. *)
MarkSection(k, t, marks) ==
  /\ SavingAt(k, "none")
  /\ saving' = [saving EXCEPT ![k] = [by |-> t, marks |-> marks, step |-> "check"]]
  /\ crossing' = [q \in Roll |-> IF q = k THEN Underway
                                 ELSE IF q \in Underway THEN crossing[q] \cup {k}
                                 ELSE crossing[q]]
  /\ UNCHANGED <<attendance, teacher, standing, edited>>

CheckTeacher(k) ==
  /\ SavingAt(k, "check")
  /\ Proceed(k, IF saving[k].by = teacher THEN "erase" ELSE "refused")
  /\ UNCHANGED <<attendance, teacher, crossing, standing, edited>>

(* Mutant: the rows of the day stay. *)
KeepDay(day) == day

(* attendance.deleteMany of the section and the day. *)
WithoutDay(day) == {}

EraseDay(k) ==
  /\ SavingAt(k, "erase")
  /\ attendance' = WithoutDay(attendance)
  /\ Proceed(k, "insert")
  /\ standing' = NoRoll
  /\ UNCHANGED <<teacher, crossing, edited>>

(* createManyAndReturn: the foreign key and the unique constraint on the   *)
(* student, the section and the day hold for all the rows, or none is      *)
(* inserted.                                                               *)
Insertable(marks) ==
  /\ CalledIn(marks) \subseteq Known
  /\ \A m, n \in marks : m.student = n.student => m = n
  /\ CalledIn(marks) \cap {row.student : row \in attendance} = {}

RowsOf(marks, by) == {[student |-> m.student, status |-> m.status, by |-> by] : m \in marks}

InsertRoll(k) ==
  /\ SavingAt(k, "insert")
  /\ IF Insertable(saving[k].marks)
     THEN /\ attendance' = attendance \cup RowsOf(saving[k].marks, k)
          /\ Proceed(k, "saved")
          /\ standing' = IF crossing[k] = {} THEN k ELSE NoRoll
     ELSE /\ Proceed(k, "refused")
          /\ UNCHANGED <<attendance, standing>>
  /\ edited' = edited \cap {row.student : row \in attendance}
  /\ UNCHANGED <<teacher, crossing>>

-----------------------------------------------------------------------------
(* By hand: create and createBulk, update of a status, remove. *)
InsertByHand(marks) ==
  /\ Insertable(marks)
  /\ attendance' = attendance \cup RowsOf(marks, NoRoll)
  /\ edited' = edited \cup CalledIn(marks)
  /\ UNCHANGED <<teacher, saving, crossing, standing>>

UpdateRow(row, status) ==
  /\ row \in attendance
  /\ attendance' = (attendance \ {row}) \cup {[row EXCEPT !.status = status]}
  /\ edited' = edited \cup {row.student}
  /\ UNCHANGED <<teacher, saving, crossing, standing>>

RemoveRow(row) ==
  /\ row \in attendance
  /\ attendance' = attendance \ {row}
  /\ edited' = edited \cup {row.student}
  /\ UNCHANGED <<teacher, saving, crossing, standing>>

(* The section is given to another lecturer. *)
Reassign(t) ==
  /\ t # teacher
  /\ teacher' = t
  /\ UNCHANGED <<attendance, saving, crossing, standing, edited>>

-----------------------------------------------------------------------------
RollNext ==
  \/ \E k \in Roll :
       \/ \E t \in Teacher, marks \in Marks : MarkSection(k, t, marks)
       \/ CheckTeacher(k) \/ EraseDay(k) \/ InsertRoll(k)
  \/ \E marks \in Marks \ {{}} : InsertByHand(marks)
  \/ \E row \in attendance : RemoveRow(row) \/ \E status \in MarkStatus : UpdateRow(row, status)
  \/ \E t \in Teacher : Reassign(t)

RollSpec == RollInit /\ [][RollNext]_rollVars

(***************************************************************************)
(* Properties.                                                             *)
(***************************************************************************)
(* Every variable keeps its shape. *)
RollTypeOK ==
  /\ attendance \subseteq [student : Known, status : MarkStatus, by : Roll \cup {NoRoll}]
  /\ teacher \in Teacher
  /\ saving \in [Roll -> [by : Teacher, marks : SUBSET Mark,
                          step : {"none", "check", "erase", "insert", "saved", "refused"}]]
  /\ crossing \in [Roll -> SUBSET Roll]
  /\ standing \in Roll \cup {NoRoll}
  /\ edited \subseteq Pupil

(* The day has at most one row of a student, and shows rows of two rolls   *)
(* only if they were saved at the same time and called different students. *)
RollsApart ==
  \A a, b \in attendance : a # b =>
    /\ a.student # b.student
    /\ {a.by, b.by} \subseteq Roll /\ a.by # b.by => b.by \in crossing[a.by]

(* A roll that crossed no other shows as it was called until another one   *)
(* erases the day, but for the students edited by hand.                    *)
RollStands ==
  standing # NoRoll =>
    \A p \in Known \ edited :
      {[student |-> row.student, status |-> row.status] : row \in {r \in attendance : r.student = p}}
        = {m \in saving[standing].marks : m.student = p}

RollsDoNotMix == RollsApart /\ RollStands
=============================================================================
