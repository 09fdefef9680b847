---------------------------- MODULE MCTimetable ----------------------------
(* Three sections of one semester: a and b meet at the same hours, the     *)
(* credit limit of p admits it only as a student's first section, and b    *)
(* requires that p is completed.                                           *)
EXTENDS Enrollment, TLC

CONSTANTS a, b, p, s1, s2, s3

MCSemesterOf == [c \in Section |-> "fall"]
MCCourseOf == [c \in Section |-> c]
MCPrerequisites == [k \in Course |-> IF k = b THEN {p} ELSE {}]
MCCredits == [k \in Course |-> 3]
MCTargets == [c \in Section |-> IF c = p THEN {"CONFIRMED", "COMPLETED"} ELSE {}]
MCCapacities == [c \in Section |-> {1}]
MCOverlapping == {{a, b}}
MCMaxCredits == [c \in Section |-> IF c = p THEN 5 ELSE 0]
MCRegistrationStart == [t \in Semester |-> 0]
MCRegistrationEnd == [t \in Semester |-> 0]
MCAddDropStart == [t \in Semester |-> NoDate]
MCAddDropEnd == [t \in Semester |-> 0]

Symmetry == Permutations(Student)
=============================================================================
