----------------------------- MODULE MCRecords ------------------------------
(* One section with one seat, three students; registration is always open. *)
EXTENDS AcademicRecords, TLC

CONSTANTS a, s1, s2, s3

MCSemesterOf == [c \in Section |-> "fall"]
MCCourseOf == [c \in Section |-> c]
MCPrerequisites == [k \in Course |-> {}]
MCCredits == [k \in Course |-> 3]
MCMaxCredits == [c \in Section |-> 0]
MCAlways == [t \in Semester |-> NoDate]
MCCapacities == [c \in Section |-> {1}]
MCTargets == [c \in Section |-> {"CONFIRMED", "DROPPED"}]

Symmetry == Permutations(Student)
=============================================================================
