---------------------------- MODULE MCEnrollment ----------------------------
(* One section and four students.  Registration is open at 1 and closed at 2, *)
(* when seats may still be dropped; add/drop is open at 3, and all is over at *)
(* 4.                                                                         *)
EXTENDS EnrollmentRefinement, TLC

CONSTANTS a, s1, s2, s3, s4

MCSemesterOf == [c \in Section |-> "fall"]
MCCourseOf == [c \in Section |-> c]
MCPrerequisites == [k \in Course |-> {}]
MCCredits == [k \in Course |-> 3]
MCOverlapping == {}
MCTargets == [c \in Section |-> EnrollmentStatus]
MCCapacities == [c \in Section |-> {0, 1, 2}]
MCMaxCredits == [c \in Section |-> 0]
MCRegistrationStart == [t \in Semester |-> 1]
MCRegistrationEnd == [t \in Semester |-> 1]
MCAddDropStart == [t \in Semester |-> 3]
MCAddDropEnd == [t \in Semester |-> 3]

Symmetry == Permutations(Student)
=============================================================================
