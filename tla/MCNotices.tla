----------------------------- MODULE MCNotices ------------------------------
(* One section, a student whose messages can be sent and one whose cannot; *)
(* each may enrol, wait and come back as often as MaxRows allows.          *)
EXTENDS EnrollmentNotices

CONSTANT a

MCSemesterOf == [c \in Section |-> "fall"]
MCCourseOf == [c \in Section |-> c]
MCPrerequisites == [k \in Course |-> {}]
MCCredits == [k \in Course |-> 3]
MCTargets == [c \in Section |-> {"CONFIRMED", "DROPPED", "CANCELLED"}]
MCCapacities == [c \in Section |-> {1, 2}]
MCMaxCredits == [c \in Section |-> 0]
MCMaxRows == [s \in Student |-> IF s \in Contact THEN 2 ELSE 1]
MCDates == [t \in Semester |-> 0]
MCNoDates == [t \in Semester |-> NoDate]
=============================================================================
