SPECIFICATION Spec
CONSTANTS
  s1 = s1
  s2 = s2
  p = p
  s3 = s3
  a = a
  b = b
  Student = {s1, s2, s3}
  Section = {a, b, p}
  Course = {a, b, p}
  Semester = {"fall"}
  NoDate = NoDate
  NoRow = NoRow
  SemesterOf <- MCSemesterOf
  CourseOf <- MCCourseOf
  Prerequisites <- MCPrerequisites
  Credits <- MCCredits
  Overlapping <- MCOverlapping
  MaxCredits <- MCMaxCredits
  DefaultMaxCredits = 21
  RegistrationStart <- MCRegistrationStart
  RegistrationEnd <- MCRegistrationEnd
  AddDropStart <- MCAddDropStart
  AddDropEnd <- MCAddDropEnd
  Capacities <- MCCapacities
  Statuses = {"OPEN"}
  Targets <- MCTargets
  MaxTime = 0
INVARIANT NoScheduleConflict
PROPERTIES CreditLoadWithinLimit SeatsNeedPrerequisites ReleaseLeavesNoIdleSeat
SYMMETRY Symmetry
