SPECIFICATION RecordsSpec
CONSTANTS
  s1 = s1
  s2 = s2
  s3 = s3
  a = a
  Student = {s1, s2, s3}
  Section = {a}
  Course = {a}
  Semester = {"fall"}
  NoDate = NoDate
  NoRow = NoRow
  NoGrade = NoGrade
  SemesterOf <- MCSemesterOf
  CourseOf <- MCCourseOf
  Prerequisites <- MCPrerequisites
  Credits <- MCCredits
  Overlapping = {}
  MaxCredits <- MCMaxCredits
  DefaultMaxCredits = 21
  RegistrationStart <- MCAlways
  RegistrationEnd <- MCAlways
  AddDropStart <- MCAlways
  AddDropEnd <- MCAlways
  Capacities <- MCCapacities
  Statuses = {"OPEN", "CLOSED"}
  Targets <- MCTargets
  MaxTime = 1
  MaxPosition = 3
INVARIANTS RecordsTypeOK PublishedOnlyOnceConfirmed
PROPERTIES WaitlistOrderStable CounterHeals
SYMMETRY Symmetry
