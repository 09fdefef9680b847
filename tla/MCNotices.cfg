SPECIFICATION NoticeSpec
CONSTANTS
  a = a
  Student = {s1, s2}
  Contact = {s1}
  Section = {a}
  Course = {a}
  Semester = {"fall"}
  NoDate = NoDate
  NoRow = NoRow
  SemesterOf <- MCSemesterOf
  CourseOf <- MCCourseOf
  Prerequisites <- MCPrerequisites
  Credits <- MCCredits
  Overlapping = {}
  MaxCredits <- MCMaxCredits
  DefaultMaxCredits = 21
  RegistrationStart <- MCDates
  RegistrationEnd <- MCDates
  AddDropStart <- MCNoDates
  AddDropEnd <- MCDates
  Capacities <- MCCapacities
  Statuses = {"OPEN"}
  Targets <- MCTargets
  MaxTime = 0
  MaxRows <- MCMaxRows
  MaxUnderWay = 1
INVARIANTS ToldOnce RowsAccountedFor
