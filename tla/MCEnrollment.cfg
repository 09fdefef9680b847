SPECIFICATION Spec
CONSTANTS
  s1 = s1
  s2 = s2
  s3 = s3
  s4 = s4
  a = a
  Student = {s1, s2, s3, s4}
  Section = {a}
  Course = {a}
  Semester = {"fall"}
  NoDate = NoDate
  NoRow = NoRow
  SemesterOf <- MCSemesterOf
  CourseOf <- MCCourseOf
  Prerequisites <- MCPrerequisites
  Credits <- MCCredits
  Overlapping <- MCOverlapping
  MaxCredits <- MCMaxCredits
  DefaultMaxCredits = 21
  RegistrationStart <- MCRegistrationStart
  RegistrationEnd <- MCRegistrationEnd
  AddDropStart <- MCAddDropStart
  AddDropEnd <- MCAddDropEnd
  Capacities <- MCCapacities
  Statuses = {"OPEN", "CLOSED"}
  Targets <- MCTargets
  MaxTime = 4
INVARIANTS TypeOK EnrolledCountInSync QueueGapless NeverQueuedAndEnrolled
PROPERTIES NoOversell ReleaseLeavesNoIdleSeat ImplementsSeatAllocation
SYMMETRY Symmetry
