SPECIFICATION Spec
CONSTANTS
  MaxPolls = 3
  NotReadyDelay = 1
  ThrottledDelay = 2
  TransientDelay = 1
  UnknownDelay = 1
INVARIANTS TypeOK EmptyIsHonest RequestsBounded FirstErrorKept LateReportRetried
PROPERTIES CallEnds
