\* The version-checked read of the pvclock structure, and the calendar.
CONSTANTS
  FeatureSets <- MCFeatureSets
  TscBits = 4
  MulBits = 2
  BuildProfile = "release"
  MaxTsc = 5
  MaxUpdates = 3
  MaxCalls = 1
  MaxDay = 47541
SPECIFICATION Spec
\* after boot and MaxCalls timer readings the guest is done; the host is bounded
CHECK_DEADLOCK FALSE
INVARIANT CalendarCorrect
PROPERTY AtomicRead
