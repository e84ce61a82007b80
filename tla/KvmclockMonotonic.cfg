\* Does the APIC timer calibration's assert after > before hold?
CONSTANTS
  FeatureSets <- MCFeatureSetsNew
  TscBits = 4
  MulBits = 2
  BuildProfile = "debug"
  MaxTsc = 5
  MaxUpdates = 3
  MaxCalls = 0
  MaxDay = 0
SPECIFICATION Spec
\* after boot and MaxCalls timer readings the guest is done; the host is bounded
CHECK_DEADLOCK FALSE
INVARIANT ApicCalibrationHolds
