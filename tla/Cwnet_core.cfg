SPECIFICATION RateSpec
CONSTANTS
  Softcs = {s1, s2}
  NoSc = NoSc
  Hz = 2
  QMax = 1
  MaxNow = 4
  Late = {s1}
  Sleepy = {s1}
INVARIANTS TypeOK NoStrandedPackets SilentUntilConfigured TeardownReleases NeverFaults PaidFor
PROPERTIES GeneratorNeverDies SourceSpec
CHECK_DEADLOCK FALSE
