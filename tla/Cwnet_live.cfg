SPECIFICATION FairSpec
CONSTANTS
  Softcs = {s1, s2}
  NoSc = NoSc
  Hz = 1
  QMax = 1
  Late = {}
  Sleepy = {s1, s2}
PROPERTY GeneratorProgress
CHECK_DEADLOCK FALSE
