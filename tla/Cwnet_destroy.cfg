SPECIFICATION Spec
CONSTANTS
  Softcs = {s1}
  NoSc = NoSc
  Hz = 1
  QMax = 1
  Late = {s1}
  Sleepy = {}
INVARIANT TasksAreCancelled
CHECK_DEADLOCK FALSE
