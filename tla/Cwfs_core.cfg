SPECIFICATION Spec
CONSTANTS
  Mounts = {m1, m2}
  NoMount = NoMount
  Vnodes = {v1, v2}
  NoVnode = NoVnode
  Procs = {p1, p2}
  NoProc = NoProc
  Inos = {1}
  MaxUse = 2
  Builds = {TRUE, FALSE}
  Raced = {m1}
SYMMETRY Symmetry
INVARIANTS TypeOK DevRefsAccounted DeadIsForgotten NoUnusedNodes MarkIsLive UnmountedIsEmpty NeverFaults
PROPERTY LifeSpec
CHECK_DEADLOCK FALSE
