SPECIFICATION Spec
CONSTANTS
  Mounts = {m1}
  NoMount = NoMount
  Vnodes = {v1}
  NoVnode = NoVnode
  Procs = {p1}
  NoProc = NoProc
  Inos = {1}
  MaxUse = 2
  Builds = {FALSE}
  Raced = {}
INVARIANT MountNeverPanics
CHECK_DEADLOCK FALSE
