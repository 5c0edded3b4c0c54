SPECIFICATION ServeSpec
CONSTANTS
  Mounts = {m1, m2}
  NoMount = NoMount
  Vnodes = {v1, v2}
  NoVnode = NoVnode
  Procs = {p1}
  NoProc = NoProc
  Inos = {1}
  MaxUse = 1
  Builds = {TRUE, FALSE}
  Raced = {m1}
  Clients = {c1}
  NoClient = NoClient
  MaxNow = 1
SYMMETRY Symmetry
INVARIANTS RightsOfThisMount TimesSane TimesNeverGoBack
CHECK_DEADLOCK FALSE
