SPECIFICATION Spec
CONSTANTS
  Threads = {t1, t2, t3}
  Files = {f1, f2, f3}
  NoFile = NoFile
  Fds = {d1, d2}
SYMMETRY Symmetry
INVARIANTS TypeOK RefsAccounted DescriptorsOwned
