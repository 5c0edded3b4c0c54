SPECIFICATION Spec
CONSTANTS
  Vnodes = {v1, v2}
  NoVnode = NoVnode
  Files = {f1, f2}
SYMMETRY Symmetry
CHECK_DEADLOCK FALSE
INVARIANT GoneIsLeftAlone
