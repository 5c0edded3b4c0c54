SPECIFICATION Spec
CONSTANTS
  Procs = {w1, w2}
  Writers = {w1, w2}
  Bytes = {a}
  NUL = NUL
  BUFFERSIZE = 3
  MaxResid = 3
INVARIANT NoGaps
