SPECIFICATION Spec
CONSTANTS
  Procs = {w1, w2}
  Writers = {w1, w2}
  Bytes = {a, b}
  NUL = NUL
  BUFFERSIZE = 3
  MaxResid = 4
INVARIANTS TypeOK CopiesInBuffer Terminated NoGapsUnmixed
PROPERTY EchoSpec
