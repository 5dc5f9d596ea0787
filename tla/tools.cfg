\* Three requests, which is a start, a stop and a repeat of either, or two
\* starts and a stop; a cache of one answer, one cleanup.
SPECIFICATION Spec
CONSTANTS
  r1 = r1
  r2 = r2
  r3 = r3
  a = a
  b = b
  c = c
  None = None
  Requests = {r1, r2, r3}
  StartKeys = {a, c}
  StopKeys = {b}
  MaxEntries = 1
  MaxCleanups = 1
SYMMETRY Symmetry
CHECK_DEADLOCK FALSE
INVARIANTS
  TypeOK
  AliveIsListed
  StoppedIsOver
  OncePerKey
