\* Two emitters, two clients with one connection each; a store call that fails beside
\* those of given-up handlers, so that two events may carry number 0.
SPECIFICATION Spec
CONSTANTS
  Emitters = {m1, m2}
  MaxCalls = 1
  Kinds = {"durable", "transient"}
  Clients = {c1, c2}
  BufferCap = 1
  MaxEvents = 2
  MaxFaults = 1
  MaxConns = 1
SYMMETRY Symmetry
INVARIANTS
  TypeOK
  UniqueNumbers
  DurableBeforeVisible
  EstablishedStreamComplete
CHECK_DEADLOCK FALSE
