\* docs/workflows.md:307, refuted: an event between ListEvents and Subscribe.
SPECIFICATION Spec
CONSTANTS
  Emitters = {m1, m2}
  MaxCalls = 1
  Kinds = {"durable"}
  Clients = {c1}
  BufferCap = 2
  MaxEvents = 2
  MaxFaults = 0
  MaxConns = 1
INVARIANT
  ReplayIsComplete
CHECK_DEADLOCK FALSE
