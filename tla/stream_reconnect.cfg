\* One client that may reconnect once; one emitter that may give its first call up
\* and make a second beside it.  A failing call: only those of a given-up handler.
SPECIFICATION FairSpec
CONSTANTS
  Emitters = {m1}
  MaxCalls = 2
  Kinds = {"durable", "local"}
  Clients = {c1}
  BufferCap = 1
  MaxEvents = 2
  MaxFaults = 0
  MaxConns = 2
INVARIANT
  WriterOrder
PROPERTIES
  EmittersReturn
  ImplementsEventLog
CHECK_DEADLOCK FALSE
