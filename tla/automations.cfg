\* Two executions, one restart, one failing call of the store, any number of
\* edits, polls and calls.
SPECIFICATION FairSpec
CONSTANTS
  j1 = j1
  j2 = j2
  Jobs = {j1, j2}
  Outcomes = {"timeout", "error"}
  MaxCrashes = 1
  MaxFaults = 1
CHECK_DEADLOCK FALSE
INVARIANTS
  TypeOK
  OneJob
  InProgressExact
PROPERTIES
  EntriesAdvance
  EntriesComplete
