SPECIFICATION Spec
CONSTANTS
  Steps = {s1}
  Procs = {p1}
  Artifacts = {a1}
  MaxEvents = 4
  MaxInflight = 2
  MaxCrashes = 1
  MaxFaults = 2
INVARIANTS TypeOK StoresAgree StepShowsWorker ExitedIsOver DeletedStaysGone
CHECK_DEADLOCK FALSE
