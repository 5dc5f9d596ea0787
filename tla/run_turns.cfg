\* One run, three messages, one cancel, two worker crashes at any point, no resume.
SPECIFICATION Spec
CONSTANTS
  m1 = m1
  m2 = m2
  m3 = m3
  Messages = {m1, m2, m3}
  MaxCrashes = 2
  MaxCancels = 1
  CanResume = FALSE
  CallsFail = FALSE
SYMMETRY Symmetry
\* Nothing is left to do once every message is sent and every turn is over.
CHECK_DEADLOCK FALSE
INVARIANTS
  TypeOK
  RunningIsAlive
  SettledWhenIdle
  OneActivity
PROPERTY CancelSticks
