\* Two messages by either handler, one cancel, one crash, under fairness.
SPECIFICATION FairSpec
CONSTANTS
  m1 = m1
  m2 = m2
  Messages = {m1, m2}
  MaxCrashes = 1
  MaxCancels = 1
  CanResume = TRUE
  CallsFail = TRUE
\* Nothing is left to do once every message is sent and every turn is over.
CHECK_DEADLOCK FALSE
INVARIANT OneVerdict
PROPERTY MessagesServed
