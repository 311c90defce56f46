SPECIFICATION FairSpec
CONSTANTS
  e1 = e1
  e2 = e2
  e3 = e3
  w1 = w1
  Events = {e1, e2, e3}
  Pollers = {w1}
  MAX_ATTEMPTS = 3
  BATCH = 2
INVARIANTS
  ConcludedLeftAlone
  DeadLetterAlertedOnce
PROPERTIES
  EveryCallbackConcluded
