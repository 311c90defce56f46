SPECIFICATION Spec
CONSTANTS
  b1 = b1
  q1 = q1
  q2 = q2
  l1 = l1
  Browsers = {b1}
  Requests = {q1, q2}
  Links = {l1}
  MaxTokens = 3
  NoToken = NoToken
  NoBrowser = NoBrowser
  NoLink = NoLink
SYMMETRY SessionSymmetry
INVARIANTS
  NoFalseAlarm
  EndedStaysEnded
  OneLiveToken
  NothingOutlivesReset
CHECK_DEADLOCK FALSE
