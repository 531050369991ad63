SPECIFICATION Spec
CONSTANTS
  Page = {p1, p2}
  Timed = {p2}
  Runner = {w1, w2}
  Caller = {c1}
  MaxData = 1
INVARIANTS SingleFlight RevalidatingIsWorking LoneInvalidationHolds
PROPERTY HtmlNeverGoesBack
CHECK_DEADLOCK FALSE
