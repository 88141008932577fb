SPECIFICATION Spec
\* The clock stops at its bound.
CHECK_DEADLOCK FALSE
SYMMETRY Symmetry
CONSTANTS
  Thread = {t1, t2}
  Key = {k1}
  Ttl = {1, 2}
  Interval = 1
  OneSecond = 1
  MaxDelay = 1
  MaxClock = 10
  NoEntry = NoEntry
INVARIANTS
  TypeOK
  AcceptBound
  ExpiryBound
PROPERTIES
  NotForgottenEarly
