SPECIFICATION Spec
\* Everything may have been shut down.
CHECK_DEADLOCK FALSE
CONSTANTS
  r1 = r1
  r2 = r2
  Runner = {r1}
  N4 = 2
  N6 = 1
  MaxShutdowns = 2
PROPERTIES
  ShutdownHeeded
