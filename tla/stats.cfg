SPECIFICATION Spec
CONSTANTS
  t1 = t1
  t2 = t2
  r1 = r1
  V4Task = {t1}
  V6Task = {t2}
  Reader = {r1}
  MaxReceived = 3
  NotLoaded = NotLoaded
INVARIANTS
  TypeOK
  SnapshotBracketed
  SkewBound
PROPERTIES
  SnapshotsMonotone
