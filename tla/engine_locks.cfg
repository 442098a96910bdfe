SPECIFICATION Spec
CONSTANTS
  Threads = {t1, t2, t3}
  NoThread = NoThread
  MaxLevels = 1
INVARIANTS
  TypeOK
  NoCircularWait
PROPERTIES
  EveryCallEnds
