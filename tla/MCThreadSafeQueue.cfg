SPECIFICATION QueueSpec
CONSTANTS
  Threads = {t1, t2, t3, t4}
  Values = {v1}
  NoValue = NoValue
  NoThread = NoThread
  MaxItems = 3
INVARIANTS
  QueueTypeOK
  NoLostWakeup
  NoPopOfEmpty
SYMMETRY Symmetry
