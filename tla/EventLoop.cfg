SPECIFICATION Spec
CONSTANTS
  Threads = {t1, t2}
  Loop = loop
  Tasks = {f1, f2}
INVARIANTS
  NoLostWakeup
  NoLostQuit
  QueueOrder
PROPERTIES
  EveryFunctorRuns
  QuitEnds
  ImplementsExecutor
CHECK_DEADLOCK FALSE
