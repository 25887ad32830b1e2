CONSTANTS
  t1 = t1
  t2 = t2
  t3 = t3
  w1 = w1
  w2 = w2
  NoTask = NoTask
  Tasks = {t1, t2}
  Buffer = 1
  Retry <- Mixed
  Workers = {w1, w2}
SPECIFICATION ResponsiveSpec
INVARIANTS
  TypeOK
  SingleOwner
  NoSocketLeak
  FreshRetry
  PublishBudget
PROPERTIES
  ImplementsNotifier
  AcceptedResolved
  ShutdownCompletes
CHECK_DEADLOCK FALSE
