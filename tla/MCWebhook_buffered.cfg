CONSTANTS
  t1 = t1
  t2 = t2
  t3 = t3
  Tasks = {t1, t2, t3}
  Buffer = 1
  Retry <- Contended
  ValidURL = {t1, t3}
SPECIFICATION FairSpec
INVARIANTS
  TypeOK
  SingleOwner
  AttemptBudget
  NoEarlyGiveUp
PROPERTIES
  ImplementsNotifier
  DispatchReturns
  AcceptedResolved
  ShutdownCompletes
CHECK_DEADLOCK FALSE
