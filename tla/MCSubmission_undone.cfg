CONSTANTS
  r1 = r1
  r2 = r2
  hook = hook
  amqp = amqp
  Requests = {r1, r2}
  Destinations = {hook, amqp}
  Brokered = {amqp}
  BadTemplate <- OneBadTemplate
  Buffer <- SmallBuffers
  Workers = 1
SPECIFICATION Spec
INVARIANT SavedBeforeNotified
CHECK_DEADLOCK FALSE
