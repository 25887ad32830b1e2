CONSTANTS
  Durations = {0, 1, 3}
  Attempts <- RetryValues
SPECIFICATION Spec
PROPERTY DocumentedInterval
CHECK_DEADLOCK FALSE
