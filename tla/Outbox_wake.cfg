\* One wake, and two pumps that recover it.
SPECIFICATION OutboxSpec
CONSTANTS
  Note = {n1}
  Wake = {n1}
  Sender = {s1, s2}
  MaxWakeAttempts = 2
  MaxRetries = 1
  MaxSendMishaps = 1
CHECK_DEADLOCK FALSE
INVARIANT WakeAttemptsBounded
