\* One host, one write whose settle transaction the database refuses.
CONSTANTS
  Process = {p1}
  NoProcess = NoProcess
  v1 = v1
  Version = {v1}
  VersionOf <- MCVersionOf
  Key = {}
  NoKey = NoKey
  MaxTasks = 1
  MaxCalls = 1
  MaxFaults = 0
  MaxStoreErrors = 1
SPECIFICATION Spec
INVARIANTS
  PerformedWriteNotFailed
CHECK_DEADLOCK FALSE
