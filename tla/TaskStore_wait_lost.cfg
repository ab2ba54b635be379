\* One host, one Task that waits on an external result while its model is switched.
CONSTANTS
  Process = {p1}
  NoProcess = NoProcess
  v1 = v1
  Version = {v1}
  VersionOf <- MCVersionOf
  Key = {}
  NoKey = NoKey
  MaxTasks = 1
  MaxCalls = 1
  MaxFaults = 0
  MaxStoreErrors = 0
SPECIFICATION Spec
INVARIANTS
  ResultWaitRediscoverable
CHECK_DEADLOCK FALSE
