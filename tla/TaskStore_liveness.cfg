\* Two hosts, no refused transactions; two mishaps, so that an executor can be
\* lost while it drains, or twice in a row.
CONSTANTS
  Process = {p1, p2}
  NoProcess = NoProcess
  v1 = v1
  Version = {v1}
  VersionOf <- MCVersionOf
  Key = {}
  NoKey = NoKey
  MaxTasks = 1
  MaxCalls = 1
  MaxFaults = 2
  MaxStoreErrors = 0
SPECIFICATION FairSpec
PROPERTIES
  DispatchedCallsSettle
  QueueNeverStalls
  DrainHandsOver
CHECK_DEADLOCK FALSE
