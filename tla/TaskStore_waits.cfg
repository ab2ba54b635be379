\* One Task with two calls, so that a second wait can follow a first; one request
\* key, retried at will; an older version that no host runs any more.
CONSTANTS
  Process = {p1, p2}
  NoProcess = NoProcess
  v1 = v1
  Version = {v0, v1}
  VersionOf <- MCVersionOf
  Key = {k1}
  NoKey = NoKey
  MaxTasks = 1
  MaxCalls = 2
  MaxFaults = 1
  MaxStoreErrors = 1
SPECIFICATION Spec
SYMMETRY ProcessSymmetry
INVARIANTS
  EffectsAccounted
  InputDeliveredOnce
PROPERTIES
  OwnEvidenceEndsWait
CHECK_DEADLOCK FALSE
