\* Two hosts, one executor lock, two Tasks that compete for it, one call; one
\* crash, lost session, drain or stop, and one refused transaction.
CONSTANTS
  Process = {p1, p2}
  NoProcess = NoProcess
  v1 = v1
  Version = {v1}
  VersionOf <- MCVersionOf
  Key = {}
  NoKey = NoKey
  MaxTasks = 2
  MaxCalls = 1
  MaxFaults = 1
  MaxStoreErrors = 1
SPECIFICATION Spec
SYMMETRY ProcessSymmetry
INVARIANTS
  TypeOK
  NoWorkOnDoubt
  LiveSessionOwns
PROPERTIES
  ImplementsPromise
CHECK_DEADLOCK FALSE
