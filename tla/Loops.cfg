\* One small instance of each loop; a behaviour moves one of them.  Its processes
\* may all be idle for good: no deadlock check.
SPECIFICATION LoopsSpec
CONSTANTS
  Rule = {rule}
  LastOf <- Lasts0
  follow = follow
  Direct = {follow}
  TriggerOf <- Triggers
  Dispatcher = {d1}
  Materializer = {m1}
  Nobody = Nobody
  MaxAttempts = 2
  MaxDueMishaps = 1
  MaxDueChanges = 0
  Grants = 1
  GrantCall = {g1, g2}
  Delegator = {r1}
  Executor = {q1, q2}
  MaxCalls = 1
  MaxGrantModelCalls = 1
  MaxGrantMishaps = 1
  p1 = p1
  Parent = {p1}
  Handoff = {dh}
  ParentOf <- OneParent
  Delegated = {dh}
  Host = {q1}
  MaxModelCalls = 1
  MaxForgets = 2
  Issue = {u1, u2}
  Untold = {u1}
  Engineer = {l1}
  Follower = {h1}
  Manager = {}
  ReadEvidence = {}
  EventLimit = 1
  MaxIssueRevision = 7
  MaxFollowMishaps = 1
CHECK_DEADLOCK FALSE
PROPERTIES
  DueWorkSettles
  ClosedGrantsEnd
  HandoffsEnd
  ResolvedIsTold
