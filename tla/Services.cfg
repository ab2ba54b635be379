\* One small instance of each service beside the Task core; a behaviour moves
\* one of them.  Its processes may all be idle for good: no deadlock check.
SPECIFICATION ServicesSpec
CONSTANTS
  Rule = {rule}
  LastOf <- Lasts1
  Direct = {}
  TriggerOf <- Triggers
  Dispatcher = {d1, d2}
  Materializer = {m1, m2}
  Nobody = Nobody
  MaxAttempts = 2
  MaxDueMishaps = 1
  MaxDueChanges = 1
  EventKey = {e1, e2}
  Publisher = {b1, b2}
  Worker = {w1, w2}
  PageLimit = 2
  MaxFeedMishaps = 1
  c1 = c1
  ChargeKey = {c1, c2}
  RefundKey = {f1, f2}
  Bill = 1
  RefundAmount <- OneEach
  Caller = {k1, k2}
  MaxPayMishaps = 1
  Note = {n1, n2}
  Wake = {n2}
  Sender = {s1, s2}
  MaxWakeAttempts = 2
  MaxRetries = 1
  MaxSendMishaps = 1
  Turn = {t1, t2}
  MaxConcurrent = 1
  RequestsPerMinute = 2
  TokensPerMinute = 3
  Minute = 2
  MinInterval = 1
  MaxTokens = 2
  LastTick = 2
  MaxCallMishaps = 2
  Release = {v1, v2}
  Initial = v1
  Fallback = v1
  NoRelease = NoRelease
  Cycle = {y1}
  Monitor = {o1, o2}
  MaxRevision = 3
  MaxMonitorMishaps = 1
  Execution = {x1}
  Inspector = {i1, i2}
  MaxSandboxMishaps = 2
  BrowserAction = {a1}
  FileAction = {a2, a3}
  MaxDeviceMishaps = 2
  Grants = 1
  GrantCall = {g1, g2}
  Delegator = {r1}
  Executor = {q1, q2}
  MaxCalls = 1
  MaxGrantModelCalls = 1
  MaxGrantMishaps = 1
  p1 = p1
  Parent = {p1}
  Handoff = {dh}
  ParentOf <- OneParent
  Delegated = {dh}
  Host = {d1, d2}
  MaxModelCalls = 1
  MaxForgets = 1
  Item = {z1, z2, z3}
  Producer = {b1, b2}
  InboxLimit = 1
  MaxInboxMishaps = 1
  Projected = {z1}
  Projector = {j1, j2}
  MaxProjectionAttempts = 3
  MaxProjectionMishaps = 2
  Issue = {u2}
  Untold = {}
  Engineer = {l1}
  Follower = {d1, d2}
  Manager = {i1, i2}
  ReadEvidence = {z1, z2}
  EventLimit = 1
  MaxIssueRevision = 7
  MaxFollowMishaps = 1
SYMMETRY Workers
CHECK_DEADLOCK FALSE
INVARIANTS
  ServicesTypeOK
  NoEventSkipped
  MoneyMovesOnce
  OutboxTellsTruth
  LimitsHold
  VerdictMeansGone
  DeviceReceiptsTrue
  OutcomesHold
  HandoffsHold
PROPERTY DueWorkHolds
