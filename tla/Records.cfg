\* One small instance of each part of the records; a behaviour moves one of
\* them.  Its processes may all be idle for good: no deadlock check.
SPECIFICATION RecordsSpec
CONSTANTS
  i0 = i0
  MemoryKey = {k1}
  ImportRequest = {s1}
  SnapshotKeys <- WholeSnapshots
  MaxRevision = 2
  Path = {i1, i2}
  NoPath = NoPath
  Reader = {u1, u2}
  MaxVersion = 2
  SourceCounts = {1}
  MaxVisits = 2
  MaxNodes = 3
  MaxKeys = 3
  KeyRequest = {i1, i2, i3}
  Caller = {u1, u2}
  Entity = {account, membership}
  NoOne = NoOne
  MaxRow = 2
  MaxCalls = 3
  Job = {j1}
  AgentTool = {ta, tb}
  MaxDefinition = 2
  MaxActions = 2
  MaxPerformed = 2
  MaxAccessChanges = 2
  Scope = {i0, i9}
  SourceEvent = {i1, i2}
  NoSource = NoSource
  MaxSequence = 2
  Applier = {u1, u2}
  MaxSubscription = 2
  MaxFactChanges = 1
  EntryKey = {i1, i2}
  TaskStart = {t1}
  MaxTimeline = 4
  MaxSessionMishaps = 2
  ChannelMessage = {m1, m2}
  Answering = {m2}
  Identity = {a1, a2}
  NoIdentity = NoIdentity
  Asker = a1
  Delivery = {u1, u2}
  MaxQuestions = 2
  MaxDeliveries = 3
  MaxRebinds = 1
  Feedback = {m1}
  Classification = {bug}
  RequiredField = {expected}
  ReplyKey = {i1, i2}
  Reporting = {u1, u2}
  MaxTurns = 3
  MaxReportMishaps = 1
  FeedbackId = {i1, i2}
  FeedbackReport = {r1, r2}
  Unverified = {r1}
  NoFeedback = NoFeedback
  Clone = {u1, u2}
  EditStatus = {"released"}
  EditEvidence <- EditEvidences
  EditForm = {"sound", "unparsed", "unfilled"}
  MaxEdits = 5
  Context = {i1, i2}
  Operator = {u1, u2}
  Permission = {"send"}
  ProfileVersion = {"v1", "v2"}
  FirstVersion = "v1"
  Granted <- SecondGrants
  MaxContextRevision = 2
  MaxProfileRuns = 3
  MaxProfileMishaps = 1
  Platform = {p1, p2}
  Own = {o1}
  AnyProfile = p1
  NoProfile = NoProfile
  RoutedTask = {t1}
  MaxEndpoint = 2
  Router = {u1, u2}
  RoutingPolicy <- FewPolicies
  MaxRouteMishaps = 2
  ReviewId = {i1, i2}
  Peer = {critic, a1}
  Author = a1
  NoReview = NoReview
  Findings = {m1}
  MaxArtifact = 2
  MaxPlan = 2
  MaxPapers = 3
  MaxPaperMishaps = 1
  Ingestor = {u1, u2}
  NoChunks = NoChunks
  MaxUpstream = 2
  MaxIngested = 3
  MaxIngests = 3
  Server = {u1, u2}
  Boundary = {i1, i2}
  Described = {d1, d2}
  NotRegistered = NotRegistered
  MaxGeneration = 2
  MaxReports = 2
  MaxRegistered = 2
  Deployer = {u1, u2}
  Build = {i1, i2}
  NoContainer = NoContainer
  MaxContainer = 2
  MaxDeployments = 3
  MaxDeployMishaps = 2
  Case = {u1, u2}
  Category <- OneCategory
  CheckName = {m1}
  MaxScore = 1
  MaxPosition = 3
  PageLimit = 1
  DelegatedWrite = {i1, i2}
  Endpoint = {i1, i2}
  PeerKey = {m1, m2}
  Human = {u1, u2}
  MaxPeerMessages = 2
  MaxPeerAttempts = 2
  MaxAsks = 2
  MaxControls = 2
SYMMETRY Alike
CHECK_DEADLOCK FALSE
INVARIANTS
  RecordsTypeOK
  RevocationBites
  LatestRules
  WhatIsToldHolds
  WorkHappensOnce
  ApprovalsBind
PROPERTIES
  SourcesGovern
  KeysHonest
  IdsKeepMeaning
  TaskKeepsModel
