\* Each component under the bounds MCComponents gives it.
CONSTANTS
  None = None
  Passed = {0}
  Failed = {1}
  Code = {0, 1}
  MaxBytes = 1
  HostFrame = {"f1", "f2", "f3"}
  Size <- MCSize
  Maximum = 2
  Replies = 1
  Fixture <- MCFixture
  WorkerFixture = {"db", "server", "odd"}
  DependsOn <- MCDependsOn
  TestScope = {"t1", "t2"}
  Worker = "w"
  MaxQueue = 2
  Action = {"a1", "a2"}
  Kind <- MCKind
  ForcedAction = {"a2"}
  Additional <- MCAdditional
  Supported = {"attached", "unique", "visible", "stable", "enabled", "editable", "focusable"}
  Nodes <- NodeSets
  Relations <- RelationSets
  Inspecting = {"a1"}
  Subscriber = {"s1", "s2"}
  PageRequest = {"q1", "q2"}
  BufferLimit = 2
  Emitted = {"request"}
  MaxEvents = 3
  Export = {"x1", "x2", "x3"}
  OpenErrors = {"noPlace", "noDescriptor"}
  GitCall = {"c1", "c2"}
  GitProvider = {"p1", "p2"}
  OpId = {"o1", "o2"}
  Uuid = {"u1"}
  GitCommit = {"k1", "k2"}
  Client = {"c1", "c2", "c3"}
  Snapshot = {"s1"}
  RequestId = {"r1", "r2"}
  StartRequested <- StartRequests
  Sensitive = {"sensitive"}
  ForeignTest = {}
  MaxRestarts = 1
  AuthorOp = {"o1"}
  RouterConfig <- Configs
  JudgeRequest <- JudgeRequests
  ModelDecision <- Decisions
  FakeScript <- Steps
  ImageArtifact = {"shot"}
  RunCalls <- CallsOfRuns
  HostScripts <- Conversations
  HostElement = {"window", "a", "b"}
  RootElement = "window"
  MaxIdentity = 2
  HandleLimit = 3
  OperationLimit = 2
SPECIFICATION AllSpec
INVARIANTS DependentsFirst AcceptedIsFounded BatchIsWhole PreviousOrNew RequestIsKept CleanupIsTrue RouteIsAnswered LiveRunIsProven RunIsEarned HostIsTrue SurfacesAreGivenBack ReportIsTrue SamplesAreHonest TransferIsSound
PROPERTIES RefusedIsUntouched SubmittedOnOpen SnapshotsStandAlone
CHECK_DEADLOCK FALSE
