SPECIFICATION Spec
CONSTANTS
  MaxEvents = 3
  MaxSessions = 3
  Event = {e1, e2}
  MaxUpdates = 3
  Conn = {n1, n2}
  Device = {d1, d2}
  None = None
  Torn = Torn
  Challenge = {ch1}
  ChallengeTtl = 1
  SessionTtl = 1
  MaxTime = 2
  MaxSecrets = 2
  Key = {k1, k2}
  Capacity = 3
  Rate = 1
  Cost = 2
  MaxSockets = 3
  Call = {c1, c2}
  MaxAttempts = 1
  Send = {"r1", "r2"}
  MaxChains = 2
  EnrollCall = {"enroll 1", "enroll 2"}
  AssertCall = {"assert"}
  Reset = {"reset"}
  MaxKeys = 2
  Socket = {"s1", "s2"}
  ChatUser = {"u1", "u2"}
  Said = {"t"}
  MaxRegistrations = 3
  Gateway = {"g1", "g2"}
  Cli = {"c"}
  Agent = {"a", "b"}
  DefaultAgent = "a"
  Conversation = {"k"}
  Rule <- RoutingRules
  MaxIds = 4
  Consumer = {"c1", "c2"}
  Batch = 2
  MaxEntries = 2
  Turn = {"a", "b"}
  Parts = 1
  Compaction = {"c1", "c2"}
  Search = {"s"}
  MaxVariables = 1
  MaxTimes = 1
  MaxRows = 4
  Evolve = {"e1", "e2"}
  Decay = {"decay"}
  Snapshot = {"snapshot"}
  Import = {"import"}
  Stored <- PersonasOnDisk
  Given <- FeedbackGiven
  MaxCalls = 2
  CreateCall = {"g1", "g2"}
  UpdateCall = {"update"}
  List = {"list"}
  Wire = {"fs_read", "run"}
  MaxRounds = 2
  MaxChunks = 3
  ProviderMessage = {"a", "b", "own"}
  Spoken = {"a", "b"}
  Foreign = {"unsigned"}
  Post = {"p1", "p2"}
  MaxDispatches = 2
INVARIANTS TypeOK SingleChain NothingLost Admission
CHECK_DEADLOCK FALSE
