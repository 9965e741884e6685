CONSTANTS
  HostPort = {80}
  Ip = {1, 2}
  MaxChanges = 3
  MaxLives = 2
  MaxEvents = 3
  MaxSent = 2
  Instance = {1, 2}
  MaxAnswer = 1
  Setter = {a, b}
  Channel = 1
  MaxStates = 2
  MaxLines = 2
  Container = {"my_web", "my.web"}
  UserLine = {u1}
  Job = {j1, j2}
  MaxStarts = 2
  MaxEdits = 1
  MaxWrites = 2
  MaxFrames = 1
  Terminal = 1
  Caller = {a, b}
  MaxCalls = 3
  Worker = {w1, w2}
  Id = {1, 2}
  Name = {n}
  Address = {i1, i2, i3}
  Port = {7}
  Servers = 1
  MAX_IN_FLIGHT = 2
  MAX_NAMES = 2
  MaxQuestions = 3
  MaxIps = 1
  Mount = {c, d}
  Connections = 2
  MaxMachines = 3
SPECIFICATION Spec
INVARIANTS ListenersCurrent StreamsWhole ProxyForwards ShowsStateElse DomainsSound
           AnswersInOrder PoolsSound
PROPERTIES RelaysFollow ConnectionsEnd WaitsEnd
CHECK_DEADLOCK FALSE
