CONSTANTS
  Drive = {c, d}
  MaxStarts = 3
  History = 1
  Channel = 1
  MaxFacts = 2
  MaxLives = 1
  Socket = {s1, s2}
  Ip = {i1}
  Ring = 2
  MaxContainers = 2
  MaxOpens = 2
  MaxRequests = 3
  MaxIno = 5
SPECIFICATION HostSpec
INVARIANTS ResumeOnce SharesRemembered SharesExact
           FactsKept ExchangesPaired MountSound
           NetworkSound VolumesSound InstallerWholeElse
PROPERTIES FilesSurvive
CHECK_DEADLOCK FALSE
