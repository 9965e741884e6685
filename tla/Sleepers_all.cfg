SPECIFICATION SleepersSpec
CONSTANTS
    Container = {c1, c2}
    Conn = {k1, k2}
    Eligible = {c1, c2}
    SettingsChange = FALSE
    MaxFailures = 0
    UserPauses = FALSE
    ContainersDie = FALSE
    ServiceCrashes = FALSE
    MaxEvents = 1
    FaultyContainer = {c1}
    FaultyConn = {k1}
    FaultyFailures = 1
    FaultyEvents = 2
INVARIANTS
    SleepingIsAccurate
    PauseRemembered
    WakerFindsPaused
PROPERTIES
    WokenBeforeRelayed
    IdleDecisionSound
    IdleContainersSleep
    PausesKeptElse
    ConnectionsServed
