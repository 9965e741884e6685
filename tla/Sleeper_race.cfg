SPECIFICATION Spec
CONSTANTS
    Container = {c1}
    Conn = {k1}
    Eligible = {c1}
    SettingsChange = FALSE
    MaxFailures = 0
    UserPauses = FALSE
    ContainersDie = FALSE
    ServiceCrashes = FALSE
    MaxEvents = 1
INVARIANTS
    NoFrozenRelay
