SPECIFICATION EngineSpec
CONSTANTS
    MaxBoots = 3
    MaxEvents = 2
INVARIANTS
    ReadyIsAlive
