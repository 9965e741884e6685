CONSTANTS
  MaxBoots = 3
  MaxEvents = 2
  MaxCommands = 1
SPECIFICATION MachineSpec
INVARIANTS OneMachine RunningIsRecorded NothingLeftBehind ReadyStaysAlive
           TrackedNotStolen ReadyIsWatched QuietPowerOff
PROPERTIES DataDiskContract OperationsEnd Announcements Pid1Progress
CHECK_DEADLOCK FALSE
