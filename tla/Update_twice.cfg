SPECIFICATION Spec
INVARIANTS InstallerWhole
CHECK_DEADLOCK FALSE
