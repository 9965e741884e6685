CONSTANTS
    Drive = {c, d}
    MaxStarts = 3
SPECIFICATION Spec
INVARIANT PortsAlwaysDiffer
