SPECIFICATION Spec
CONSTANTS
    Keys = {cpu, mem}
    MaxPoints = 2
    MaxReports = 4
    MaxFaults = 3
INVARIANTS TypeOK   
CHECK_DEADLOCK FALSE
