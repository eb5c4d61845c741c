SPECIFICATION FairSpec
CONSTANTS
    Hosts = {1}
    Viewers = {v1}
    Workers = {w1}
    Scope <- Both
    MaxChanges = 2
    MaxPasses = 0
    MaxFaults = 0
PROPERTIES Converges
CHECK_DEADLOCK FALSE
