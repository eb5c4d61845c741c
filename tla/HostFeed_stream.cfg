SPECIFICATION FairSpec
CONSTANTS
    Hosts = {1, 2}
    Viewers = {v1}
    Workers = {w1}
    Scope <- First
    MaxChanges = 2
    MaxPasses = 1
    MaxFaults = 1
INVARIANTS TypeOK OneLateWrite ViewFollowsEvents
PROPERTIES RevokedStreamsEnd
CHECK_DEADLOCK FALSE
