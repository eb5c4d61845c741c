SPECIFICATION FairSpec
CONSTANTS
    MaxRPCs = 1
    MaxRequests = 1
INVARIANT OrderlyExit
PROPERTY ServerExits
CHECK_DEADLOCK FALSE
