\* Three starts of an agent, three streams, faults anywhere.
SPECIFICATION FairSpec
CONSTANTS
    Agents = {1, 2, 3}
    FactsOf <- Starts
    Tenants = {"t"}
    AllowCustomTenantCode = TRUE
    Streams = {1, 2, 3}
    MaxSeq = 3
    MaxFaults = 2
INVARIANTS TypeOK AckedMeansStored StoredOnce SinkIsQuiet FatalOnlyForTenant
PROPERTIES  MissingTenantStops
CHECK_DEADLOCK FALSE
