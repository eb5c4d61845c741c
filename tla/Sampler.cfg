SPECIFICATION FairSpec
CONSTANTS
    Scenarios <- MCScenarios
    Readers <- MCReaders
    Flaky = {"cpu", "network"}
    MaxPoints = 60
    MayFail = {"counters", "interfaces"}
    Quiet = {1}
    MaxRounds = 3
INVARIANTS StatusesAreTrue RatesAreHonest 
PROPERTIES CollectingEnds SendersFinish
CHECK_DEADLOCK FALSE
