SPECIFICATION Spec
CONSTANTS
    Scenarios <- MCScenarios
    Readers <- MCReaders
    Flaky = {"cpu", "network"}
    MayFail = {"counters", "interfaces"}
    Quiet = {1}
    MaxPoints = 60
    MaxRounds = 3
INVARIANTS CPUKept
CHECK_DEADLOCK FALSE
