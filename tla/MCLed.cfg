SPECIFICATION Spec
CONSTANTS
    Rows = {"a", "b"}
    Configs <- MCConfigs
    Rtts = {1, 2}
    MaxSamples = 3
INVARIANTS TypeOK CountersSound StreakIsRun WorstStateWins
PROPERTY LedPromise
