SPECIFICATION FairSpec
CONSTANTS
    Procs = {"p1", "p2"}
    NoProc = NoProc
    Configs = {"no rows", "c1"}
    NoRows = "no rows"
    NoFile = NoFile
    Generations = 2
    MaxMishaps = 1
    StaleLimit = 1
    MaxEdits = 1
INVARIANTS TypeOK StateIsOurs
PROPERTY Serves
