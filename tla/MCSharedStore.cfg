SPECIFICATION FairSpec
CONSTANTS
    Widgets = {"w1", "w2"}
    Values = {"none", "a", "b"}
    EmptyJson = "none"
    Nobody = "nobody"
    JobsPerWidget = 1
    SlowJobs = FALSE
    MaxEdits = 2
    MaxFailures = 1
INVARIANT TypeOK
PROPERTIES NoWipeFromStartUp EmptiesOnlyOnRequest Converges
