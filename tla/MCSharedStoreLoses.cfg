SPECIFICATION FairSpec
CONSTANTS
    Widgets = {"w1", "w2"}
    Values = {"none", "a", "b"}
    EmptyJson = "none"
    Nobody = "nobody"
    JobsPerWidget = 1
    SlowJobs = FALSE
    MaxEdits = 3
    MaxFailures = 1
PROPERTY LosesOnlyToOthers
