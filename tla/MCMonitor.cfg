SPECIFICATION FairSpec
CONSTANTS
    Widgets = {"w"}
    Configs = {"c1", "c2"}
    NoFile = "none"
    MaxDirs = 2
    MaxEdits = 2
    MaxMishaps = 1
INVARIANTS TypeOK ShowsCurrent NewsFlagged
PROPERTIES EditsReach
