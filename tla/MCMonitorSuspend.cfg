SPECIFICATION Spec
CONSTANTS
    Widgets = {"w"}
    Configs = {"c1"}
    NoFile = "none"
    MaxDirs = 2
    MaxEdits = 2
    MaxMishaps = 1
INVARIANT StaleMeansGone
