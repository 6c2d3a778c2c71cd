CONSTANTS
    Dirs = {"cur", "d1"}
    Cur = "cur"
    KeyFlagSets <- MCKeyFlagSets
    MaxRuns = 3
    MaxFaults = 1
SPECIFICATION Spec
INVARIANTS TypeOK DefaultIsOwn
PROPERTY OnlyOverwriteDestroys
