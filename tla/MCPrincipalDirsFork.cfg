CONSTANTS
    Dirs = {"cur", "d1"}
    Cur = "cur"
    KeyFlagSets <- MCKeyFlagSets
    MaxRuns = 2
    MaxFaults = 0
SPECIFICATION Spec
INVARIANT ForkHonoursOverwrite
