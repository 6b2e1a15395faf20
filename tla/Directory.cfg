SPECIFICATION Spec
CONSTANTS
    Names = {"F", "A", "B", "D"}
    LfnEntries <- ShortNames
    Dotted = {}
    Dirs = {"D"}
    EntriesPerCluster = 3
    HiddenEntries = 2
    FreeClusters = 2
INVARIANTS NothingBehindEnd LfnRunsComplete NamesDiffer
PROPERTY ImplementsNameSet
