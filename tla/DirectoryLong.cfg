SPECIFICATION Spec
CONSTANTS
    Names = {"F", "L"}
    LfnEntries <- LongNames
    Dotted = {}
    Dirs = {}
    EntriesPerCluster = 3
    HiddenEntries = 2
    FreeClusters = 2
PROPERTY ImplementsNameSet
