SPECIFICATION Spec
CONSTANTS
    Sectors = {1, 2, 3}
    Fat1 = {1}
    Mirror <- MCMirror
    Data = {0, 1}
    CACHE_SIZE = 2
    Outcomes = {"stored", "late", "refused"}
INVARIANTS TypeOK OneSlotPerSector DriverAgreesWithCache
PROPERTIES LastUsedSurvives ImplementsDisk
