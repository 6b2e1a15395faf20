SPECIFICATION Spec
CONSTANTS
    MaxPid = 3
    BootModules = 2
    Ram <- TightRam
    LowDevice = {100}
    HighDevice = {200}
    PagesPerTable = 2
    StackPage = 6
    Images <- MCImages
    Growth = {2}
    DeviceMaps <- ScreenMaps
INVARIANTS TypeOK FramesHaveOneUse Cr3Intact
PROPERTIES CallsDoNotLeak SbrkMapsItsPages
