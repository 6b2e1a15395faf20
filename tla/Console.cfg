SPECIFICATION FairSpec
CONSTANTS
    Letters = {"x"}
    Others <- MCOthers
    ExtendedKeys <- MCExtended
    Shifted <- MCShifted
    Sessions <- MCSessions
    KEYBOARD_BUFFER_SIZE = 2
    SHELL_MAX_INPUT = 2
    Printable <- MCPrintable
    Cols = 6
    Rows = 3
    Outputs <- MCOutputs
INVARIANTS ScreenShowsLine ModifiersMatch
PROPERTIES ImplementsTypeAhead KeysReachShell
