SPECIFICATION Spec
CONSTANTS
    HEADER = 12
    PAGE = 64
    WIDTH = 1024
    Base = 64
    MaxBreak = 320
    Requests = {0, 18, 41, 70}
INVARIANTS BlocksTile LiveHaveBlocks FreeIsCoalesced
PROPERTY OthersStay
