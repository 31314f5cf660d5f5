SPECIFICATION InventorySpec
CONSTANTS
    Peer = {p1, p2, p3, h}
    Honest = {h}
    LastInv = 4
    MaxClock = 10
    Prompt = TRUE
    MaxForgotten = 0
PROPERTY
    RetriesSpaced
CHECK_DEADLOCK FALSE
