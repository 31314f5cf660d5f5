SPECIFICATION InventorySpec
CONSTANTS
    Peer = {p1, p2, h}
    Honest = {h}
    LastInv = 5
    MaxClock = 9
    Prompt = FALSE
    MaxForgotten = 1
INVARIANT
    InventoryTypeOK
PROPERTIES
    ItemArrives
    NewRequestsWait
CHECK_DEADLOCK FALSE
