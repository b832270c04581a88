CONSTANTS
    blueferry = blueferry
    tether = tether
    Sources = {blueferry, tether}
    Order <- MCOrder
    Default <- MCDefault
    Pinned = {}
    PinnedTo <- MCPinnedTo
    StoreFails = FALSE
    MaxToggles = 1
    MaxEdits = 1
SPECIFICATION Spec
INVARIANTS SwitchedOffIsOff
CHECK_DEADLOCK FALSE
