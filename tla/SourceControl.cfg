CONSTANTS
    blueferry = blueferry
    tether = tether
    Sources = {blueferry, tether}
    Order <- MCOrder
    Default <- MCDefault
    Pinned = {blueferry}
    PinnedTo <- MCPinnedTo
    StoreFails = TRUE
    MaxToggles = 1
    MaxEdits = 1
SPECIFICATION Spec
INVARIANTS TypeOK OnlyExplicitChoices PinsHold
CHECK_DEADLOCK FALSE
