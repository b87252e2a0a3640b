SPECIFICATION FairSpec
CONSTANTS
    n1 = n1
    n2 = n2
    Nodes = {n1, n2}
    Slots = {0, 1}
    None = None
    Orphan = Orphan
    Holders <- NodesAndOrphan
    FirstOwner <- TwoOwners
    MaxFaults = 2
    Lost = {1}
    SlotLists <- OneAndBoth
    AppCalls = {"command", "append", "getReply", "reset"}
    Careful = TRUE
    RouteUseSlots = TRUE
    HasTimeout = TRUE
    MaxRedirect = 2
    MaxCalls = 2
INVARIANTS AtMostOnce RightReply LinksClean RoutesValid NoVainWait
PROPERTY CallReturns
CHECK_DEADLOCK FALSE
