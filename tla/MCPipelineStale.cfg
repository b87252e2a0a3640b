SPECIFICATION Spec
CONSTANTS
    n1 = n1
    n2 = n2
    Nodes = {n1, n2}
    Slots = {0, 1}
    None = None
    Orphan = Orphan
    Holders <- NodesAndOrphan
    FirstOwner <- TwoOwners
    MaxFaults = 1
    Lost = {}
    SlotLists <- OneAndBoth
    AppCalls = {"append", "getReply"}
    Careful = FALSE
    RouteUseSlots = TRUE
    HasTimeout = FALSE
    MaxRedirect = 2
    MaxCalls = 2
INVARIANT RightReply
CHECK_DEADLOCK FALSE
