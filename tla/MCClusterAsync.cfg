SPECIFICATION Spec
CONSTANTS
    n1 = n1
    n2 = n2
    Nodes = {n1, n2}
    Slots = {0, 1}
    None = None
    Dangling = Dangling
    Holders = {11, 12, 13}
    FirstOwner <- OneOwner
    MaxFaults = 1
    AppCalls = {"nested", "retry", "free"}
    RouteModes = {TRUE, FALSE}
    MaxRedirect = 1
    MaxCalls = 3
INVARIANTS Accounted OwnReply AtMostOnce LinksAgree
CHECK_DEADLOCK FALSE
