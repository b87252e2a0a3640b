SPECIFICATION Spec
CONSTANTS
    None = None
    REDIS_CLUSTER_SLOTS = 4
    Replies <- MCReplies
    FlagSets <- MCFlagSets
    OldRoutes <- MCOldRoutes
INVARIANTS RouteOfCluster SlavesOfMasters RangesApart ConnectionsCarried
PROPERTY NoneDropped
CHECK_DEADLOCK FALSE
