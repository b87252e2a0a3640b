SPECIFICATION Spec
CONSTANTS
    a = a
    b = b
    Topics = {a, b}
    TopicLists <- MCTopicLists
    Nil = Nil
    MaxPushes = 1
    AppCalls = {"subscribe", "unsubscribe"}
    ConnectCalls = {}
    Polite = FALSE
    OneShot = TRUE
    SpuriousEvents = FALSE
    MaxCmds = 2
INVARIANT NoAssertFails
CHECK_DEADLOCK FALSE
