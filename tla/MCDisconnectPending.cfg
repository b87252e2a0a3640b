SPECIFICATION Spec
CONSTANTS
    a = a
    b = b
    Topics = {}
    TopicLists = {}
    Nil = Nil
    MaxPushes = 0
    AppCalls = {"command", "disconnect"}
    ConnectCalls = {}
    Polite = FALSE
    OneShot = TRUE
    SpuriousEvents = FALSE
    MaxCmds = 2
INVARIANT NoAssertFails
CHECK_DEADLOCK FALSE
