SPECIFICATION Spec
CONSTANTS
    a = a
    b = b
    Topics = {}
    TopicLists = {}
    Nil = Nil
    MaxPushes = 1
    AppCalls = {"command", "monitor"}
    ConnectCalls = {}
    Polite = FALSE
    OneShot = TRUE
    SpuriousEvents = FALSE
    MaxCmds = 2
INVARIANT RightCallback
CHECK_DEADLOCK FALSE
