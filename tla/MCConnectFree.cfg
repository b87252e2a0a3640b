SPECIFICATION Spec
CONSTANTS
    a = a
    b = b
    Topics = {}
    TopicLists = {}
    Nil = Nil
    MaxPushes = 0
    AppCalls = {"setConnect"}
    ConnectCalls = {"free"}
    Polite = FALSE
    OneShot = TRUE
    SpuriousEvents = FALSE
    MaxCmds = 0
INVARIANT NoUseAfterFree
CHECK_DEADLOCK FALSE
