SPECIFICATION FairSpec
CONSTANTS
    a = a
    b = b
    Topics = {}
    TopicLists = {}
    Nil = Nil
    MaxPushes = 1
    AppCalls = {"command", "disconnect", "free", "setConnect", "setDisconnect"}
    ConnectCalls = {"command"}
    Polite = FALSE
    OneShot = FALSE
    SpuriousEvents = TRUE
    MaxCmds = 3
INVARIANTS TypeOK InOrder CleanDisconnect NoUseAfterFree WakeupArmed
PROPERTIES ImplementsQueue EveryCallbackRuns DisconnectCompletes
CHECK_DEADLOCK FALSE
