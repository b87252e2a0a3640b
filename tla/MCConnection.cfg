SPECIFICATION FairSpec
CONSTANTS
    MaxFd = 5
    MaxAddrs = 2
    REDIS_CONNECT_RETRIES = 2
    MaxCmds = 3
    MaxReconnects = 2
    MaxInterrupts = 1
INVARIANTS RightReply FdsOwned
PROPERTIES ErrorIsFinal CallsReturn
CHECK_DEADLOCK FALSE
