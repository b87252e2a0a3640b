SPECIFICATION Spec
CONSTANTS
    MaxFd = 2
    MaxAddrs = 1
    REDIS_CONNECT_RETRIES = 1
    MaxCmds = 0
    MaxReconnects = 1
    MaxInterrupts = 0
INVARIANT ClosesItsSocket
CHECK_DEADLOCK FALSE
