SPECIFICATION Spec
CONSTANTS
    Streams <- TestStreams
    MaxTasks = 9
    DiscardAt = 6
INVARIANTS RepliesOfStream NoneHeldBack ErrorOfStream
PROPERTY GetReplyReturns
CHECK_DEADLOCK FALSE
