SPECIFICATION Spec
CONSTANTS
    a = a
    b = b
    Topics = {a, b}
    TopicLists <- MCTopicLists
    Nil = Nil
    MaxPushes = 1
    AppCalls = {"command", "subscribe", "unsubscribe", "monitor", "silent", "setDisconnect"}
    ConnectCalls = {}
    Polite = TRUE
    OneShot = TRUE
    SpuriousEvents = FALSE
    MaxCmds = 3
INVARIANTS WakeupArmed RightCallback NoAssertFails SubscriptionsAgree SubscribersTold
SYMMETRY TopicSymmetry
CHECK_DEADLOCK FALSE
