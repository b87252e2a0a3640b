SPECIFICATION Spec
CONSTANTS
    Spelling <- MCSpelling
    ArgLists <- LongArgLists
    RawCommands = {}
    Stores <- MCStores
    MaxFaults = 0
INVARIANT SubCommandsWhole
CHECK_DEADLOCK FALSE
