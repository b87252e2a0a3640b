SPECIFICATION Spec
CONSTANTS
    Spelling <- MCSpelling
    ArgLists <- MCArgLists
    RawCommands <- MCRawCommands
    Stores <- MCStores
    MaxFaults = 1
INVARIANTS KeysFound SubCommandsWhole AsIfWhole NoFalseSuccess
CHECK_DEADLOCK FALSE
