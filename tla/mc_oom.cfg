\* malloc may fail at every request, and the library is started twice
CONSTANTS
    Text <- MCText
    First <- MCFirst
    Rest <- MCRest
    Atoi <- MCAtoi
    Atof <- MCAtof
    NULL = NULL
    Raw = Raw
    Freed = Freed
    CanFail = TRUE
    MaxOptions = 2
    MaxArgs = 6
    MaxBlocks = 2
    OptionLists <- OOMLists
    ArgVectors <- OOMVectors
    ConfigFiles <- OOMFiles
    Keys = {"s"}
    Numbers = {}
    Strings = {"z"}
    MaxCells = 6
    MaxLives = 2
    MaxFiles = 1
SPECIFICATION Spec
INVARIANTS NothingUndefined OwnedOnce
PROPERTIES FileClosed AddReportsFailure
CHECK_DEADLOCK FALSE
