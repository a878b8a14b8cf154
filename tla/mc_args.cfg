\* cfg_read_args once, on every vector of at most four arguments
CONSTANTS
    Text <- MCText
    First <- MCFirst
    Rest <- MCRest
    Atoi <- MCAtoi
    Atof <- MCAtof
    NULL = NULL
    Raw = Raw
    Freed = Freed
    CanFail = FALSE
    MaxOptions = 3
    MaxArgs = 6
    MaxBlocks = 1
    OptionLists <- ArgsLists
    ArgVectors <- ArgsVectors
    ConfigFiles <- NoFiles
    Keys = {}
    Numbers = {}
    Strings = {}
    MaxCells = 7
    MaxLives = 1
    MaxFiles = 2
SPECIFICATION Spec
INVARIANTS LeftoverExact CaptureConsistent
PROPERTIES ArgsVerdict
CHECK_DEADLOCK FALSE
