\* every call of the API in any order, malloc never failing, up to cfg_exit
CONSTANTS
    Text <- MCText
    First <- MCFirst
    Rest <- MCRest
    Atoi <- MCAtoi
    Atof <- MCAtof
    NULL = NULL
    Raw = Raw
    Freed = Freed
    CanFail = FALSE
    MaxOptions = 4
    MaxArgs = 6
    MaxBlocks = 2
    OptionLists <- ClientLists
    ArgVectors <- ClientVectors
    ConfigFiles <- ClientFiles
    Keys = {"v", "s"}
    Numbers = {5}
    Strings = {"z"}
    MaxCells = 10
    MaxLives = 1
    MaxFiles = 2
SPECIFICATION FairSpec
INVARIANTS TypeOK NameLookup OwnedOnce BlockFits LastWins
PROPERTIES OnlyCaptureLeaks ImplementsMap CallsReturn
CHECK_DEADLOCK FALSE
