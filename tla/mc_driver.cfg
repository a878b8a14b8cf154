\* command lines of up to four arguments, malloc may fail, and a TFR_main over two suites
CONSTANTS
    s1 = s1
    s2 = s2
    t1 = t1
    t2 = t2
    NULL = NULL
    Raw = Raw
    Freed = Freed
    CanFail = TRUE
    Text <- MCText
    First <- MCFirst
    Rest <- MCRest
    Atoi <- MCAtoi
    Atof <- MCAtoi
    MaxOptions = 5
    MaxArgs = 6
    MaxBlocks = 1
    MaxFiles = 1
    Vectors <- MCVectors
    Files <- MCFiles
    Doc = NULL
    Suites <- MCSuites
    Tests = {t1, t2}
    MaxUnits = 2
    Named <- MCNamed
    Bodies <- MCBodies
    Early <- MCEarly
    MaxSuites = 3
    MainFocus = {"2"}
SPECIFICATION Spec
INVARIANTS OptionsAsAsked HelpComplete
PROPERTIES ImplementsFrame OnlyKnownLeaks
CHECK_DEADLOCK FALSE
