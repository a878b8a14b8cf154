\* any TFR_main over three suites, then TFR_run
CONSTANTS
    s1 = s1
    s2 = s2
    s3 = s3
    t1 = t1
    t2 = t2
    NULL = NULL
    Suites <- AllSuites
    Tests = {t1, t2}
    MaxUnits = 2
    Named <- NamedTwo
    Bodies <- AnyBodies
    Early <- AnyEarly
    MaxSuites = 4
    CanFail = TRUE
SPECIFICATION FairSpec
INVARIANTS TypeOK Acyclic VerdictExact UnitsAtHome UndefinedOnly
PROPERTIES ImplementsList RunEnds
CHECK_DEADLOCK FALSE
