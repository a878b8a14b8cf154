\* a focus set by TFR_set_focus between two declarations
CONSTANTS
    s1 = s1
    s2 = s2
    s3 = s3
    t1 = t1
    t2 = t2
    NULL = NULL
    Suites <- TwoSuites
    Tests = {t1, t2}
    MaxUnits = 2
    Named <- NamedOne
    Bodies <- PlainBodies
    Early <- NotEarly
    MaxSuites = 2
    CanFail = FALSE
SPECIFICATION Spec
INVARIANTS FocusedAlone
CHECK_DEADLOCK FALSE
