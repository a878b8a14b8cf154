\* the tree is written, edited, generated and removed between scans
CONSTANTS
    NULL = NULL
    Dirs <- MCDirs
    Gen = "obj"
    Names <- MCNames
    Source <- MCSource
    Written <- MCWritten
    Contents <- MCContents
SPECIFICATION FairSpec
INVARIANTS DepExact
PROPERTIES ScanEnds
