SPECIFICATION MCSpec
CONSTANTS
    Projects <- OneProject
    Documents <- NoDocuments
    MaxEdits = 0
    LocalNames <- MCLocalNames
INVARIANT
    SourcePreserved
CHECK_DEADLOCK FALSE
