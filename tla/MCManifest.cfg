SPECIFICATION MCSpec
CONSTANTS
    Projects <- MCProjects
    Documents <- Docs
    MaxEdits = 2
    LocalNames <- MCLocalNames
INVARIANTS
    PreprocessExact
    StaticSound
    PackageDeclares
    RunsLikeSource
    
PROPERTY
    EditsAsMeant
CHECK_DEADLOCK FALSE
