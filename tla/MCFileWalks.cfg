SPECIFICATION FairSpec
CONSTANTS
    Count = 4
    MaxRoots = 2
    Files <- MCFiles
    Graphs <- MCGraphs
    Roots <- MCRoots
INVARIANTS
    TypeOK
    NewFilesAccepts
PROPERTIES
    Implements
    WalkEnds
