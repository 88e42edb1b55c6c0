CONSTANTS
    DefaultBlockSize = 4
    Sizes = {0, 1, 3}
    Alignments = {1, 2}
    Bases = {0, 1}
    MaxBlocks = 3
    MaxTime = 5
    MaxScopes = 2
SPECIFICATION Spec
INVARIANTS
    TypeOK
    LiveMemoryKept
    FillingKnown
