CONSTANTS
    Words <- MCWords
    MaxArgs = 3
    Disk <- MCDisk
    Numbers <- MCNumbers
    Capitals <- MCCapitals
    Units <- MCUnits
    SizeRange = 256
    CountRange = 128
    ArenaSize = 64
SPECIFICATION Spec
INVARIANTS
    TypeOK
    ArgumentsCountOnce
    ExitsZeroForTheFirstInput
    FailureIsExplained
    MergeLaws
CHECK_DEADLOCK FALSE
