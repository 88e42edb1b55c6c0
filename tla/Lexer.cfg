CONSTANTS
    IntegerMax = 15
    CodeMax = 31
    ShortEscape = 2
    LongEscape = 3
    Callers <- MCCallers
    Files <- MCFiles
SPECIFICATION Spec
INVARIANTS TypeOK StringTokensNest LookaheadAgrees IntegersSaturate
PROPERTIES EveryTokenReadsOn
