CONSTANTS
    Offers <- MCOffers
    MaxChildren = 3
    MaxDepths = {0, 1, 2}
    Filters <- MCFilters
    DepthRange = 16
SPECIFICATION Spec
INVARIANTS
    TypeOK
    TreeAgrees
    SearchAnswers
    OutputIsTheTree
    LevelsCounted
PROPERTIES
    ImplementsWalk
