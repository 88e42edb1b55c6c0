CONSTANTS
    a = a
    b = b
    Modules = {a, b}
    ProjectFiles = {a}
    LibraryFiles = {b}
    PrintTokens = FALSE
    MaxEdits = 2
    MaxClock = 1
    MaxErrors = 1
SPECIFICATION Spec
INVARIANTS
    TypeOK
    NoPathImportedTwice
    OnlyCleanModulesCached
    HitIsCurrentUnlessEditedWhileLoading
    FailureIsLogged
PROPERTIES
    ImplementsLoader
