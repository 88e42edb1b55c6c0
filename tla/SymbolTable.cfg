CONSTANTS
    x = x
    y = y
    decl = decl
    Null = Null
    Names = {x, y}
    Nodes = {decl}
    IndexModulus = 2
    MaxScopes = 3
SPECIFICATION Spec
INVARIANTS
    TypeOK
    ScopesNest
PROPERTIES
    BindingsOnlyShadowed
    UseRecordedWhereVisible
    NeverUsedIsReported
