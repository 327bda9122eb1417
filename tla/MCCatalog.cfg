SPECIFICATION FairCatalogSpec
CONSTANTS
    f1 = f1
    f2 = f2
    v1 = v1
    w1 = w1
    Flavors = {f1, f2}
    Versions = {v1}
    FlavorOf <- MCFlavorOf
    MaxCalls = 3
    Workers = {w1}
    Slots = 1
    MaxFailures = 2
CHECK_DEADLOCK FALSE
INVARIANTS
    RowsHaveParents
    GoneIsArchived
    BuildingIsNotRemoved
    OvercommitBounded
PROPERTY
    DeletedIsRemoved
