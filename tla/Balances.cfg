SPECIFICATION Spec
CONSTANTS
    v1 = v1
    v2 = v2
    v3 = v3
    r1 = r1
    r2 = r2
    Vaults <- MCVaults
    Resources <- MCResources
    ResourceOf <- MCResourceOf
    Nil = Nil
    fetchChunk = 2
    MaxAmount = 1
    MaxChanges = 2
INVARIANTS
    TypeOK
    Exact
    KeepsOrder
