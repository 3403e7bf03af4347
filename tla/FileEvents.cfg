SPECIFICATION FairSpec
CONSTANTS
    i1 = i1
    i2 = i2
    p1 = p1
    p2 = p2
    Images <- MCImages
    Pools <- MCPools
    Scopes = {"vm", "images", "pools"}
    MaxMoves = 4
    MaxRefusals = 1
    MaxUnreachable = 1
    MaxCrashes = 1
INVARIANT TypeOK
INVARIANT ImagesAgree
PROPERTIES ForeignKept DefinitionNotOlder PoolsWatched
