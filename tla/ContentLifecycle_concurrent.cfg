SPECIFICATION Spec
CONSTANTS
    Items = {i1}
    Sessions = {s1, s2, s3}
    Scripts = {}
    Bodies = {b1, b2}
    EmptyBodies = {}
    MaxStamp = 2
    NoItem = NoItem
    Hidden = Hidden
    Nobody = Nobody
SYMMETRY Symmetry
INVARIANTS
    OneChunkSet
    DraftHasNoChunks
    VisibleIsRetrievable
PROPERTIES
    ColumnsHaveOwners
    DeletedStaysHidden
CHECK_DEADLOCK FALSE
