SPECIFICATION FairReembedSpec
CONSTANTS
    Items = {i1}
    Sessions = {s1}
    Scripts = {p1, p2}
    Bodies = {b1, b2}
    EmptyBodies = {}
    MaxStamp = 1
    NoItem = NoItem
    Hidden = Hidden
    Nobody = Nobody
PROPERTIES
    OldVectorsGone
    QuietRunRepairs
    EverythingEnds
CHECK_DEADLOCK FALSE
