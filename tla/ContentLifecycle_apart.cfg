SPECIFICATION ApartSpec
CONSTANTS
    Items = {i1, i2}
    Sessions = {s1, s2}
    Scripts = {}
    Bodies = {b1, b2, b3}
    EmptyBodies = {b3}
    MaxStamp = 2
    NoItem = NoItem
    Hidden = Hidden
    Nobody = Nobody
PROPERTIES
    ImplementsCorpus
CHECK_DEADLOCK FALSE
