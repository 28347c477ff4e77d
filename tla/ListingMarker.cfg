SPECIFICATION Spec
CONSTANTS
    MaxName = 3
    Fit = 3
    Kinds <- PlainNames
    MaxKeys = {1, 2}
    Markers = {0, 2}
    Chunks = {4}
    MaxChanges = 0
INVARIANTS
    BeginsAtMarker
