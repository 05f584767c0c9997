SPECIFICATION Spec
CONSTANTS
    r1 = r1
    r2 = r2
    r3 = r3
    r4 = r4
    Revisions = {r1, r2, r3, r4}
    NoRevision = NoRevision
    Ends <- MCEnds
    XAttr <- MCXAttr
    Batch = 1
    Offsets <- MCOffsets
    ReadSizes = {1, 3}
    SkipSize = 2
    MaxChanges = 1
    MaxFaults = 0
INVARIANTS NoAttrsNoPanic
