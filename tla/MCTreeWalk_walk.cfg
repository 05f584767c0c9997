SPECIFICATION FairSpec
CONSTANTS
    root = root
    a = a
    b = b
    f = f
    g = g
    NoLink = NoLink
    Links = {root, a, b, f, g}
    Root = root
    Folders = {root, a, b}
    Name <- MCName
    InitTree <- MCTree
    Calls <- MCCalls
    MaxChanges = 3
INVARIANTS TypeOK ListsStableOnce PathsDistinct NilMeansAbsent
PROPERTIES WalkReturns
