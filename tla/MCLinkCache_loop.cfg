SPECIFICATION Spec
CONSTANTS
    root = root  a = a  b = b  f = f
    Links = {root, a, b}
    NoLink = NoLink
    None = None
    Callers = {c1}
    Root = root
    Folders = {root, a, b}
    InitParent <- MCFolders
    Ops = {"CreateNewFolderByID"}
    EnableCaching = TRUE
    LostReplies = FALSE
    OthersMay = {"move"}
    MaxChanges = 3
    MaxDepth = 4
INVARIANTS NeverOverflows
