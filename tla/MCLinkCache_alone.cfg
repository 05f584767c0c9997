SPECIFICATION Spec
CONSTANTS
    root = root  a = a  b = b  f = f
    Links = {root, a, b, f}
    NoLink = NoLink
    None = None
    Callers = {c1}
    Root = root
    Folders = {root, a, b}
    InitParent <- MCWithoutB
    Ops = {"CreateNewFolderByID", "MoveByID", "SearchByNameInActiveFolderByID", "ListDirectory", "MoveFileToTrashByID", "MoveFolderToTrashByID", "MoveEmptyFolderToTrashByID", "EmptyTrash", "EmptyRootFolder"}
    EnableCaching = TRUE
    LostReplies = FALSE
    OthersMay = {}
    MaxChanges = 3
    MaxDepth = 4
INVARIANTS TypeOK NeverOverflows TreeCoherent
PROPERTIES TrashFlushes
