SPECIFICATION Spec
CONSTANTS
    root = root  a = a  b = b  f = f
    Links = {root, a, f}
    NoLink = NoLink
    None = None
    Callers = {c1, c2}
    Root = root
    Folders = {root, a}
    InitParent <- MCAF
    Ops = {"DownloadFileByID", "MoveFolderToTrashByID"}
    EnableCaching = TRUE
    LostReplies = FALSE
    OthersMay = {"move"}
    MaxChanges = 1
    MaxDepth = 4
SYMMETRY CallerSymmetry
INVARIANTS NeverFatal KeyringSound IInv
