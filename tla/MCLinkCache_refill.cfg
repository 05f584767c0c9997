SPECIFICATION Spec
CONSTANTS
    root = root  a = a  b = b  f = f
    Links = {root, a, f}
    NoLink = NoLink
    None = None
    Callers = {c1, c2}
    Root = root
    Folders = {root, a}
    InitParent <- MCAF
    Ops = {"DownloadFileByID"}
    EnableCaching = TRUE
    LostReplies = FALSE
    OthersMay = {"touch"}
    MaxChanges = 2
    MaxDepth = 4
INVARIANTS RefreshedBeforeUse
