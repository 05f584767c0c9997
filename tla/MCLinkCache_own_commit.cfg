SPECIFICATION Spec
CONSTANTS
    root = root  a = a  b = b  f = f
    Links = {root, a, f}
    NoLink = NoLink
    None = None
    Callers = {c1}
    Root = root
    Folders = {root, a}
    InitParent <- MCAF
    Ops = {"GetActiveRevisionAttrsByID", "UploadNewRevision"}
    EnableCaching = TRUE
    LostReplies = FALSE
    OthersMay = {}
    MaxChanges = 2
    MaxDepth = 4
INVARIANTS ByIDGetsLatest
