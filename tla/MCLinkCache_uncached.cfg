SPECIFICATION FairSpec
CONSTANTS
    root = root  a = a  b = b  f = f
    Links = {root, a, f}
    NoLink = NoLink
    None = None
    Callers = {c1}
    Root = root
    Folders = {root, a}
    InitParent <- MCWithoutF
    Ops = {"UploadNewFile", "UploadNewRevision", "GetActiveRevisionAttrsByID", "DownloadFileByID", "MoveByID"}
    EnableCaching = FALSE
    LostReplies = TRUE
    OthersMay = {"move"}
    MaxChanges = 3
    MaxDepth = 4
INVARIANTS KeyringSound ServerDecryptable
PROPERTIES OpsReturn
