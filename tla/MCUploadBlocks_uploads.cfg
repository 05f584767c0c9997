SPECIFICATION FairSpec
CONSTANTS
    u1 = u1
    u2 = u2
    Uploads = {u1, u2}
    N = 1
    BatchSize = 2
    MaxBlocks <- MCMaxBlocks
INVARIANTS TypeOK CommittedIsComplete ErrChanHasRoom NoStragglers PermitsConserved
PROPERTIES UploadsReturn
