SPECIFICATION FairSpec
CONSTANTS
    Clients = {c1, c2}
    Replacers = {c2}
    MaxRevs = 5
    MaxFaults = 2
    None = None
INVARIANTS TypeOK NoSharedRevision
PROPERTIES ConservativeKeepsDrafts RetrySucceeds
