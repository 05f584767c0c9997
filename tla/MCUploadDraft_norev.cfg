SPECIFICATION Spec
CONSTANTS
    Clients = {c1, c2}
    Replacers = {c2}
    MaxRevs = 4
    MaxFaults = 2
    None = None
INVARIANTS DraftHasRevision
