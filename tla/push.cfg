\* Two pushes to one remote, commits meanwhile, one fault of any kind.
CONSTANTS
    Pushers = {p1, p2}
    Files = {a}
    ColonFiles = {}
    Cids = {c1, c2}
    None = None
    Blank = Blank
    MaxFaults = 1
SPECIFICATION FairSpec
INVARIANTS TypeOK RemoteWhole
PROPERTIES RemoteAdvances PushArrives
