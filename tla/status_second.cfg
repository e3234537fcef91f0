\* One file, one commit, two seconds of two ticks.
CONSTANTS
    Files = {a}
    ColonFiles = {}
    DirFiles = {}
    Ignored = {}
    Cids = {c1}
    Data = {d1, d2}
    Twins = {}
    None = None
    Blank = Blank
    PerSecond = 2
    MaxTime = 3
SPECIFICATION Spec
INVARIANTS ChangesSinceCommitShown
