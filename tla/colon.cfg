\* A committed file whose name contains a colon.
CONSTANTS
    p1 = p1
    p2 = p2
    m1 = m1
    m2 = m2
    Procs = {p1}
    Role <- CommitRole
    Files = {a}
    ColonFiles = {a}
    Cids = {c1, c2}
    Data = {d1}
    Blank = Blank
    None = None
    NL = NL
    Millis = {m1}
    MillisOf <- OneMillis
    MaxFaults = 0
SPECIFICATION Spec
INVARIANTS HistoryKept
