\* One process, three commits, two of them with the same prefix.
CONSTANTS
    p1 = p1
    p2 = p2
    m1 = m1
    m2 = m2
    Procs = {p1}
    Role <- SoloRole
    Files = {a}
    ColonFiles = {}
    Cids = {c1, c2, c3}
    Data = {d1}
    Blank = Blank
    None = None
    NL = NL
    Millis = {m1, m2}
    MillisOf <- TwoMillis
    MaxFaults = 0
SPECIFICATION Spec
INVARIANTS HistoryKept ShortIdsResolve
