\* One process commits while the other stages and removes files.
CONSTANTS
    p1 = p1
    p2 = p2
    m1 = m1
    m2 = m2
    Procs = {p1, p2}
    Role <- SharedRole
    Files = {a}
    ColonFiles = {}
    Cids = {c1, c2}
    Data = {d1}
    Blank = Blank
    None = None
    NL = NL
    Millis = {m1}
    MillisOf <- OneMillis
    MaxFaults = 1
SPECIFICATION FairSpec
INVARIANTS NoDangling
PROPERTIES CommitPublishes
