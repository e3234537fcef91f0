\* One process runs every command and may be killed at any step.
CONSTANTS
    p1 = p1
    p2 = p2
    m1 = m1
    m2 = m2
    Procs = {p1}
    Role <- SoloRole
    Files = {a}
    ColonFiles = {}
    Cids = {c1, c2, c3}
    Data = {d1, d2}
    Blank = Blank
    None = None
    NL = NL
    Millis = {m1}
    MillisOf <- OneMillis
    MaxFaults = 1
SYMMETRY Interchangeable
SPECIFICATION Spec
INVARIANTS TypeOK IndexMatchesStore
PROPERTIES SnapshotsFrozen ImplementsVcs
