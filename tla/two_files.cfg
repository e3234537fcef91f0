\* One process commits several files and may be killed between two of them.
CONSTANTS
    p1 = p1
    p2 = p2
    m1 = m1
    m2 = m2
    Procs = {p1}
    Role <- CommitRole
    Files = {a, b}
    ColonFiles = {}
    Cids = {c1, c2}
    Data = {d1}
    Blank = Blank
    None = None
    NL = NL
    Millis = {m1}
    MillisOf <- OneMillis
    MaxFaults = 2
SYMMETRY Interchangeable
SPECIFICATION Spec
INVARIANTS NoDangling
PROPERTIES ImplementsVcs
