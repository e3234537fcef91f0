\* Two processes commit at the same time.
CONSTANTS
    p1 = p1
    p2 = p2
    m1 = m1
    m2 = m2
    Procs = {p1, p2}
    Role <- RivalRole
    Files = {a}
    ColonFiles = {}
    Cids = {c1, c2, c3}
    Data = {d1}
    Blank = Blank
    None = None
    NL = NL
    Millis = {m1}
    MillisOf <- OneMillis
    MaxFaults = 0
SYMMETRY Interchangeable
SPECIFICATION Spec
INVARIANTS Acyclic
