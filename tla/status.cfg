\* One file, two commits, an empty content and three others of which two are
\* alike to ct_fcompare, three seconds of two ticks.
CONSTANTS
    Files = {a}
    ColonFiles = {}
    DirFiles = {}
    Ignored = {}
    Cids = {c1, c2}
    Data = {d1, d2, d3}
    Twins = {{d2, d3}}
    None = None
    Blank = Blank
    PerSecond = 2
    MaxTime = 5
SYMMETRY Interchangeable
SPECIFICATION Spec
INVARIANTS TypeOK StatusExact
PROPERTIES CheckoutRestores
