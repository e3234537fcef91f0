\* One push at a time, one fault, which may be an unpack that stops half way.
CONSTANTS
    Pushers = {p1}
    Files = {a}
    ColonFiles = {}
    Cids = {c1, c2}
    None = None
    Blank = Blank
    MaxFaults = 1
SYMMETRY Interchangeable
SPECIFICATION Spec
INVARIANTS TruthfulPush
