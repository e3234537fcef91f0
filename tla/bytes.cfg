\* Outputs of up to five bytes, strings of up to four characters.
CONSTANTS
    Byte = {x, NL, NUL}
    NL = NL
    NUL = NUL
    MaxText = 5
    PipeSize = 3
    Chunk = 2
    BuffSize = 2
    Letter = {"h", "1"}
    EndOfString = EndOfString
    CompareSize = 2
    MaxString = 4
    Char = {"h", "1", ":", "/", "@", "+", Sub}
    Slash = "/"
    Plus = "+"
    Sub = Sub
SPECIFICATION MCSpec
INVARIANTS TypeOK NothingLost LinesWhole OnlyWaitBlocks
           ComparesExactly SplitsExactly CidRead RemoteRead ArgKept
PROPERTIES DoneLast EmitterEnds
