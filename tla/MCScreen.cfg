\* Every program of up to MaxOps control functions, repaints anywhere.
SPECIFICATION MCSpec
CONSTANTS
    Narrow = {sp, a}
    Wide = {w}
    Space = sp
    Pens = {p0}
    DefaultPen = p0
    Params = {1, 2, 65535}
    Sizes <- MCSizes
    InitialSize <- MCInitialSize
    Unpainted = Unpainted
    MaxOps = 5
INVARIANT TypeOK
INVARIANT DisplayFaithful
INVARIANT WrapOnlyAtMargin
PROPERTY PairsSurvive
PROPERTY MainPagePreserved
PROPERTY ScrollConfined
