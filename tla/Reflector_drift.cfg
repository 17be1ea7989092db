SPECIFICATION Spec
CONSTANTS
    d = d
    dx = dx
    dy = dy
    c1 = c1
    Broken = Broken
    Paths = {d, dx}
    Above <- MCAbove
    Ignored = {}
    Contents = {c1}
    Linkable = {}
    Behind <- NoLinks
    Nowhere = Broken
    Swaps = FALSE
    TargetMoves = TRUE
PROPERTY Converges
