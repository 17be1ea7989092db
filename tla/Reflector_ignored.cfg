SPECIFICATION Spec
CONSTANTS
    d = d
    dx = dx
    dy = dy
    c1 = c1
    Broken = Broken
    Paths = {d, dx, dy}
    Above <- MCAbove
    Ignored = {dy}
    Contents = {c1}
    Linkable = {dx}
    Behind <- LinkToFile
    Nowhere = Broken
    Swaps = FALSE
    TargetMoves = FALSE
PROPERTY NeverTouched
