SPECIFICATION Spec
CHECK_DEADLOCK FALSE
CONSTANTS
    d = d
    dx = dx
    dy = dy
    c1 = c1
    Broken = Broken
    Root = Root
    Paths = {d, dx, dy}
    Above <- MCAbove
    Ignored = {dy}
    Contents = {c1}
    Linkable = {dx}
    Behind <- LinkToFile
    Nowhere = Broken
    Faults = TRUE
    Swaps = FALSE
    TargetMoves = FALSE
INVARIANT Reconciled
INVARIANT FailsOnlyRaced
PROPERTY OnlyOrphansRemoved
PROPERTY Ends
