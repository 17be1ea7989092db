SPECIFICATION Spec
CONSTANTS
    d = d
    dx = dx
    e = e
    c1 = c1
    Broken = Broken
    Root = Root
    Paths = {d, dx, e}
    Above <- MCAbove
    Ignored = {}
    Contents = {c1}
    Linkable = {dx, e}
    Behind <- Unfollowed
    Nowhere = Broken
    Interval = 1
INVARIANT SweepComplete
PROPERTY ChangesNamed
PROPERTY Closes
