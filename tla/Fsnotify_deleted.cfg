SPECIFICATION Spec
CONSTANTS
    d = d
    sub = sub
    other = other
    file = file
    Root = Root
    Dirs <- MCDirs
    Files <- MCFiles
    Parent <- MCParent
    Above <- MCAbove
    Start <- MCStart
    Moved <- MCMoved
    MaxWatches = 9
    MaxChanges = 4
INVARIANT DeletionsSeen
