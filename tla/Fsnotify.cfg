SPECIFICATION Spec
CONSTANTS
    d = d
    sub = sub
    other = other
    file = file
    Root = Root
    Dirs <- MCDirs
    Files <- MCFiles
    Parent <- MCParent
    Above <- MCAbove
    Start <- MCStart
    Moved <- MCMoved
    MaxWatches = 3
    MaxChanges = 3
PROPERTY Emitted
INVARIANTS TypeOK NothingMissed WatchesAll
