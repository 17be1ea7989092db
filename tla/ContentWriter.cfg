SPECIFICATION Spec
CONSTANTS
    x = x
    y = y
    NoFile = NoFile
    Chunks <- MCChunks
    SourceData <- MCSourceData
    Modes <- MCModes
    Owners <- MCOwners
    Wants <- MCWants
    Others <- MCOthers
    TempNames <- MCTempNames
    ProcessOwner = "root"
INVARIANTS IndInv LitterTracked
PROPERTIES ReplacesAtomically LitterGoes
