SPECIFICATION Spec
CONSTANTS
    a = a
    b = b
    c = c
    NoContent = NoContent
    Unset = Unset
    Contents <- MCContents
    SizeOf <- MCSizeOf
    Modes <- MCModes
    Uids <- MCUids
    Gids <- MCGids
    Overrides <- SomeOverrides
    FollowSymlinks = TRUE
    Process <- MCProcess
    SourceStates <- MCSourceStates
    Drifts <- MCDrifts
INVARIANTS SuccessMirrors NoLostWork Idempotent IndInv
PROPERTIES RemovalJustified Settles
