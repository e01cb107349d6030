CONSTANT FD = {3, 4, 5}
SPECIFICATION FairSpec
INVARIANT LinkInv OwnedOnce ExitIsClean
PROPERTY Reconnects ExitTerminates
