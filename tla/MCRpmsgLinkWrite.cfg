\* What the comment on the mutex promises, which the code does not keep.
CONSTANT FD = {3, 4, 5}
SPECIFICATION FairSpec
INVARIANT WritesReachEndpoint
