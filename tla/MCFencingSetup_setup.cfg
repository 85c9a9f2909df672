SPECIFICATION FairSpec
CONSTANTS
    N = 3
    Ours = ours
    Olds = {old}
    Contains <- MCContains
INVARIANTS TypeOK SetupIsComplete RetrySucceeds
PROPERTY AttemptEnds
