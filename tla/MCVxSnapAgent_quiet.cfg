CONSTANTS
    dep = dep
    named = named
    Snaps = {dep, named}
    Planned = {dep}
    StartsWith <- Names
    Agents = {a1, a2, a3}
    NoAgent = NoAgent
    MaxCalls = 3
SPECIFICATION FairSpec
INVARIANT TypeOK
PROPERTY CreatedIsFull
PROPERTY RemovedIsGone
PROPERTY ChainInOrder
PROPERTY SkippedIsGone
PROPERTY ImplementsLifecycle
PROPERTY TaskEnds
