CONSTANTS
    dep = dep
    named = named
    Snaps = {dep, named}
    Planned = {dep, named}
    StartsWith <- Names
    Agents = {a1, a2}
    NoAgent = NoAgent
    MaxCalls = 3
SPECIFICATION Spec
INVARIANT RemovedLeavesNothing
