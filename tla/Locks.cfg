SPECIFICATION Spec
CONSTANTS
    Txns = {1, 2, 3}
    Keys = {a, b}
    Priority <- MCPriority
    Impatient = {2, 3}
INVARIANT HoldersCompatible
INVARIANT GrantsAreReal
INVARIANT NoDeadlock
INVARIANT GrantableHasWaker
INVARIANT ReleaseAllFindsAll
PROPERTY EveryWaitEnds
