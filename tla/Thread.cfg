SPECIFICATION FairSpec
CONSTANTS
    User = {u1, u2}
    Child = Child
    Fault = {"create", "join", "detach"}
INVARIANTS
    ThreadOwnedOnce
    ClosureReleasedOnce
    ReferencesAccounted
    JoinFindsResult
PROPERTY JoinReturns
