\* One location, two writes, and rules that refuse at most one of the three.
SPECIFICATION DBSpec
CONSTANTS
    users = users
    Queries = {users}
    Rules <- OneRefused
    MaxPuts = 2
    MaxListens = 2
    MaxRemovals = 1
    MaxDrops = 1
    MaxInterrupts = 1
    MaxOthers = 1
INVARIANTS
    DBTypeOK
    RetryExactlyWhenIdle
    ListensCounted
    EachWriteOnce
    IssueOrder
PROPERTIES
    ShownStaysShown
    ImplementsOwnWrites
    WritesAreAnswered
    ViewsConverge
CHECK_DEADLOCK FALSE
