\* One write, one observer that is removed, one connection lost.
SPECIFICATION DBSpec
CONSTANTS
    users = users
    Queries = {users}
    MaxPuts = 1
    Rules <- AllAllowed
    MaxListens = 1
    MaxRemovals = 1
    MaxDrops = 1
    MaxInterrupts = 0
    MaxOthers = 0
PROPERTY WritesAreReported
CHECK_DEADLOCK FALSE
