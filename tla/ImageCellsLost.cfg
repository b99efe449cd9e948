\* Two views that show the same picture.
SPECIFICATION Spec
CONSTANTS
    Views = {v1, v2}
    URLs = {cat}
    Loads = {l1, l2}
    MaxAsks = 2
    Downloads = {d1, d2}
    None = None
INVARIANT CompletedBlockIsCalled
CHECK_DEADLOCK FALSE
