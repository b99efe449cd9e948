\* Two views, two pictures, a load more than views.
SPECIFICATION Spec
CONSTANTS
    Views = {v1, v2}
    URLs = {cat, dog}
    Loads = {l1, l2, l3}
    MaxAsks = 3
    Downloads = {d1, d2}
    None = None
INVARIANTS
    TypeOK
    ShownIsWanted
PROPERTY EveryLoadEnds
CHECK_DEADLOCK FALSE
