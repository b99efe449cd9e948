\* Three taps, two people, one relaunch.
SPECIFICATION Spec
CONSTANTS
    ann = ann
    bob = bob
    Users = {ann, bob}
    MaxAttempts = 3
    MaxRelaunches = 1
    None = None
INVARIANTS
    TypeOK
    GraphAsksForTheAnswer
    OnlyRefusalsStay
    URLReachesItsManager
    BadChallengeNeedsInterference
PROPERTY EveryLoginEnds
CHECK_DEADLOCK FALSE
