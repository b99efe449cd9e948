SPECIFICATION Spec
CONSTANTS
    ann = ann
    bob = bob
    cat = cat
    mail = mail
    pw1 = pw1
    pw2 = pw2
    ScreenIds = {s1, s2}
    FormAccounts <- McFormAccounts
    OtherAccounts <- McNobodyElse
    LostAccounts <- McNothingLost
    FbProfiles <- McFewProfiles
    Facebook = facebook
    Blank = blank
    NoName = noname
    NoId = noid
    Absent = absent
    MaxGraph = 1
PROPERTIES
    ImplementsSignedIn
    SpeakIsLeft
