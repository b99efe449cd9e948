SPECIFICATION Spec
CONSTANTS
    ann = ann
    bob = bob
    cat = cat
    mail = mail
    pw1 = pw1
    pw2 = pw2
    ScreenIds = {s1}
    FormAccounts <- McFormAccounts
    OtherAccounts <- McNobodyElse
    LostAccounts <- McLostAccounts
    FbProfiles <- McNoProfiles
    Facebook = facebook
    Blank = blank
    NoName = noname
    NoId = noid
    Absent = absent
    MaxGraph = 0
PROPERTY UnknownMeansUnregistered
