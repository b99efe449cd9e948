SPECIFICATION Spec
CONSTANTS
    ann = ann
    bob = bob
    cat = cat
    mail = mail
    pw1 = pw1
    pw2 = pw2
    ScreenIds = {s1}
    FormAccounts <- McFormAccounts
    OtherAccounts <- McOtherAccounts
    LostAccounts <- McLostAccounts
    FbProfiles <- McFbProfiles
    Facebook = facebook
    Blank = blank
    NoName = noname
    NoId = noid
    Absent = absent
    MaxGraph = 2
INVARIANTS
    TypeOK
    RootIsWelcome
    Nested
    SignedInShowsHome
    HomeNeedsSession
    GreetsStoredUser
    LogoutAsksTop
    KnownWasRegistered
PROPERTIES
    NoSilentSwitch
    LogoutReturnsToWelcome
    StoredNameHadAccount
