SPECIFICATION Spec
CONSTANTS
    a = a
    b = b
    c = c
    d = d
    e = e
    p1 = p1
    p2 = p2
    p3 = p3
    p4 = p4
    p5 = p5
    noPicture = noPicture
    Sorry = sorry
    Silence = silence
    RoundSize = 4
    MaxTaps = 3
    Contents <- McWordsOnly
INVARIANT AskedTileIsShown
