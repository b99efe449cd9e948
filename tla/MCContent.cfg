SPECIFICATION Spec
CONSTANTS
    d1 = d1
    d2 = d2
    d3 = d3
    d4 = d4
    cow = cow
    dog = dog
    url1 = url1
    url2 = url2
    url3 = url3
    noPicture = noPicture
    WordDocs = {d1, d2, d3, d4}
    Referring = {d1, d2, d3}
    TitleOf <- McTitleOf
    UrlOf <- McUrlOf
    Collections <- McCollections
    Blank = blank
    NotShown = notshown
INVARIANTS
    TypeOK
    TilesArePrefix
    CellMatchesTile
    WordsMatchDocuments
PROPERTIES
    EveryWordArrives
