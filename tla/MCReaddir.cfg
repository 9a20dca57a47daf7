CONSTANTS
    Dir <- MCDir
    Tell <- SmallTell
    CookieBits = 4
    Clients = {c1, c2, c3}
    c1 = c1
    c2 = c2
    c3 = c3
    Counts <- MCCounts
    NameLen <- MCNameLen
    HideDot = {}
    DotsOnly = {c2}
SPECIFICATION Spec
INVARIANT TypeOK
PROPERTIES Resumable EventuallyEof
