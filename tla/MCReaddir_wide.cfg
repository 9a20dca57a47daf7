CONSTANTS
    Dir <- MCDir
    Tell <- WideTell
    CookieBits = 4
    Clients = {c1, c2}
    c1 = c1
    c2 = c2
    c3 = c3
    Counts <- TwoCounts
    NameLen <- MCNameLen
    HideDot = {}
    DotsOnly = {}
SPECIFICATION Spec
PROPERTY Resumable
