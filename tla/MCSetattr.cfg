CONSTANTS
    Names = {"x"}
    MaxDepth = 1
    Peers = {}
    Clients = {}
    ClientOf <- NoPeers
    Exports <- NoExports
    ReadOnly = FALSE
    Nobody = 2
    RootUid = 0
    NoClient = NoClient
    NoMount = NoMount
    NoPath = NoPath
    f = f
    d = d
    l = l
    t = t
    Objs = {f, l, t}
    Target <- MCTarget
    InitAttrs <- PassInit
    Sizes = {0, 1}
    ReqSizes = {0}
    ReqTimes = {0}
    MaxNow = 1
    ReqModes = {384, 33188}
    ReqUids = {0, 1}
    Mount <- RootSquash
    Ignore = Ignore
SPECIFICATION Spec
INVARIANTS TypeOK TruncateNoFollow
