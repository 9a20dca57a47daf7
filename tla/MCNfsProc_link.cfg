CONSTANTS
    Names = {"e", "f", "r", "h", "a", "b"}
    MaxDepth = 2
    p1 = p1
    p2 = p2
    c1 = c1
    Peers = {p1}
    Clients = {c1}
    ClientOf <- OneClientOf
    Exports <- SiblingExports
    ReadOnly = FALSE
    Nobody = 2
    RootUid = 0
    NoClient = NoClient
    NoMount = NoMount
    NoPath = NoPath
    Inodes = {1, 2, 3, 4, 5, 6, 7, 8, 9}
    InitFs <- SmallFs
    Uids = {0, 1}
    ReqNames = {"a", "b"}
    Devs = {1, 3}
    FifoDev = 3
    CreateModes = {"none", "reg", "chr"}
    LinkTargets <- WideLinkTargets
    PublicFh = PublicFh
    PublicRoot = NoInode
    NoInode = NoInode
SPECIFICATION Spec
INVARIANT Confidential
