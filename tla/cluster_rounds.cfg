\* rsync --delete from a peer with fewer archives.
CONSTANTS
    NumNodes <- MCNumNodes
    Leader <- MCLeader
    ReqIds <- ValidIds
    MaxOps <- MCMaxOps
    MaxVersion <- MCMaxVersion
    MaxRestarts = 0
    CriuMayFail = FALSE
    RsyncMayFail = FALSE
SPECIFICATION Spec
PROPERTY RoundsMonotonic
\* The servers wait in serve_forever once the bounded requests are spent.
CHECK_DEADLOCK FALSE
