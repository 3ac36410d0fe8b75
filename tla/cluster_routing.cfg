\* Routing with every id a client can send, criu and rsync failures and one guard restart.
CONSTANTS
    NumNodes <- MCNumNodes
    Leader <- MCLeader
    ReqIds <- MCReqIds
    MaxOps <- MCMaxOps2
    MaxVersion <- MCMaxVersion
    MaxRestarts = 1
    CriuMayFail = TRUE
    RsyncMayFail = TRUE
SPECIFICATION FairSpec
INVARIANT TypeOK
PROPERTY RoutedAnswered
\* The servers wait in serve_forever once the bounded requests are spent.
CHECK_DEADLOCK FALSE
