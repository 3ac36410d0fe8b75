\* A client sends an id past the end of NODE_INFO.
CONSTANTS
    NumNodes <- MCNumNodes
    Leader <- MCLeader
    ReqIds <- MCReqIds
    MaxOps <- MCMaxOps
    MaxVersion <- MCMaxVersion
    MaxRestarts = 0
    CriuMayFail = FALSE
    RsyncMayFail = FALSE
SPECIFICATION Spec
INVARIANT InnerReplies
\* The servers wait in serve_forever once the bounded requests are spent.
CHECK_DEADLOCK FALSE
