--------------------------- MODULE MCGuardCluster ---------------------------
(* Model-checking instance of GuardCluster: two nodes, node 1 the leader. *)
EXTENDS GuardCluster
MCNumNodes == 2
MCLeader == 1
\* own and peer ids, -1 (NODE_INFO[-1] is the last node) and 2 (past the end)
MCReqIds == {-1, 0, 1, 2}
ValidIds == {0, 1}
MCMaxOps == 3
MCMaxOps2 == 2
MCMaxVersion == 1
=============================================================================
