\* Does the periodic checkpoint thread survive every firing?
CONSTANTS
  Actors <- TimerOnly
  Pid0 = p1
  NoPid = noPid
  NoData = noData
  NoDump = noDump
  RoundArgs <- MCRoundArgs
  MaxOps <- MCMaxOps
  MaxVersion <- MCMaxVersion
  CriuMayFail = TRUE
  FdCopyMayFail = TRUE
  FdPaths <- OneFd
  FdBase <- OneFdBase
  ZipMayFail = FALSE
  OneAtATime = TRUE
SPECIFICATION Spec
INVARIANT TimerAlive
