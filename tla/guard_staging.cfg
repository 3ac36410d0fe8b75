\* Does every operation remove its staging directory, on every path?
CONSTANTS
  Actors <- TimerOnly
  Pid0 = p1
  NoPid = noPid
  NoData = noData
  NoDump = noDump
  RoundArgs <- MCRoundArgs
  MaxOps <- MCMaxOps
  MaxVersion <- MCMaxVersion
  CriuMayFail = TRUE
  FdCopyMayFail = FALSE
  FdPaths <- OneFd
  FdBase <- OneFdBase
  ZipMayFail = FALSE
  OneAtATime = TRUE
SPECIFICATION Spec
INVARIANT StagingRemoved
