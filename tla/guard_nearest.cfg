\* Does restore R take the newest archive at or below R?
CONSTANTS
  Actors <- InnerOnly
  Pid0 = p1
  NoPid = noPid
  NoData = noData
  NoDump = noDump
  RoundArgs <- MCRoundArgs
  MaxOps <- MCMaxOps
  MaxVersion <- MCMaxVersion
  CriuMayFail = FALSE
  FdCopyMayFail = FALSE
  FdPaths <- OneFd
  FdBase <- OneFdBase
  ZipMayFail = FALSE
  OneAtATime = TRUE
SPECIFICATION Spec
PROPERTY RestoreNearest
