\* Does a failed make_archive leave the next restore a half-written zip?
CONSTANTS
  Actors <- InnerOnly
  Pid0 = p1
  NoPid = noPid
  NoData = noData
  NoDump = noDump
  RoundArgs <- MCRoundArgs
  MaxOps <- MCMaxOps
  MaxVersion <- MCMaxVersion
  CriuMayFail = TRUE
  FdCopyMayFail = FALSE
  FdPaths <- OneFd
  FdBase <- OneFdBase
  ZipMayFail = TRUE
  OneAtATime = TRUE
SPECIFICATION Spec
INVARIANT NewestExtractable
