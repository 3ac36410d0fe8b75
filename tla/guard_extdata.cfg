\* Does a restore put the archived data back into EXT_RES_DIR?
CONSTANTS
  Actors <- InnerOnly
  Pid0 = p1
  NoPid = noPid
  NoData = noData
  NoDump = noDump
  RoundArgs <- MCRoundArgs
  MaxOps <- MCMaxOps
  MaxVersion <- MCMaxVersion
  CriuMayFail = TRUE
  FdCopyMayFail = TRUE
  FdPaths <- OneFd
  FdBase <- OneFdBase
  ZipMayFail = FALSE
  OneAtATime = TRUE
SPECIFICATION Spec
INVARIANT ExtDataRestored
