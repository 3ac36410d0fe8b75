\* All three executors, requests never overlapping; criu and make_archive may fail, the
\* copies of the open files succeed; two open files, distinct basenames.
CONSTANTS
  Actors <- MCActors
  Pid0 = p1
  NoPid = noPid
  NoData = noData
  NoDump = noDump
  RoundArgs <- MCRoundArgs
  MaxOps <- MCMaxOps
  MaxVersion <- MCMaxVersion
  CriuMayFail = TRUE
  FdCopyMayFail = FALSE
  FdPaths <- TwoFds
  FdBase <- TwoFdsBase
  ZipMayFail = TRUE
  OneAtATime = TRUE
SPECIFICATION Spec
INVARIANT TypeOK
PROPERTY SerialRefinement
INVARIANT FdFilesRestored
