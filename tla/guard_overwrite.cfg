\* Can concurrent checkpoints write over a finished archive?
CONSTANTS
  Actors <- MCActors
  Pid0 = p1
  NoPid = noPid
  NoData = noData
  NoDump = noDump
  RoundArgs <- MCRoundArgs
  MaxOps <- MCMaxOps4
  MaxVersion <- MCMaxVersion1
  CriuMayFail = TRUE
  FdCopyMayFail = TRUE
  FdPaths <- OneFd
  FdBase <- OneFdBase
  ZipMayFail = FALSE
  OneAtATime = FALSE
SPECIFICATION Spec
PROPERTY ArchiveImmutable
