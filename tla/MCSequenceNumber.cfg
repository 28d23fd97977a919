CONSTANTS
  t1 = t1
  t2 = t2
  Threads = {t1, t2}
  Step <- MCStep
  Threshold <- MCThreshold
  IvJump <- MCIvJump
  Missing <- MCMissing
  StartIvs <- MCStartIvs
  MaxPdus <- MCMaxPdus
  MaxSeq <- MCMaxSeq
  MaxIv <- MCMaxIv
SPECIFICATION Spec
INVARIANTS
  RestartIsFresh
PROPERTIES
  NoncesIncreaseUnlessDisturbed
CONSTRAINT Undisturbed
SYMMETRY AnyThread
