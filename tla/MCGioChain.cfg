\* Three streams on two descriptors; greopen only of streams gclose unlinks.
CONSTANTS
  a = a
  b = b
  c = c
  fa = fa
  fb = fb
  pipe = pipe
  NoStream = NoStream
  NoFile = NoFile
  Streams <- MCStreams
  Files <- MCFiles
  NameOf <- MCNameOf
  Regular <- MCRegular
  Fds <- MCFds
  InitOpenMax = 1
  OpenMaxArgs = {0, 2}
  MaxGdopen = 1
  OpenMayFail = TRUE
  GreopenAny = FALSE
SPECIFICATION ChainSpec
INVARIANTS
  FdOwnership
  OpenCount
  SoftLimit
  OpenOnChain
  LinksMatch
PROPERTIES
  ClosedForNeed
  FlushAllReturns
