\* greopen of any stream, temporarily closed ones too.
CONSTANTS
  a = a
  b = b
  c = c
  fa = fa
  fb = fb
  pipe = pipe
  NoStream = NoStream
  NoFile = NoFile
  Streams <- MCStreams
  Files <- MCFiles
  NameOf <- MCNameOf
  Regular <- MCRegular
  Fds <- MCFds
  InitOpenMax = 1
  OpenMaxArgs = {}
  MaxGdopen = 1
  OpenMayFail = TRUE
  GreopenAny = TRUE
SPECIFICATION ChainSpec
PROPERTIES
  FlushAllReturns
