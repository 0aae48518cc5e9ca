\* Calls without GIO_cfd_check, of a stream whose descriptor has been taken over.
CONSTANTS
  NoStream = NoStream
  NoFile = NoFile
  a = a
  b = b
  fa = fa
  fb = fb
  Streams = {a, b}
  Files = {fa, fb}
  NameOf <- MCNameOf
  Regular = {fa, fb}
  Fds = {3}
  InitOpenMax = 1
  OpenMaxArgs = {}
  MaxGdopen = 0
  OpenMayFail = FALSE
  Bytes = {0, 1, 2}
  Zero = 0
  Mod = 1
  BigR = 2
  BigW = 2
  CachesR = {2}
  CachesW = {2}
  IOErrors = FALSE
  Modes = {"w+"}
  Sizes = {1, 2}
  Chunks <- MCChunks
  Pushed = {}
  Positions <- MCPositions
  MaxPos = 2
  Steps <- MCSteps
  Stretches = {}
  Fillings = {}
  Chars = {1}
  MinW = 0
  MinBlocks = 2
  Bufferings = {}
  Unchecked = {"gseek", "ggetc", "gputc"}
VIEW MCView
SPECIFICATION Spec
PROPERTIES
  ImplementsStore
