\* Two streams on one file, in any mode, and one descriptor; caches of two
\* bytes that are not tuned.
CONSTANTS
  NoStream = NoStream
  NoFile = NoFile
  a = a
  b = b
  fa = fa
  fb = fb
  Streams = {a, b}
  Files = {fa}
  NameOf <- MCOneFile
  Regular = {fa}
  Fds = {3}
  InitOpenMax = 1
  OpenMaxArgs = {}
  MaxGdopen = 1
  OpenMayFail = FALSE
  Bytes = {0, 1}
  Zero = 0
  Mod = 1
  BigR = 9
  BigW = 9
  CachesR = {2}
  CachesW = {2}
  IOErrors = FALSE
  Modes = {"r+", "a+"}
  Sizes = {1}
  Chunks <- MCOne
  Pushed = {}
  Positions <- MCPositions
  MaxPos = 2
  Steps = {}
  Stretches = {}
  Fillings <- MCOne
  Chars = {1}
  MinW = 2
  MinBlocks = 2
  Bufferings = {}
  Unchecked = {}
VIEW MCView
SYMMETRY MCSwap
SPECIFICATION Spec
INVARIANTS
  StreamsTypeOK
  KernelOffset
  TmpClosedClean
PROPERTIES
  AppendsOnly
