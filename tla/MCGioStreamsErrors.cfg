\* Two streams on one descriptor, with reads, writes and opens that fail.
CONSTANTS
  NoStream = NoStream
  NoFile = NoFile
  a = a
  b = b
  fa = fa
  fb = fb
  Streams = {a, b}
  Files = {fa}
  NameOf <- MCOneFile
  Regular = {fa}
  Fds = {3}
  InitOpenMax = 1
  OpenMaxArgs = {}
  MaxGdopen = 0
  OpenMayFail = TRUE
  Bytes = {0, 1}
  Zero = 0
  Mod = 1
  BigR = 2
  BigW = 2
  CachesR = {2}
  CachesW = {2}
  IOErrors = TRUE
  Modes = {"w+"}
  Sizes = {1}
  Chunks <- MCOne
  Pushed = {}
  Positions <- MCPositions
  MaxPos = 2
  Steps = {}
  Stretches = {1}
  Fillings <- MCOne
  Chars = {1}
  MinW = 0
  MinBlocks = 2
  Bufferings = {FALSE}
  Unchecked = {}
VIEW MCView
SYMMETRY MCSwap
SPECIFICATION Spec
PROPERTIES
  CloseTellsPending
