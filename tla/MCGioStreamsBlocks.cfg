\* One stream with two-byte blocks, longer requests and unread bytes.
CONSTANTS
  NoStream = NoStream
  NoFile = NoFile
  a = a
  b = b
  fa = fa
  fb = fb
  Streams = {a}
  Files = {fa}
  NameOf <- MCOneStream
  Regular = {fa}
  Fds = {3}
  InitOpenMax = 1
  OpenMaxArgs = {}
  MaxGdopen = 0
  OpenMayFail = FALSE
  Bytes = {0, 1, 2}
  Zero = 0
  Mod = 2
  BigR = 2
  BigW = 4
  CachesR = {0, 2, 4}
  CachesW = {0, 2, 4}
  IOErrors = FALSE
  Modes = {"w+"}
  Sizes = {1, 2, 3}
  Chunks <- MCBlocks
  Pushed <- MCPushed
  Positions <- MCLong
  MaxPos = 5
  Steps <- MCSteps
  Stretches = {3}
  Fillings <- MCBlocks
  Chars = {1}
  MinW = 0
  MinBlocks = 2
  Bufferings = {FALSE}
  Unchecked = {}
VIEW MCView
SPECIFICATION Spec
INVARIANTS
  ReadAheadCoherent
  RoomIsVacancy
PROPERTIES
  ImplementsStore
