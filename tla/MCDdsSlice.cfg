\* Cubes over two to four files, read, written and sought.
CONSTANTS
  Cubes <- MCCubes
  MaxCount = 2
  Limit = 8
  Offsets <- MCOffsets
VIEW MCView
SPECIFICATION SliceSpec
INVARIANTS SliceTypeOK PositionKnown RunRemains LineTrcOnPlace
PROPERTIES ImplementsSolid EndsAtEnd
