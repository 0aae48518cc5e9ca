\* Two-byte blocks on disk and tape, with and without gsetvbuf.
CONSTANTS
  Media = {"disk", "tape"}
  BlkSize = 2
  EnvBlkSize = 0
  SizeArgs = {0, 3}
  Requests = {1, 3}
  MaxWaste = 2
  MinBlocks = 2
  IntMax = 100
SPECIFICATION TuneSpec
INVARIANTS
  TuneTypeOK
  CacheWithinLimits
  DeltaWithinSpan
  WholeBlocks
PROPERTIES
  NotTunedKept
  SequentialGrows
