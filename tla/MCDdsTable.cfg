\* Tables of keywords, primary types and dictionaries.
CONSTANTS
  one = one
  two = two
  three = three
  Names = {one, two, three}
  Hash <- MCHash
  Settings <- MCSettings
  MaxItems = 4
  MaxLinks = 4
SPECIFICATION TableSpec
INVARIANTS TableTypeOK Counters
PROPERTIES LatestFound ImplementsDirectory
