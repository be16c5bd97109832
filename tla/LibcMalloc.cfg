CONSTANTS
  Hdr = 4
  Align = 2
  Meta = 3
  ChunkSize = 12
  Word = 1000
  Limit = 24
  Bases = {0, 12}
  Sizes = {2, 5}
  MaxLive = 3
SPECIFICATION FairSpec
INVARIANTS Tiling NoAdjacentFree LiveDisjoint
PROPERTIES DataKept CallsReturn
