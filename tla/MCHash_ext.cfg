SPECIFICATION MCHashSpec
CONSTANTS
  HKeys <- FourKeys
  Prim <- PrimOf
  Sig <- SigOf
  ZeroKey = 0
  HashBuckets = 4
  Entries = 1
  NumExt = 1
  NumSlots = 5
  BfsMax = 5
  CacheSize = 1
  HWriters = {w1, w2}
  HReaders = {r1}
  Sought = {1, 4}
  FreedFirst = TRUE
  Uses <- UsesExt
INVARIANTS
  OneEntry
