SPECIFICATION Spec
CONSTANTS
  Writers = {w1, w2}
  Readers = {r1}
  Drivers = {"sqlite", "postgres"}
  Pages <- MCPages
  MaxResults = 2
  MaxEvents = 1
  CleanUpThreshold = 1
  MaxOpen = 2
  MaxInserts = 4
  MaxFaults = 1
SYMMETRY MCSymmetry
INVARIANTS Bounded NewestAreKept EventsTellTheStory CacheIsCommitted StoresAgree
