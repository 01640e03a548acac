\* Three clients and room for the buckets of two beside the shared one.
CONSTANTS
  Client = {a, b, c}
  Overflow = none
  Rate = 2
  Second = 3
  BucketTtl = 4
  PruneInterval = 2
  MaxBuckets = 3
  Watched = a
SPECIFICATION Spec
INVARIANTS TypeOK BurstBounded
PROPERTIES KeepsPromise
