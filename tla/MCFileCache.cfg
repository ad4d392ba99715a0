\* Safety and refinement of the file cache.
CONSTANTS
    f1 = f1
    f2 = f2
    f3 = f3
    f4 = f4
    b1 = b1
    b2 = b2
    w1 = w1
    w2 = w2
    NoFile = NoFile
    Files <- MCFiles
    Size <- MCSize
    TextLen <- MCTextLen
    Buckets <- MCBuckets
    Hash <- MCHash
    Workers <- MCWorkers
    MaxCache = 7
SPECIFICATION Spec
INVARIANTS TypeOK CacheAccounting SizeIndexConsistent
PROPERTIES AbstractCacheSpec
