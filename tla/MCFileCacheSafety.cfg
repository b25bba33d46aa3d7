SPECIFICATION Spec
CONSTANTS
    a = a
    b = b
    c = c
    Threads = {t1, t2, t3}
    Files = {a, b, c}
    NoFile = nofile
    FileSize <- Sizes
    Bucket <- Hashes
    MaxCacheSize = 4
    MaxElements = 4
SYMMETRY ThreadSymmetry
INVARIANTS TypeOK SizeWithinLimit ListsAgree ServesItsFile RefCountExact CachedOnce
