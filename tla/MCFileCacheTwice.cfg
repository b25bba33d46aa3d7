SPECIFICATION Spec
CONSTANTS
    a = a
    b = b
    c = c
    Threads = {t1, t2}
    Files = {a, b, c}
    NoFile = nofile
    FileSize <- Sizes
    Bucket <- Hashes
    MaxCacheSize = 4
    MaxElements = 4
SYMMETRY ThreadSymmetry
INVARIANT NoFileTwice
