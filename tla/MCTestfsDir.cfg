SPECIFICATION Spec
CONSTANTS
    a = a
    b = b
    cc = cc
    NrInodes = 3
    NrBits = 4
    MaxFsBlocks = 5
    BlockSize = 17
    ND = 1
    Names = {a, b, cc}
    EntrySize <- MCEntrySize
    NrAt = 1
    NrEnd = 3
    MaxBlocks = 3
    MaxLeaks = 1
    MaxCrashes = 1
SYMMETRY Symmetry
INVARIANTS TypeOK TreeSound NamesSurvive Accounts
