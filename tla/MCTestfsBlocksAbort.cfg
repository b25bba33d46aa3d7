SPECIFICATION Spec
CONSTANTS
    Files = {f, g}
    NoFile = nofile
    ND = 1
    NI = 2
    MaxFsBlocks = 5
    MaxWrite = 3
SYMMETRY FileSymmetry
INVARIANT RemoveNeverAborts
