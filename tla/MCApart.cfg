SPECIFICATION ApartSpec
CONSTANTS
    Files = {1, 2}
    Content <- MCContent
    Refused <- MCRefused
    NameError <- MCNameError
    MethodError <- MCMethodError
    RioBuf = 2
    MaxLine = 3
    MaxBuf = 3
    Wire = 4
    CsumMod = 4
    Times = 2
    MaxInterrupts = 1
    BS = 2
    NB = 4
    Space = 3
    MaxBytes = 6
    Coords <- MCCoords
    MaxPoints = 3
    Words = {"a", "b", "c"}
    Empty = "none"
    Buckets = {1, 2}
    Hash <- MCHash
    MaxRuns = 5
INVARIANTS AnswersExact OnlyHangupsHurt DataSound PointsSound WordsSound
PROPERTY RequestsEnd
CHECK_DEADLOCK FALSE
