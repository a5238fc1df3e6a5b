SPECIFICATION SearchSpec
CONSTANTS
    MaxBlock = 3
    Bits = {0, 1, 2}
    Hashes <- MCHashes
    BloomLimit = 2
    Histories <- MCHistories
    None = None
    Limbs = 3
    LimbBits = 2
    LimbBytes = 2
    Factor = 3
    GenX = 2
    GenY = 25
    CurveOrder = 61
    RangeMin = 16
    BlockSize = 8
    Profiles <- MCProfiles
    AffineBatch = 2
    Entropy = 15
    Targets <- MCTargets
    Watched <- MCWatched
    MaxThreads = 3
    MaxSteps = 3
    SampleLength = 130
    Panic = Panic
INVARIANTS
    SearchIsExact
    ArithmeticIsExact
    AddressIsExact
    ChoiceIsFair
    IndexIsExact
    RecheckIsExact
CHECK_DEADLOCK FALSE
