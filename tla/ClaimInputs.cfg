SPECIFICATION Spec
CONSTANTS
    InputSize = 2
    InputMin = 1
    FixedSize = 1
    Jump = 2
    MaxSize = 12
    Dust = 1
    Absent = Absent
    Outputs <- MCOutputs
    RawLength <- MCRawLength
    Lists <- MCLists
    Rates = {1, 2}
    MaxEntries = 2
    MaxBytes = 3
INVARIANTS
    CoinsAreAgreedAndExact
    CacheIsSound
    OneSourceSuffices
    SelectionIsBest
    VerifierAcceptsOnlyBuilt
