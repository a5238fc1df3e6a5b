SPECIFICATION FairSpec
CONSTANTS
    d1 = d1
    d2 = d2
    large = large
    gift = gift
    dust = dust
    None = None
    Destinations = {d1, d2}
    Utxos = {large, gift, dust}
    DefaultRate = 2
    MaxRate = 3
    Floors = {1, 3, 4}
    Economic <- MCEconomic
    Enough <- MCEnough
    MaxNotFound = 3
INVARIANTS
    SingleLive
    DurableGuard
    WatchedGuard
    OwnerIsToldTheTruth
PROPERTIES
    ImplementsOneClaim
    OnlyConfirmedPreviewIsSent
    OutcomeIsReported
