SPECIFICATION HistorySpec
CONSTANTS
    d1 = d1
    d2 = d2
    large = large
    gift = gift
    dust = dust
    None = None
    Destinations = {d1}
    Utxos = {large, gift}
    DefaultRate = 2
    MaxRate = 2
    Floors = {1, 3}
    Economic <- MCEconomic
    Enough <- MCEnough
    MaxNotFound = 3
PROPERTY
    MissingOnlyAfterEnoughPolls
