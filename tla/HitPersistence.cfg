SPECIFICATION FairSpec
CONSTANTS
    s1 = s1
    s2 = s2
    k1 = k1
    k2 = k2
    i1 = i1
    i2 = i2
    None = None
    Staged = {s1, s2}
    Saved <- MCSaved
    Inodes = {i1, i2}
    MaxForeign = 2
INVARIANTS
    KeySurvives
    NoPartialKey
PROPERTIES
    HitIsSaved
    ForeignIsLeftAlone
    SearchDoesNotResume
