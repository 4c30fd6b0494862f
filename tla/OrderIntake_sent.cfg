CONSTANTS
    poster = poster
    reader = reader
    s1 = s1
    Threads = {poster, reader}
    Posters = {poster}
    Symbols = {s1}
    Traded = s1
    MaxCached = 1
    MaxRestarts = 1
    Info <- MCInfo
    Bodies <- MCBodies
    Bids <- MCBids
    Spread = 2
    MaxVolume = 6
    BandPct = 50
    MaxPolls = 1
    Nothing = nothing
SPECIFICATION FairSpec
INVARIANTS
    SentWithinLimits
    SentProtects
PROPERTIES
    CheckedIsNotRefused
    FilledMeansPriced
    SymbolsHeal
