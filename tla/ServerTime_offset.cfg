CONSTANTS
    f1 = f1
    g1 = g1
    Refreshers = {f1}
    Orders = {g1}
    Unknown = unknown
    Hour = 4
    Tolerance = 1
    MinOffset = 0
    MaxOffset = 8
    MaxAge = 1
    Confirmations = 2
    ServerOffsets = {4, 8}
    Lags <- MCLags
SPECIFICATION FairSpec
PROPERTIES
    ConvertedWithinAge
    ReplacedWhenConfirmed
    FollowsTheServer
