CONSTANTS
    r1 = r1
    r2 = r2
    t1 = t1
    Requests = {r1, r2}
    Tickets = {t1}
    Lots = 3
    Codes = {10004, 10036, 10099}
    Earlier = earlier
    NoVolume = novolume
SPECIFICATION FairSpec
INVARIANTS
    RefusedMeansUntouched
    RemainingNotUnderstated
PROPERTIES
    PricedByOwnDeal
    RequestsAnswered
