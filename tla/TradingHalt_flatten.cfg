CONSTANTS
    r1 = r1
    o1 = o1
    o2 = o2
    t1 = t1
    t2 = t2
    Requests = {r1}
    Tickets = {t1, t2}
    Lots = 1
    Codes = {10036}
    Earlier = earlier
    NoVolume = novolume
    Traders = {}
    Orders = {}
SPECIFICATION HaltSpec
INVARIANT FlattenClosesAll
