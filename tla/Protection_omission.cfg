CONSTANTS
    w1 = w1
    w2 = w2
    t1 = t1
    Workers = {w1, w2}
    Tickets = {t1}
    Bids <- MCBids
    Spread = 2
    Info <- MCInfo
    Changes <- MCChanges
    Placed <- MCPlaced
    Codes = {10009, 10013, 10099}
    NoReply = noreply
    Raised = raised
SPECIFICATION Spec
PROPERTIES
    OmissionNeverRemoves
SYMMETRY Symmetry
