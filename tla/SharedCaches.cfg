SPECIFICATION Spec
CONSTANTS
    t1 = t1
    t2 = t2
    prod = prod
    dev = dev
    Threads = {t1, t2}
    Configs = {prod, dev}
    Documents = 1
    Initial = prod
    MaxSwitches = 1
    MaxFetches = 1
INVARIANTS
    ClientsAccountedFor
    ClientsBelongTogether
    SingleFlight
    ServedOwnSchema
PROPERTY FollowersAnswered
