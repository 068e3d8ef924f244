SPECIFICATION Spec
CONSTANTS
    None = None
    Nothing = Nothing
    operated = operated
    odd = odd
    plain = plain
    narrow = narrow
    t1 = t1
    t2 = t2
    Threads = {t1, t2}
    Keys = {plain, narrow}
    Services = {operated, odd}
    Reach <- MCReach
    Candidates <- MCCandidates
    PositiveTTL = 2
    NegativeTTL = 1
    MaxDelay = 1
    MaxTime = 3
    MaxChanges = 2
SYMMETRY Interchangeable
PROPERTIES
    AnswersWereTrue
    RefusalsAreRecent
    ScansAreSpaced
CHECK_DEADLOCK FALSE
