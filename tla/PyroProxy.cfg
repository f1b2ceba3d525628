SPECIFICATION FairSpec
CONSTANTS
    t1 = t1
    t2 = t2
    Thread = {t1, t2}
    FirstOwner = t1
    SeqMod = 2
    Refetch = 2
    MaxCalls = 4
    MaxTime = 3
    MaxFaults = 1
    MaxListings = 2
INVARIANTS ReplyMatchesCall OnlyFederatorsAreAsked
PROPERTIES CallsEnd
