SPECIFICATION FairSpec
CONSTANTS
    d1 = d1
    s1 = s1
    s2 = s2
    Deposit = {d1}
    Foreign = {}
    Scanner = {s1, s2}
    Required = 2
    Buffer = 2
    SpendConfs = 2
    ReorgDepth = 1
    MaxHeight = 5
    MaxReorgs = 1
    MaxRestarts = 1
INVARIANTS NothingMissed AcceptedIsFinal
PROPERTIES LastBlockAdvances DepositsAreAccepted
