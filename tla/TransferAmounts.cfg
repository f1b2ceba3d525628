SPECIFICATION AmountsSpec
CONSTANTS
    Divisor = 4
    FeeNum = 3
    FeeDen = 20
    DynamicDivisor = 10
    Policy <- MCPolicy
    MaxAmount = 7
    MaxTransfers = 2
INVARIANTS Backed RoundingIsFair
