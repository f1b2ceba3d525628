SPECIFICATION SelectionSpec
CONSTANTS
    Kind <- MCKind
    MaxUtxos = 4
    TransferAmount = {1, 3}
    Rate = {1, 10}
    MinConfirmations = 2
    MaxInputs = 3
INVARIANTS InputInvariant RunesAreCovered BuiltIsFunded PeersAcceptChange ShortageIsReal
CHECK_DEADLOCK FALSE
