SPECIFICATION FairSpec
CONSTANTS
    n1 = n1
    n2 = n2
    n3 = n3
    c1 = c1
    Node = {n1, n2, n3}
    Candidate = {n1, n2}
    FirstLeader = n1
    Quorum = 2
    NumBurns = 2
    Amount <- MCAmount
    Coin = {c1}
    CoinRunes <- MCCoinRunes
    NoPsbt = NoPsbt
    MaxFaults = 1
    MaxRestarts = 1
    MaxGovernance = 2
INVARIANTS SentIsPaid WalletInvariant
PROPERTIES BurnsArePaid ImplementsFederatedPayout
