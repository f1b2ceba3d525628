SPECIFICATION FairSpec
CONSTANTS
    n1 = n1
    n2 = n2
    n3 = n3
    n4 = n4
    d1 = d1
    d2 = d2
    d3 = d3
    r1 = r1
    r2 = r2
    Node = {n1, n2, n3, n4}
    Candidate = {n1}
    FirstLeader = n1
    PeerOrder <- MCPeerOrder
    Deposit = {d1, d2}
    NoDeposit = NoDeposit
    Rune = {r1}
    RuneOf <- MCRuneOf
    Fee = {1}
    FirstFee = 1
    LowPostage = {}
    Dust = {}
    Spendable = {d1}
    FirstRegistered = {r1}
    MaxDepth = 2
    MaxPending = 1
    RpcMayFail = FALSE
    MaxGovernance = 0
    MaxRestarts = 0
PROPERTIES DepositsAreConfirmed
