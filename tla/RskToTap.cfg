SPECIFICATION FairSpec
CONSTANTS
    n1 = n1
    n2 = n2
    Node = {n1, n2}
    FirstLeader = n1
    BatchLimit = 2
    MaxTransfers = 3
    MaxFaults = 1
    MaxRestarts = 2
INVARIANTS SentInOrder StatusInvariant
PROPERTIES TransfersAreSent
