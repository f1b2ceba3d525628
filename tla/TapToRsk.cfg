SPECIFICATION FairSpec
CONSTANTS
    n1 = n1
    n2 = n2
    n3 = n3
    Node = {n1, n2, n3}
    FirstLeader = n1
    NoSignature = NoSignature
    Required = 3
    NumDeposits = 2
    Home <- MCHome
    BatchLimit = 2
    MaxIncidents = 2
INVARIANTS SentOnce BatchInvariant SentIsAccepted FinalizedIsSettled
PROPERTIES ShownStatusAdvances DepositsAreProcessed
