SPECIFICATION FairSpec
CONSTANTS
    Event = {e1, e2}
    LogIndex = {0, 1}
    StartBlock = 1
    Margin = 1
    BatchSize = 1
    Retries = 1
    MaxReorg = 2
    MaxBlocks = 5
    MaxReorgs = 2
    MaxFaults = 2
INVARIANTS RowsMatchChain SecondRowNeedsDeepReorganisation
PROPERTIES EventsAreRecorded
