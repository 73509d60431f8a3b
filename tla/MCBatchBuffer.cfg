SPECIFICATION FairSpec
CONSTANTS
    Writers = {w1, w2}
    Ticker = ticker
    TableCount = 2
    Keyed <- KeyedTables
    MaxSize = 2
    MaxRows = 3
    MaxInserts = 4
    MaxFaults = 2
INVARIANTS
    TypeOK
    OneHolder
    NoRowLost
    DuplicatesExplained
    BufferBounded
PROPERTIES
    RowsReachDatabase
    RunReturns
CHECK_DEADLOCK FALSE
