SPECIFICATION LocalSpec
CONSTANTS
    ListOrder <- MCListOrder
    Parent <- MCParent
    MaxSaves = 3
    Transactions <- MCTransactions
    NameOrder <- MCNameOrder
    Stored <- MCStored
    Offers <- MCOffers
    MaxStarts = 2
    MaxCalls = 2
    MaxFaults = 1
INVARIANTS
    XdataKept
CHECK_DEADLOCK FALSE
