SPECIFICATION Spec
CONSTANTS
    ListOrder <- MCListOrder
    Parent <- MCParent
    MaxSaves = 3
    Transactions <- MCTransactions
    NameOrder <- MCNameOrder
    Stored <- MCStored
    Offers <- MCOffers
    MaxStarts = 2
    MaxCalls = 2
    MaxFaults = 1
INVARIANTS
    
    UserFilesKept
    EntriesKept
    
    
CHECK_DEADLOCK FALSE
