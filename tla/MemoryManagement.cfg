\* Up to three regions, or a negative number of them; any two of the calls may fail, each time or now and then.
SPECIFICATION FairSpec
CONSTANTS
    Nums <- MCNums
    PageNums <- MCPageNums
    FaultSets <- MCTwoFail
    PAGE_SIZE = 4
    INT_MAX = 127
INVARIANTS AveragesWhereLeftByGoto RestrictsExtended CleanupComplete NothingLeftBehind PagesAsPrinted
PROPERTY Termination
