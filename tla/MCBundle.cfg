SPECIFICATION Spec
CONSTANTS
    Prices <- WrittenPrices
    Stems = {"amazon"}
    FileLists <- MadeFiles
    MaxItems = 3
INVARIANTS
    NamesApart
    NumbersAgree
    EveryFileHasAPlace
    AmountsAreRead
    TotalIsTheSum
CHECK_DEADLOCK FALSE
