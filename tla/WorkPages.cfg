CONSTANTS
    None = None
    MaxCalls = 2
    MaxDraft = 1
    MaxLost = 1
    MayVoid = TRUE
    MaxReturn = 2
    CanRecord = TRUE
    CanRecordPayment = TRUE
    CanManageDocuments = TRUE
    Stocked = {"phone"}
    Grouped = {"phone"}
    Individual = {"phone"}
    MaxQuantity = 1
    MaxStack = 2
    SoldOn <- MCSoldOn
    WarrantyMonths = {1, 3, 12}
    MaxMessages = 4
    History = 2
    Queries = {"a", "b"}
    Pages = {"sales", "returns", "financing", "agreements", "stock", "receipts", "catalog", "expenses", "budgets", "documents", "team", "assistant", "search", "preferences", "editor"}
SPECIFICATION WorkSpec
CHECK_DEADLOCK FALSE
INVARIANTS SubmissionsRunOnce  SelectionMatchesLines  WarrantyEndsInItsMonth ChangesStayWithinRank AnswersFollowTheirQuestion ResultsAnswerTheLastSearch ChoicesFollowTheBackend EditorsFollowTheBackend
 
