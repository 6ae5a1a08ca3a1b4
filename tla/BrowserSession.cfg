CONSTANTS
    Tabs = {t1, t2}
    MaxSessions = 1
    None = None
    MaxTokens = 2
    MaxTrouble = 2
SPECIFICATION BrowserSpec
CHECK_DEADLOCK FALSE
INVARIANTS ReuseOnlyAfterLoss
PROPERTIES  LoadingEnds
