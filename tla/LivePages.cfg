CONSTANTS
    None = None
    MaxCalls = 2
    MaxDraft = 1
    MaxLost = 1
    Pages = {"entry", "shell", "inbox"}
SPECIFICATION LiveSpec
CHECK_DEADLOCK FALSE
INVARIANTS SessionTellsNoMoreThanTheAccount
PROPERTIES RedirectsSettle TransitionEnds ClosedWorkspacesAreLeft InboxCatchesUp
