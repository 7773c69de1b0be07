SPECIFICATION FairSelectionSpec
CONSTANTS
    Views <- MCViews
    Requests = {1, 2}
    NumPIDs = {1, 3}
    CopyFactor = 1
    NoWeights = NoWeights
INVARIANTS FilledUp QuotasKept
PROPERTIES Ends
CHECK_DEADLOCK FALSE
