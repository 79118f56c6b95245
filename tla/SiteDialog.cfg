CONSTANTS
    p = p
    q = q
    f = f
    None = None
    Url = {p, q, f}
    PageOf <- MCPageOf
    Limits = {1, 5}
    PreviewLimit = 3
    UsualLimit = 5
    Platform = {q}
    FeedOf <- MCFeedOf
    MaxRequests = 2
SPECIFICATION Spec
CHECK_DEADLOCK FALSE
INVARIANTS TypeOK BusyMeansOneRequest TestedIsAnalysed PreviewForetells
