SPECIFICATION Spec
CONSTANTS
    t1 = t1  t2 = t2  o1 = o1  o2 = o2
    Tabs = {t1, t2}
    Typists = {t1}
    Ops = {o1}
    None = None
    MaxRevision = 3
    MaxTyped = 2
INVARIANT ApprovalIsReviewed
PROPERTIES   CancelledIsQuiet OperationsEnd
CHECK_DEADLOCK FALSE
