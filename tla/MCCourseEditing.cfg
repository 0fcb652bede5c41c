SPECIFICATION Spec
CONSTANTS
    r1 = r1
    r2 = r2
    None = None
    ByHand = ByHand
    MaxEdits = 2
    MaxJobs = 2
    MaxFaults = 1
CONSTANT Requests <- const_Requests
CHECK_DEADLOCK FALSE
SYMMETRY symm
INVARIANT OffersItsText
PROPERTIES HeldIsLeftAlone DeletedStaysDeleted
