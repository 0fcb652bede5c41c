SPECIFICATION Spec
CONSTANTS
  e1 = e1
  e2 = e2
  None = None
  Employees = {e1, e2}
  FirstFacts <- MCFirstFacts
  Listing <- MCListing
  PageSize = 1
  MaxChanges = 2
  MaxDays = 2
  MaxAsked = 1
  MaxFaults = 1
INVARIANTS SyncedIsCurrent CourseFollowsDirectory
CHECK_DEADLOCK FALSE
