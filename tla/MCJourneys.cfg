SPECIFICATION JourneysSpec
CONSTANTS
  j1 = j1
  j2 = j2
  c1 = c1
  c2 = c2
  None = None
  J = {j1, j2}
  Courses = {c1, c2}
  Plans <- MCPlans
  FirstPlan <- MCFirstPlan
  FirstRule <- MCFirstRule
  FirstAfter <- MCFirstAfter
  Before <- MCBefore
  Syncs = {s1}
  MaxActs = 2
INVARIANTS UnlockedIsGiven UnbackedIsWithdrawn ReportsAgree
CHECK_DEADLOCK FALSE
