SPECIFICATION OutboxSpec
CONSTANTS
    a1 = a1  a2 = a2  m1 = m1
    Assignments = {a1}
    Managers = {m1}
    DigestRoles = {"hod"}
    Deadlines = {1,3}
    ReminderDelay = 0
    DueSoonWindow = 1
    RepeatInterval = 1
    MaxNotices = 1
    MaxAttempts = 2
    RetryDelay = 1
    LockTimeout = 1
    BatchSize = 2
    MaxDays = 3
    MaxWrites = 2
    MaxFaults = 1
INVARIANTS ToldOnce
PROPERTIES ToldIsCurrent 
