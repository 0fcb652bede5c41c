SPECIFICATION Spec
CONSTANTS
    m1 = m1
    Modules = {m1}
    Workers = 2
    Slots = 2
    MaxRetries = 1
    MaxRejections = 1
    Retention = TRUE
    MaxRounds = 2
    MaxFaults = 3
INVARIANTS NoDuplicateRun ShowsCurrentText
  
