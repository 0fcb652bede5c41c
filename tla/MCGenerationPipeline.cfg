SPECIFICATION Spec
CONSTANTS
    m1 = m1  m2 = m2
    Modules = {m1, m2}
    None = None
    MaxFaults = 3
    EarlyVideos = FALSE
 
PROPERTIES ContinueKeepsWork 
CHECK_DEADLOCK FALSE
