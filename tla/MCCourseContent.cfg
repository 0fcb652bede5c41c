SPECIFICATION ContentSpec
CONSTANTS
    i1 = i1  p1 = p1  p2 = p2  None = None
    Images = {i1}
    MaxLines = 4
    MaxModules = 3
    BatchSize = 2
    GroupSize = 2
    Attempts = 2
    MaxPlanned = 2
    MaxImages = 2
    MaxDecks = 2
    Procs = {p1, p2}
    Tasks <- MCTasks
    WithAligner = {p1}
    MaxScripts = 2
    MaxFiles = 3
INVARIANTS TextKept ImagesShown NeverCoverOnly ScriptsFit AcceptedFits SpokenIsWritten
PROPERTY NeverDowngraded
CHECK_DEADLOCK FALSE
