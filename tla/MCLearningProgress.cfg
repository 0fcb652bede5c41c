SPECIFICATION Spec
CONSTANTS
    quizModule = quizModule  videoModule = videoModule
    Modules = {quizModule, videoModule}
    QuizModules = {quizModule}
    Pages = {p1}
    StatusRequests = {"completed"}
    Days = 1
    MaxTime = 3
    MaxChanges = 2
PROPERTIES CompletionEarned  LateIsMarked
CHECK_DEADLOCK FALSE
