CONSTANTS
    c1 = c1
    c2 = c2
    w1 = w1
    d = d
    None = None
    Calls <- MCCalls
    Workers <- MCWorkers
    Dispatcher = d
    Values <- MCValues
    Scenarios <- MCScenarios
    MaxStatusChanges = 1
    MaxAnswers = 2
    MaxFailures = 1
    MaxLosses = 1
    InitialValue = 0
SPECIFICATION Spec
CHECK_DEADLOCK FALSE
INVARIANT TypeOK
INVARIANT AnswersTrue
INVARIANT ObserversAgree
PROPERTY CallsReturn
