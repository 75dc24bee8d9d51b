SPECIFICATION Spec
CONSTANTS
    Requests = {r1, r2}
    Start = Start
    Stop = Stop
    MaxEnables = 3
    MaxDisables = 2
INVARIANTS TypeOK ServerIsHeard AnswersAreAwaited
PROPERTIES GetsEnd
CHECK_DEADLOCK FALSE
