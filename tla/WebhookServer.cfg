SPECIFICATION Spec
CONSTANTS
    Requests = {q1, q2}
    MaxGen = 2
    Cap = 1
    None = None
INVARIANT TypeOK
INVARIANT AnswerIsTrue
INVARIANT NoWorkerLeft
PROPERTY HandlersReturn
PROPERTY LockReleased
PROPERTY AcknowledgedTaken
CHECK_DEADLOCK FALSE
