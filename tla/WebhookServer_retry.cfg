SPECIFICATION Spec
CONSTANTS
    Requests = {q1, q2}
    MaxGen = 2
    Cap = 1
    None = None
CHECK_DEADLOCK FALSE
PROPERTY FailedPublishRetried
