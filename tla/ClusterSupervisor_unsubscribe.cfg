\* The subscriptions of a replaced worker against setupSubscriptions' comment.
SPECIFICATION Spec
CONSTANTS
    Cpus = 1
    CpuMax = 0
    MaxWorkerAttempts = 1
    Pid = {p1, p2}
CHECK_DEADLOCK FALSE
PROPERTY
    ReplacedWorkerIsUnsubscribed
