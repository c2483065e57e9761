\* A send to a worker whose channel is closed, against the catch around it.
SPECIFICATION Spec
CONSTANTS
    Cpus = 1
    CpuMax = 0
    MaxWorkerAttempts = 1
    Pid = {p1, p2}
CHECK_DEADLOCK FALSE
INVARIANT
    FailedSendIsSurvived
