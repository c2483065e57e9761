\* One slot with two restarts, on a machine with more CPUs than cpuMax allows.
SPECIFICATION FairSpec
CONSTANTS
    Cpus = 3
    CpuMax = 1
    MaxWorkerAttempts = 2
    Pid = {p1, p2, p3}
\* The system may stop for good.
CHECK_DEADLOCK FALSE
PROPERTIES
    CondemnedIsReplaced
    ExhaustionStopsPrimary
