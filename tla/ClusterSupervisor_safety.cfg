\* Two slots with one restart each: four workers in all.
SPECIFICATION Spec
CONSTANTS
    Cpus = 2
    CpuMax = 0
    MaxWorkerAttempts = 1
    Pid = {p1, p2, p3, p4}
SYMMETRY PidSymmetry
\* The system may stop for good.
CHECK_DEADLOCK FALSE
INVARIANTS
    TypeOK
    OneWorkerPerSlot
    AttemptsAccountForForks
    NeverStranded
    ClosedOnlyWhenExhausted
    OnlineWorkersAreWatched
PROPERTY
    ImplementsSupervision
