\* Ticks of 500 ms: the default intervals of 2 s, three checks to an audit.
SPECIFICATION FairSpec
CONSTANTS
    CheckInterval = 4
    AnswerTimeout = 1
    AuditInterval = 6
    TotalChecks = 5
    Threshold = 80
    MaxLate = 2
\* Nothing happens after the kill.
CHECK_DEADLOCK FALSE
INVARIANTS
    TypeOK
    AuditsAreSeparate
    KilledOnlyIfAtFault
    DetectionBound
PROPERTY
    AuditConcludes
