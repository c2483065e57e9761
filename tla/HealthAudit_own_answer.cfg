\* Late answers against the comment on the 500 ms of a check.
SPECIFICATION Spec
CONSTANTS
    CheckInterval = 4
    AnswerTimeout = 1
    AuditInterval = 4
    TotalChecks = 3
    Threshold = 80
    MaxLate = 1
CHECK_DEADLOCK FALSE
PROPERTY
    CheckPassesByItsOwnAnswer
