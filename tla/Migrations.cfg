\* Three commands, two of them at a time.
SPECIFICATION Spec
CONSTANTS
    Cmd = {c1, c2, c3}
    MaxActive = 2
SYMMETRY CommandSymmetry
\* All commands may have ended.
CHECK_DEADLOCK FALSE
INVARIANTS
    TypeOK
    RecordedIsApplied
    SchemaIsThatOfTheRecord
    RefreshRestoresSchema
    OneRunGetsThrough
