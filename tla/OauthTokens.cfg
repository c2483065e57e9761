\* Four requests over one code, with every way to overlap.
SPECIFICATION Spec
CONSTANTS
    Req = {r1, r2, r3, r4}
    Code = {c1}
    Grant = {g1, g2, g3, g4}
    AccessLife = 1
    RefreshLife = 2
    MaxNow = 3
SYMMETRY OauthSymmetry
\* All requests may have been answered.
CHECK_DEADLOCK FALSE
INVARIANTS
    TypeOK
    SpentCredentialsBuyNothing
    TokensMatchAnswers
    OneAttemptPerCode
    AcceptedAsLongAsTold
PROPERTIES
    NothingIsRevived
    ImplementsTokenLedger
