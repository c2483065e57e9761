\* Two overlapping requests against the promise that a credential is consumed.
SPECIFICATION Spec
CONSTANTS
    Req = {r1, r2}
    Code = {c1}
    Grant = {g1, g2}
    AccessLife = 1
    RefreshLife = 2
    MaxNow = 0
CHECK_DEADLOCK FALSE
INVARIANT
    CredentialsAreSingleUse
