\* Three requests of the browser, all of which may overlap, over three session
\* ids, two forms and two pages.
SPECIFICATION Spec
CONSTANTS
    Req = {r1, r2, r3}
    Sid = {s1, s2, s3}
    Form = {f1, f2}
    Page = {u1, u2}
    Resave = TRUE
    SaveUninitialized = FALSE
    Driver = "memory"
    MaxRequests = 3
SYMMETRY SessionSymmetry
\* Every id may be taken by a stored session.
CHECK_DEADLOCK FALSE
INVARIANTS
    TypeOK
    InputsBelongToErrors
    IntendHoldsTwo
    LatestRefusalIsIntended
    ClearedFormStaysCleared
    DestroyedStaysDestroyed
    AuthFollowsCommit
    FormBelongsToOneSession
