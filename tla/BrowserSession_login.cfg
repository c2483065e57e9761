\* A login and the session it gives to the browser.
SPECIFICATION Spec
CONSTANTS
    Req = {r1}
    Sid = {s1, s2}
    Form = {f1}
    Page = {u1}
    Resave = TRUE
    SaveUninitialized = FALSE
    Driver = "memory"
    MaxRequests = 1
\* Every id may be taken by a stored session.
CHECK_DEADLOCK FALSE
INVARIANT
    LoginSignsIn
