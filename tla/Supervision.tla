---------------------------- MODULE Supervision ----------------------------
(***************************************************************************)
(* What the clustered server promises about its slots, with no process,    *)
(* channel or message in sight: a slot that loses its worker gets a new    *)
(* one as long as its own budget lasts, an exhausted slot goes down alone, *)
(* and the system stops by itself exactly when a slot goes down and no     *)
(* slot has budget left.  It may also fail.                                *)
(***************************************************************************)
EXTENDS Integers

CONSTANTS Slots, Budget

VARIABLES system, budget, up

vars == <<system, budget, up>>

Init ==
    /\ system = "running"
    /\ budget = [s \in Slots |-> Budget]
    /\ up = [s \in Slots |-> TRUE]

Replace(s) ==
    /\ system = "running"
    /\ up[s]
    /\ budget[s] > 0
    /\ budget' = [budget EXCEPT ![s] = @ - 1]
    /\ UNCHANGED <<system, up>>

GoDown(s) ==
    /\ system = "running"
    /\ up[s]
    /\ budget[s] = 0
    /\ up' = [up EXCEPT ![s] = FALSE]
    /\ system' = IF \A t \in Slots : budget[t] = 0 THEN "exited" ELSE "running"
    /\ UNCHANGED budget

Fail ==
    /\ system = "running"
    /\ system' = "crashed"
    /\ UNCHANGED <<budget, up>>

Next == Fail \/ \E s \in Slots : Replace(s) \/ GoDown(s)

Spec == Init /\ [][Next]_vars
=============================================================================
