---------------------------- MODULE TokenLedger ----------------------------
(***************************************************************************)
(* What the token endpoints promise, with no guard, transaction, client or *)
(* clock in sight.                                                         *)
(*                                                                         *)
(* A request that offers a credential is taken up only while nobody has    *)
(* bought with that credential.  A request that was taken up may buy one   *)
(* pair of tokens.  Buying with a refresh token replaces the pair it came  *)
(* with in one step; nothing else ends a pair or starts one, whatever      *)
(* fails.  Requests that were taken up on one credential may all buy.      *)
(***************************************************************************)
CONSTANTS
    Req,            \* requests
    Code,           \* authorization codes
    Grant           \* pairs of tokens, each named by the id its tokens have

VARIABLES
    desk,           \* where each request is
    offer,          \* what a request that was taken up offers
    live,           \* the pairs in force
    issued          \* all pairs so far

vars == <<desk, offer, live, issued>>

Password == [kind |-> "password", cred |-> "none"]
Offers == [kind : {"exchange"}, cred : Code] \cup [kind : {"refresh"}, cred : Grant] \cup {Password}
Nothing == [kind |-> "none", cred |-> "none"]

Init ==
    /\ desk = [r \in Req |-> "away"]
    /\ offer = [r \in Req |-> Nothing]
    /\ live = {} /\ issued = {}

Goto(r, place, o) ==
    /\ desk' = [desk EXCEPT ![r] = place]
    /\ offer' = [offer EXCEPT ![r] = o]

\* A password is never spent.
Spent(o) == o # Password /\ \E r \in Req : desk[r] = "bought" /\ offer[r] = o

Take(r, o) ==
    /\ desk[r] = "away"
    /\ ~Spent(o)
    /\ o.kind = "refresh" => o.cred \in live
    /\ Goto(r, "taken", o)
    /\ UNCHANGED <<live, issued>>

Replaced(o) == IF o.kind = "refresh" THEN {o.cred} ELSE {}

Buy(r, g) ==
    /\ desk[r] = "taken"
    /\ g \notin issued
    /\ issued' = issued \cup {g}
    /\ live' = (live \cup {g}) \ Replaced(offer[r])
    /\ Goto(r, "bought", offer[r])

\* A request that bears an access token is let in.
Serve(r, g) ==
    /\ desk[r] = "away"
    /\ g \in live
    /\ Goto(r, "served", Nothing)
    /\ UNCHANGED <<live, issued>>

\* As it comes or later, for any reason.
Refuse(r) ==
    /\ desk[r] \in {"away", "taken"}
    /\ Goto(r, "refused", Nothing)
    /\ UNCHANGED <<live, issued>>

Next ==
    \E r \in Req :
        \/ \E o \in Offers : Take(r, o)
        \/ \E g \in Grant : Buy(r, g) \/ Serve(r, g)
        \/ Refuse(r)

Spec == Init /\ [][Next]_vars
=============================================================================
