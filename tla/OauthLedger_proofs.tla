------------------------- MODULE OauthLedger_proofs -------------------------
(***************************************************************************)
(* OauthTokens implements TokenLedger, and how far its two findings reach. *)
(*                                                                         *)
(* A request is taken up by the step that lets in its credential, before   *)
(* it is known whether the credential will be consumed.  That nobody has   *)
(* bought with it yet is what the tables say at that moment: a code or a   *)
(* token that bought is gone from them (IInv of OauthTokens_proofs).       *)
(***************************************************************************)
EXTENDS OauthTokens_proofs

LEMMA InitRefines == Init => Ledger!Init
<1> SUFFICES ASSUME Init PROVE Ledger!Init
    OBVIOUS
<1>1. \A r \in Req : req[r].pc = "idle" /\ req[r].granted = NoGrant
    BY DEF Init, Idle
<1>2. Desk = [r \in Req |-> "away"]
    BY <1>1 DEF Desk, DeskOf
<1>3. Offered = [r \in Req |-> Ledger!Nothing]
    BY <1>1 DEF Offered, OfferOf, DeskOf, Ledger!Nothing, NoCred
<1>4. access = {} /\ Issued = {}
    BY <1>1 DEF Init, Issued
<1> QED BY <1>2, <1>3, <1>4 DEF Ledger!Init

-----------------------------------------------------------------------------
(* Every request that arrives goes to a state that suits what it presents. *)

LEMMA LoginArrives ==
    ASSUME IInv, NEW r \in Req, NEW given \in Payload, Login(r, given)
    PROVE  /\ access' = access
           /\ \E kind, c, state : \E matches \in BOOLEAN :
                  Arrive(r, kind, c, matches, state) /\ Suits(kind, c, state)
<1>1. access' = access
    BY DEF Login, RefusePayload, FindCode, CheckPassword, tokenVars
<1>2. CASE \E grantType \in GrantTypes : RefusePayload(r, grantType, given)
    BY <1>1, <1>2, GuardsAnswer DEF Suits, RefusePayload
<1>3. CASE \E c \in Code, matches \in BOOLEAN, grantType \in GrantTypes \ {"password"} :
               FindCode(r, c, matches, grantType, given)
    BY <1>1, <1>3 DEF Suits, FindCode, LoginGuard
<1>4. CASE \E matches \in BOOLEAN : CheckPassword(r, matches, given)
  <2>1. PICK matches \in BOOLEAN, state \in {"verified", "rejected", "error"} :
            Arrive(r, "password", NoCred, matches, state)
      BY <1>4, GuardsAnswer DEF CheckPassword
  <2> QED BY <1>1, <2>1 DEF Suits
<1> QED BY <1>2, <1>3, <1>4 DEF Login

LEMMA TokenArrives ==
    ASSUME IInv, NEW r \in Req, NEW g \in Grant,
           \/ \E bearer \in BOOLEAN : UseToken(r, g, bearer)
           \/ \E given \in {RefreshRequired, {}} : LoadRefreshToken(r, g, given)
    PROVE  /\ access' = access
           /\ \E kind, c, state : \E matches \in BOOLEAN :
                  Arrive(r, kind, c, matches, state) /\ Suits(kind, c, state)
<1>1. access' = access
    BY DEF UseToken, LoadRefreshToken, tokenVars
<1>2. CASE \E bearer \in BOOLEAN : UseToken(r, g, bearer)
    BY <1>1, <1>2 DEF Suits, UseToken, FindUserByToken, ActiveToken
<1>3. CASE \E given \in {RefreshRequired, {}} : LoadRefreshToken(r, g, given)
  <2>1. PICK state \in {"loaded", "rejected", "error"} :
            /\ Arrive(r, "refresh", g, FALSE, state)
            /\ state = "loaded" => g \in refresh
            /\ ~Fresh(g)
      BY <1>3, GuardsAnswer DEF LoadRefreshToken
  <2> QED BY <1>1, <2>1 DEF Suits
<1> QED BY <1>2, <1>3

-----------------------------------------------------------------------------
(* What a step of one request is to the ledger. *)

LEMMA RequestStep ==
    ASSUME TypeOK, NEW r \in Req, NEW x, req' = [req EXCEPT ![r] = x]
    PROVE  /\ Desk' = [Desk EXCEPT ![r] = DeskOf(x.pc)]
           /\ Offered' = [Offered EXCEPT ![r] = OfferOf(x)]
           /\ x.granted = req[r].granted => Issued' = Issued
<1>1. /\ req'[r] = x
      /\ \A q \in Req \ {r} : req'[q] = req[q]
    BY DEF TypeOK
<1>2. Desk' = [Desk EXCEPT ![r] = DeskOf(x.pc)]
  <2>1. Desk = [q \in Req |-> DeskOf(req[q].pc)] /\ Desk' = [q \in Req |-> DeskOf(req'[q].pc)]
      BY DEF Desk
  <2>2. \A q \in Req : DeskOf(req'[q].pc) = IF q = r THEN DeskOf(x.pc) ELSE DeskOf(req[q].pc)
      BY <1>1
  <2> QED BY <2>1, <2>2
<1>3. Offered' = [Offered EXCEPT ![r] = OfferOf(x)]
  <2>1. Offered = [q \in Req |-> OfferOf(req[q])] /\ Offered' = [q \in Req |-> OfferOf(req'[q])]
      BY DEF Offered
  <2>2. \A q \in Req : OfferOf(req'[q]) = IF q = r THEN OfferOf(x) ELSE OfferOf(req[q])
      BY <1>1
  <2> QED BY <2>1, <2>2
<1>4. ASSUME x.granted = req[r].granted PROVE Issued' = Issued
  <2>1. \A q \in Req : req'[q].granted = req[q].granted
      BY <1>1, <1>4
  <2> QED BY <2>1 DEF Issued
<1> QED BY <1>2, <1>3, <1>4

LEMMA DeskPlaces ==
    /\ DeskOf("idle") = "away"
    /\ \A pc \in {"found", "verified", "loaded", "read"} : DeskOf(pc) = "taken"
    /\ DeskOf("ok") = "bought"
    /\ DeskOf("served") = "served"
    /\ \A pc \in {"rejected", "error"} : DeskOf(pc) = "refused"
BY DEF DeskOf

\* A request that is refused, as it comes or later.
LEMMA RefuseRefines ==
    ASSUME TypeOK, NEW r \in Req, NEW x, req' = [req EXCEPT ![r] = x],
           req[r].pc = "idle" \/ Underway(r),
           x.pc \in {"rejected", "error"}, x.granted = req[r].granted, access' = access
    PROVE  Ledger!Refuse(r)
<1>1. Desk[r] \in {"away", "taken"}
    BY DeskPlaces DEF Desk, Underway
<1>2. DeskOf(x.pc) = "refused" /\ OfferOf(x) = Ledger!Nothing
    BY DeskPlaces DEF OfferOf, Ledger!Nothing, NoCred
<1>3. /\ Desk' = [Desk EXCEPT ![r] = "refused"]
      /\ Offered' = [Offered EXCEPT ![r] = Ledger!Nothing]
      /\ Issued' = Issued
  <2>1. /\ Desk' = [Desk EXCEPT ![r] = DeskOf(x.pc)]
        /\ Offered' = [Offered EXCEPT ![r] = OfferOf(x)]
        /\ Issued' = Issued
      BY RequestStep
  <2> QED BY <1>2, <2>1
<1>4. Ledger!Goto(r, "refused", Ledger!Nothing)
    BY <1>3 DEF Ledger!Goto
<1>5. access' = access /\ Issued' = Issued
    BY <1>3
<1> QED BY <1>1, <1>4, <1>5, Zenon DEF Ledger!Refuse

\* The offers that bought: their credentials are in no table any more.
LEMMA OffersThatBought ==
    ASSUME IInv, NEW kind, NEW c, (kind = "exchange" /\ c \in codes) \/ (kind = "refresh" /\ c \in access)
    PROVE  ~Ledger!Spent([kind |-> kind, cred |-> c])
<1> SUFFICES ASSUME NEW q \in Req, Desk[q] = "bought", Offered[q] = [kind |-> kind, cred |-> c]
             PROVE  FALSE
    BY DEF Ledger!Spent
<1>1. req[q] \in Request
    BY DEF IInv, TypeOK
<1>2. req[q].pc = "ok"
    BY <1>1 DEF Desk, DeskOf, Request
<1>3. req[q].kind = kind /\ req[q].cred = c
  <2>1. Offered[q] = [kind |-> req[q].kind, cred |-> req[q].cred]
      BY <1>2, DeskPlaces DEF Offered, OfferOf
  <2> QED BY <2>1
<1>4. CASE kind = "exchange"
    BY <1>2, <1>3, <1>4 DEF IInv, OneAttemptPerCode
<1>5. CASE kind = "refresh"
    BY <1>2, <1>3, <1>5 DEF IInv, TokensMatchAnswers, Refreshed, Succeeded
<1> QED BY <1>4, <1>5

\* A request that arrives is refused, served or taken up.
LEMMA ArriveRefines ==
    ASSUME IInv, NEW r \in Req, NEW kind, NEW c, NEW matches \in BOOLEAN, NEW state,
           Arrive(r, kind, c, matches, state), Suits(kind, c, state), access' = access
    PROVE  Ledger!Next
<1> DEFINE x == [pc |-> state, kind |-> kind, cred |-> c, proof |-> matches,
                   granted |-> NoGrant, since |-> 0,
                   tooLate |-> kind # "password" /\ Spent(kind, c)]
           o == [kind |-> kind, cred |-> c]
<1>1. req' = [req EXCEPT ![r] = x] /\ req[r].pc = "idle"
    BY DEF Arrive
<1>2. x.pc = state /\ x.kind = kind /\ x.cred = c /\ x.granted = NoGrant
    OBVIOUS
<1> HIDE DEF x
<1>3. TypeOK /\ x.granted = req[r].granted
    BY <1>1, <1>2 DEF IInv, Progress
<1>4. Desk[r] = "away"
    BY <1>1, DeskPlaces DEF Desk
<1>5. /\ Desk' = [Desk EXCEPT ![r] = DeskOf(state)]
      /\ Offered' = [Offered EXCEPT ![r] = OfferOf(x)]
      /\ Issued' = Issued
    BY <1>1, <1>2, <1>3, RequestStep
<1>6. CASE state \in {"rejected", "error"}
  <2>1. Ledger!Refuse(r)
      BY <1>1, <1>2, <1>3, <1>6, RefuseRefines
  <2> QED BY <2>1 DEF Ledger!Next
<1>7. CASE state = "served"
  <2>1. c \in Grant /\ c \in access
      BY <1>7 DEF Suits
  <2>2. DeskOf(state) = "served" /\ OfferOf(x) = Ledger!Nothing
      BY <1>2, <1>7, DeskPlaces DEF OfferOf, Ledger!Nothing, NoCred
  <2>3. Ledger!Serve(r, c)
      BY <1>4, <1>5, <2>1, <2>2 DEF Ledger!Serve, Ledger!Goto
  <2> QED BY <2>1, <2>3 DEF Ledger!Next
<1>8. CASE state \in {"found", "verified", "loaded"}
  <2>1. DeskOf(state) = "taken" /\ OfferOf(x) = o
      BY <1>2, <1>8, DeskPlaces DEF OfferOf
  <2>2. \/ kind = "exchange" /\ c \in Code /\ c \in codes
        \/ kind = "password" /\ c = NoCred
        \/ kind = "refresh" /\ c \in Grant /\ c \in access
      BY <1>8 DEF Suits, IInv, TokensMatchAnswers
  <2>3. o \in Ledger!Offers
      BY <2>2 DEF Ledger!Offers, Ledger!Password, NoCred
  <2>4. ~Ledger!Spent(o)
    <3>1. CASE kind = "password"
      <4>1. o = Ledger!Password
          BY <2>2, <3>1 DEF Ledger!Password, NoCred
      <4> QED BY <4>1 DEF Ledger!Spent
    <3>2. CASE kind # "password"
        BY <2>2, <3>2, OffersThatBought
    <3> QED BY <3>1, <3>2
  <2>5. o.kind = "refresh" => o.cred \in access
      BY <2>2
  <2>6. Ledger!Take(r, o)
      BY <1>4, <1>5, <2>1, <2>4, <2>5 DEF Ledger!Take, Ledger!Goto
  <2> QED BY <2>3, <2>6 DEF Ledger!Next
<1> QED BY <1>6, <1>7, <1>8 DEF Suits

\* A request that was taken up goes on, or is refused.
LEMMA MoveRefines ==
    ASSUME IInv, NEW r \in Req, NEW state, NEW t,
           req' = [req EXCEPT ![r] = [@ EXCEPT !.pc = state, !.since = t]],
           Underway(r), state \in {"verified", "read", "rejected", "error"},
           access' = access
    PROVE  [Ledger!Next]_(Ledger!vars)
<1> DEFINE x == [req[r] EXCEPT !.pc = state, !.since = t]
<1>1. req' = [req EXCEPT ![r] = x]
    OBVIOUS
<1>2. req[r] \in Request
    BY DEF IInv, TypeOK
<1>3. x.pc = state /\ x.kind = req[r].kind /\ x.cred = req[r].cred /\ x.granted = req[r].granted
    BY <1>2 DEF Request
<1> HIDE DEF x
<1>4. CASE state \in {"rejected", "error"}
  <2>1. Ledger!Refuse(r)
      BY <1>1, <1>3, <1>4, RefuseRefines DEF IInv
  <2> QED BY <2>1 DEF Ledger!Next
<1>5. CASE state \in {"verified", "read"}
  <2>1. DeskOf(x.pc) = Desk[r] /\ OfferOf(x) = Offered[r]
      BY <1>3, <1>5, DeskPlaces DEF Desk, Offered, OfferOf, Underway
  <2>2. Desk' = Desk /\ Offered' = Offered /\ Issued' = Issued
    <3>1. TypeOK /\ x.granted = req[r].granted
        BY <1>3 DEF IInv
    <3>2. /\ Desk' = [Desk EXCEPT ![r] = DeskOf(x.pc)]
          /\ Offered' = [Offered EXCEPT ![r] = OfferOf(x)]
          /\ Issued' = Issued
        BY <1>1, <3>1, RequestStep
    <3> QED BY <2>1, <3>2 DEF Desk, Offered
  <2> QED BY <2>2 DEF Ledger!vars
<1> QED BY <1>4, <1>5

\* A request that commits a pair buys it.
LEMMA GrantRefines ==
    ASSUME IInv, NEW r \in Req, NEW g \in Grant, NEW t \in 0 .. MaxNow,
           req[r].pc \in {"verified", "read"}, Fresh(g),
           req' = [req EXCEPT ![r] = [@ EXCEPT !.pc = "ok", !.granted = g, !.since = t]],
           access' = (access \cup {g}) \ (IF req[r].kind = "refresh" THEN {req[r].cred} ELSE {})
    PROVE  Ledger!Buy(r, g)
<1> DEFINE x == [req[r] EXCEPT !.pc = "ok", !.granted = g, !.since = t]
<1>1. req' = [req EXCEPT ![r] = x]
    OBVIOUS
<1>2. req[r] \in Request
    BY DEF IInv, TypeOK
<1>3. x.pc = "ok" /\ x.kind = req[r].kind /\ x.cred = req[r].cred /\ x.granted = g
    BY <1>2 DEF Request
<1> HIDE DEF x
<1>4. /\ req'[r] = x
      /\ \A q \in Req \ {r} : req'[q] = req[q]
    BY <1>1 DEF IInv, TypeOK
<1>5. Desk[r] = "taken" /\ Offered[r] = [kind |-> req[r].kind, cred |-> req[r].cred]
    BY DeskPlaces DEF Desk, Offered, OfferOf
<1>6. DeskOf(x.pc) = "bought" /\ OfferOf(x) = Offered[r]
    BY <1>3, <1>5, DeskPlaces DEF OfferOf
<1>7. Desk' = [Desk EXCEPT ![r] = "bought"] /\ Offered' = [Offered EXCEPT ![r] = Offered[r]]
  <2>1. TypeOK
      BY DEF IInv
  <2>2. Desk' = [Desk EXCEPT ![r] = DeskOf(x.pc)] /\ Offered' = [Offered EXCEPT ![r] = OfferOf(x)]
      BY <1>1, <2>1, RequestStep
  <2> QED BY <1>6, <2>2
<1>8. g \notin Issued /\ g # NoGrant /\ req[r].granted = NoGrant
    BY OauthAssumption DEF Issued, Fresh, IInv, Progress
<1>9. Issued' = Issued \cup {g}
    BY <1>3, <1>4, <1>8 DEF Issued
<1>10. Ledger!Replaced(Offered[r]) = IF req[r].kind = "refresh" THEN {req[r].cred} ELSE {}
    BY <1>5 DEF Ledger!Replaced
<1> QED BY <1>5, <1>7, <1>8, <1>9, <1>10 DEF Ledger!Buy, Ledger!Goto

-----------------------------------------------------------------------------
(* Every action is one of these steps, or nothing to the ledger. *)

LEMMA RestRefines ==
    ASSUME req' = req, access' = access
    PROVE  UNCHANGED (Ledger!vars)
BY DEF Ledger!vars, Desk, Offered, Issued

LEMMA LoginRefines ==
    ASSUME IInv, NEW r \in Req, NEW given \in Payload, Login(r, given)
    PROVE  Ledger!Next
BY LoginArrives, ArriveRefines

LEMMA UnderwayRefines ==
    ASSUME IInv, NEW r \in Req, ConsumeCode(r) \/ ReadCurrentAccess(r) \/ DatabaseFails(r)
    PROVE  [Ledger!Next]_(Ledger!vars)
<1>1. CASE ConsumeCode(r)
  <2>1. PICK state \in {"verified", "rejected", "error"} : Move(r, state)
      BY <1>1, GuardsAnswer DEF ConsumeCode, Verdicts
  <2>2. req' = [req EXCEPT ![r] = [@ EXCEPT !.pc = state, !.since = req[r].since]]
      BY <2>1, MoveIsStep DEF IInv
  <2> QED BY <1>1, <2>2, MoveRefines DEF ConsumeCode, Underway, tokenVars
<1>2. CASE DatabaseFails(r)
  <2>1. req' = [req EXCEPT ![r] = [@ EXCEPT !.pc = "error", !.since = req[r].since]]
      BY <1>2, MoveIsStep DEF IInv, DatabaseFails
  <2> QED BY <1>2, <2>1, MoveRefines DEF DatabaseFails, tokenVars
<1>3. CASE ReadCurrentAccess(r)
  <2>1. CASE req[r].cred \in access
      BY <1>3, <2>1, MoveRefines DEF ReadCurrentAccess, Underway, tokenVars
  <2>2. CASE req[r].cred \notin access
    <3>1. req' = [req EXCEPT ![r] = [@ EXCEPT !.pc = "error", !.since = req[r].since]]
        BY <1>3, <2>2, MoveIsStep DEF IInv, ReadCurrentAccess
    <3> QED BY <1>3, <3>1, MoveRefines DEF ReadCurrentAccess, Underway, tokenVars
  <2> QED BY <2>1, <2>2
<1> QED BY <1>1, <1>2, <1>3

LEMMA IssueRefines ==
    ASSUME IInv, NEW r \in Req, NEW g \in Grant, IssueTokens(r, g) PROVE Ledger!Buy(r, g)
<1>1. req[r].kind # "refresh"
    BY DEF IssueTokens, IInv, Progress
<1>2. access' = (access \cup {g}) \ {}
    BY DEF IssueTokens
<1>3. now \in 0 .. MaxNow
    BY DEF IInv, TypeOK
<1> QED BY <1>1, <1>2, <1>3, GrantRefines DEF IssueTokens

LEMMA ConsumeTokenRefines ==
    ASSUME IInv, NEW r \in Req, NEW g \in Grant, ConsumeToken(r, g) PROVE Ledger!Buy(r, g)
<1>1. req[r].kind = "refresh"
    BY DEF ConsumeToken, IInv, Progress
<1>2. req[r] \in Request
    BY DEF IInv, TypeOK
<1>3. [req[r] EXCEPT !.pc = "ok", !.granted = g]
        = [req[r] EXCEPT !.pc = "ok", !.granted = g, !.since = req[r].since]
    BY <1>2 DEF Request
<1>4. req' = [req EXCEPT ![r] = [@ EXCEPT !.pc = "ok", !.granted = g, !.since = req[r].since]]
    BY <1>3 DEF ConsumeToken
<1>5. req[r].since \in 0 .. MaxNow
    BY <1>2 DEF Request
<1> QED BY <1>1, <1>4, <1>5, GrantRefines DEF ConsumeToken

LEMMA TokenRefines ==
    ASSUME IInv, NEW r \in Req, NEW g \in Grant,
           \/ \E bearer \in BOOLEAN : UseToken(r, g, bearer)
           \/ \E given \in {RefreshRequired, {}} : LoadRefreshToken(r, g, given)
    PROVE  Ledger!Next
BY TokenArrives, ArriveRefines

LEMMA NextRefines == IInv /\ [Next]_vars => [Ledger!Next]_(Ledger!vars)
<1> SUFFICES ASSUME IInv, [Next]_vars PROVE [Ledger!Next]_(Ledger!vars)
    OBVIOUS
<1>1. CASE GenerateClient \/ Revoke \/ Tick \/ UNCHANGED vars
    BY <1>1, RestRefines DEF GenerateClient, Revoke, Tick, vars, tokenVars
<1>2. ASSUME NEW c \in Code, NEW grantType \in GrantTypes \ {"password"}, CreateCode(c, grantType)
      PROVE  [Ledger!Next]_(Ledger!vars)
    BY <1>2, RestRefines DEF CreateCode, tokenVars
<1>3. ASSUME NEW r \in Req, NEW given \in Payload, Login(r, given)
      PROVE  [Ledger!Next]_(Ledger!vars)
    BY <1>3, LoginRefines
<1>4. ASSUME NEW r \in Req, ConsumeCode(r) \/ ReadCurrentAccess(r) \/ DatabaseFails(r)
      PROVE  [Ledger!Next]_(Ledger!vars)
    BY <1>4, UnderwayRefines
<1>5. ASSUME NEW r \in Req, NEW g \in Grant, IssueTokens(r, g) \/ ConsumeToken(r, g)
      PROVE  [Ledger!Next]_(Ledger!vars)
    BY <1>5, IssueRefines, ConsumeTokenRefines DEF Ledger!Next
<1>6. ASSUME NEW r \in Req, NEW g \in Grant,
             \/ \E bearer \in BOOLEAN : UseToken(r, g, bearer)
             \/ \E given \in {RefreshRequired, {}} : LoadRefreshToken(r, g, given)
      PROVE  [Ledger!Next]_(Ledger!vars)
    BY <1>6, TokenRefines
<1> QED BY <1>1, <1>2, <1>3, <1>4, <1>5, <1>6 DEF Next

\* The guards, transactions and plain reads of the token endpoints implement
\* TokenLedger: a credential that bought is not taken up again, and a pair
\* starts and ends only as its buyers' answers say.
THEOREM RefinesTokenLedger == Spec => ImplementsTokenLedger
<1>1. Init => Ledger!Init
    BY InitRefines
<1> QED BY <1>1, InitIInv, NextIInv, NextRefines, PTL
        DEF Spec, ImplementsTokenLedger, Ledger!Spec

-----------------------------------------------------------------------------
(* How far the findings reach. *)

\* No two requests are under way on one code or on one refresh token.
OneRequestPerCredential ==
    \A r, q \in Req :
        /\ Underway(r) /\ Underway(q)
        /\ req[r].kind \in {"exchange", "refresh"}
        /\ req[r].kind = req[q].kind /\ req[r].cred = req[q].cred
        => r = q

\* A request that is under way on a credential or has bought with it.
Claims(q, kind, c) == q.kind = kind /\ q.cred = c /\ q.pc \in {"found", "verified", "loaded", "read", "ok"}

OneClaimPerCredential ==
    \A r, q \in Req, kind \in {"exchange", "refresh"} :
        \A c : Claims(req[r], kind, c) /\ Claims(req[q], kind, c) => r = q

\* A request r that steps to x, if what x claims it claimed before.
LEMMA ClaimKept ==
    ASSUME TypeOK, OneClaimPerCredential, NEW r \in Req, NEW x, req' = [req EXCEPT ![r] = x],
           \A kind \in {"exchange", "refresh"} :
               \A c : Claims(x, kind, c) => Claims(req[r], kind, c)
    PROVE  OneClaimPerCredential'
<1>1. /\ req'[r] = x
      /\ \A q \in Req \ {r} : req'[q] = req[q]
    BY DEF TypeOK
<1>2. \A q \in Req, kind \in {"exchange", "refresh"} :
          \A c : Claims(req'[q], kind, c) => Claims(req[q], kind, c)
    BY <1>1
<1> QED BY <1>2 DEF OneClaimPerCredential

\* A request that arrives claims a credential nobody has bought with, so who
\* else claims it is under way.
LEMMA ClaimTaken ==
    ASSUME IInv, OneClaimPerCredential, OneRequestPerCredential',
           NEW r \in Req, NEW kind, NEW c, NEW matches \in BOOLEAN, NEW state,
           Arrive(r, kind, c, matches, state), Suits(kind, c, state)
    PROVE  OneClaimPerCredential'
<1> DEFINE x == [pc |-> state, kind |-> kind, cred |-> c, proof |-> matches,
                   granted |-> NoGrant, since |-> 0,
                   tooLate |-> kind # "password" /\ Spent(kind, c)]
<1>1. req' = [req EXCEPT ![r] = x] /\ req[r].pc = "idle"
    BY DEF Arrive
<1>2. x.pc = state /\ x.kind = kind /\ x.cred = c
    OBVIOUS
<1> HIDE DEF x
<1>3. /\ req'[r] = x
      /\ \A q \in Req \ {r} : req'[q] = req[q]
    BY <1>1 DEF IInv, TypeOK
<1>4. ASSUME NEW q \in Req \ {r}, NEW k \in {"exchange", "refresh"}, NEW d,
             Claims(x, k, d), Claims(req[q], k, d)
      PROVE  FALSE
  <2>1. k = kind /\ d = c /\ req[q].kind = kind /\ req[q].cred = c
      BY <1>2, <1>4 DEF Claims
  <2>2. (kind = "exchange" /\ c \in codes) \/ (kind = "refresh" /\ c \in access)
      BY <1>2, <1>4, <2>1 DEF Claims, Suits, IInv, TokensMatchAnswers
  <2>3. req[q].pc # "ok"
      BY <2>1, <2>2 DEF IInv, OneAttemptPerCode, TokensMatchAnswers, Refreshed, Succeeded
  <2>4. req'[q].pc \in {"found", "verified", "loaded", "read"}
      BY <1>3, <1>4, <2>3 DEF Claims
  <2>5. req'[r].pc \in {"found", "verified", "loaded", "read"}
      BY <1>2, <1>3, <1>4, <2>1 DEF Claims, Suits
  <2>6. /\ req'[r].kind = kind /\ req'[q].kind = kind
        /\ req'[r].cred = c /\ req'[q].cred = c
      BY <1>2, <1>3, <2>1
  <2>7. kind \in {"exchange", "refresh"}
      BY <2>1
  <2> QED BY <2>4, <2>5, <2>6, <2>7 DEF OneRequestPerCredential, Underway
<1>5. ASSUME NEW p \in Req, NEW q \in Req, NEW k \in {"exchange", "refresh"}, NEW d,
             Claims(req'[p], k, d), Claims(req'[q], k, d)
      PROVE  p = q
  <2>1. CASE p # r /\ q # r
      BY <1>3, <1>5, <2>1 DEF OneClaimPerCredential
  <2>2. CASE p = r \/ q = r
      BY <1>3, <1>4, <1>5, <2>2
  <2> QED BY <2>1, <2>2
<1> QED BY <1>5 DEF OneClaimPerCredential

LEMMA ClaimsStep ==
    ASSUME IInv, OneClaimPerCredential, OneRequestPerCredential', [Next]_vars
    PROVE  OneClaimPerCredential'
<1> DEFINE Kept(r) == \E x : /\ req' = [req EXCEPT ![r] = x]
                             /\ \A kind \in {"exchange", "refresh"} :
                                    \A c : Claims(x, kind, c) => Claims(req[r], kind, c)
<1>1. ASSUME NEW r \in Req, NEW state, Underway(r), Move(r, state) PROVE Kept(r)
  <2> DEFINE x == [req[r] EXCEPT !.pc = state]
  <2>1. x.kind = req[r].kind /\ x.cred = req[r].cred
      BY DEF IInv, TypeOK, Request
  <2>2. \A kind \in {"exchange", "refresh"} : \A c : Claims(x, kind, c) => Claims(req[r], kind, c)
      BY <1>1, <2>1 DEF Claims, Underway
  <2>3. req' = [req EXCEPT ![r] = x]
      BY <1>1 DEF Move
  <2> QED BY <2>2, <2>3
<1>2. ASSUME NEW r \in Req, ConsumeCode(r) \/ ReadCurrentAccess(r) \/ DatabaseFails(r)
      PROVE  Kept(r)
  <2>1. CASE \E state : Move(r, state)
      BY <1>1, <1>2, <2>1 DEF ConsumeCode, ReadCurrentAccess, DatabaseFails, Underway
  <2>2. CASE /\ req[r].pc = "loaded"
             /\ req' = [req EXCEPT ![r] = [@ EXCEPT !.pc = "read", !.since = now]]
    <3> DEFINE x == [req[r] EXCEPT !.pc = "read", !.since = now]
    <3>1. x.kind = req[r].kind /\ x.cred = req[r].cred
        BY DEF IInv, TypeOK, Request
    <3>2. \A kind \in {"exchange", "refresh"} : \A c : Claims(x, kind, c) => Claims(req[r], kind, c)
        BY <2>2, <3>1 DEF Claims
    <3>3. req' = [req EXCEPT ![r] = x]
        BY <2>2
    <3> QED BY <3>2, <3>3
  <2> QED BY <1>2, <2>1, <2>2 DEF ConsumeCode, ReadCurrentAccess, DatabaseFails
<1>3. ASSUME NEW r \in Req, NEW g \in Grant, IssueTokens(r, g) \/ ConsumeToken(r, g)
      PROVE  Kept(r)
  <2>1. req[r].pc \in {"verified", "read"}
      BY <1>3 DEF IssueTokens, ConsumeToken
  <2>2. CASE IssueTokens(r, g)
    <3> DEFINE x == [req[r] EXCEPT !.pc = "ok", !.granted = g, !.since = now]
    <3>1. x.kind = req[r].kind /\ x.cred = req[r].cred
        BY DEF IInv, TypeOK, Request
    <3>2. \A kind \in {"exchange", "refresh"} : \A c : Claims(x, kind, c) => Claims(req[r], kind, c)
        BY <2>1, <3>1 DEF Claims
    <3>3. req' = [req EXCEPT ![r] = x]
        BY <2>2 DEF IssueTokens
    <3> QED BY <3>2, <3>3
  <2>3. CASE ConsumeToken(r, g)
    <3> DEFINE x == [req[r] EXCEPT !.pc = "ok", !.granted = g]
    <3>1. x.kind = req[r].kind /\ x.cred = req[r].cred
        BY DEF IInv, TypeOK, Request
    <3>2. \A kind \in {"exchange", "refresh"} : \A c : Claims(x, kind, c) => Claims(req[r], kind, c)
        BY <2>1, <3>1 DEF Claims
    <3>3. req' = [req EXCEPT ![r] = x]
        BY <2>3 DEF ConsumeToken
    <3> QED BY <3>2, <3>3
  <2> QED BY <1>3, <2>2, <2>3
<1>4. ASSUME NEW r \in Req, Kept(r) PROVE OneClaimPerCredential'
    BY <1>4, ClaimKept DEF IInv
<1> HIDE DEF Kept
<1>5. ASSUME NEW r \in Req, NEW given \in Payload, Login(r, given) PROVE OneClaimPerCredential'
    BY <1>5, LoginArrives, ClaimTaken
<1>6. ASSUME NEW r \in Req, NEW g \in Grant,
             \/ \E bearer \in BOOLEAN : UseToken(r, g, bearer)
             \/ \E given \in {RefreshRequired, {}} : LoadRefreshToken(r, g, given)
      PROVE  OneClaimPerCredential'
    BY <1>6, TokenArrives, ClaimTaken
<1>7. CASE UNCHANGED req
    BY <1>7 DEF OneClaimPerCredential
<1>8. \/ UNCHANGED req
      \/ \E r \in Req :
          \/ \E given \in Payload : Login(r, given)
          \/ ConsumeCode(r) \/ ReadCurrentAccess(r) \/ DatabaseFails(r)
          \/ \E g \in Grant : \/ IssueTokens(r, g) \/ ConsumeToken(r, g)
                              \/ \E bearer \in BOOLEAN : UseToken(r, g, bearer)
                              \/ \E given \in {RefreshRequired, {}} : LoadRefreshToken(r, g, given)
    BY DEF Next, vars, GenerateClient, Revoke, CreateCode, Tick
<1> QED BY <1>2, <1>3, <1>4, <1>5, <1>6, <1>7, <1>8

\* A code or a refresh token buys twice only when two requests were under way
\* on it at once.
THEOREM SingleUseUnlessOverlapping ==
    Spec /\ []OneRequestPerCredential => []CredentialsAreSingleUse
<1>1. Init => OneClaimPerCredential
    BY DEF Init, Idle, OneClaimPerCredential, Claims
<1>2. OneClaimPerCredential => CredentialsAreSingleUse
    BY DEF OneClaimPerCredential, CredentialsAreSingleUse, Succeeded, Claims
<1> QED BY <1>1, <1>2, Invariance, ClaimsStep, PTL DEF Spec

\* The expiration time that an answer told is the one stored with its access
\* token exactly when it answers no refresh, or both life times are the same.
OnlyRefreshesSwapExpiry ==
    \A r \in Req :
        req[r].pc = "ok" =>
            (accessExpiry[req[r].granted] = Expiration(AccessLife, req[r].since)
                <=> req[r].kind # "refresh" \/ AccessLife = RefreshLife)

\* ExpiryIsTheOneTold fails for the tokens of every refresh, and for no other.
THEOREM ToldExpiryIsStoredUnlessRefreshed == Spec => []OnlyRefreshesSwapExpiry
<1>1. ASSUME IInv, NEW r \in Req, req[r].pc = "ok"
      PROVE  accessExpiry[req[r].granted] = Expiration(AccessLife, req[r].since)
                 <=> req[r].kind # "refresh" \/ AccessLife = RefreshLife
  <2>1. accessExpiry[req[r].granted] = Expiration(StoredLife(req[r].kind), req[r].since)
      BY <1>1 DEF IInv, ExpiryIsStored
  <2>2. req[r].since \in 0 .. MaxNow
      BY <1>1 DEF IInv, TypeOK, Request
  <2>3. Expiration(RefreshLife, req[r].since) = Expiration(AccessLife, req[r].since)
            <=> AccessLife = RefreshLife
      BY <2>2, OauthAssumption DEF Expiration, Never
  <2> QED BY <2>1, <2>3 DEF StoredLife
<1>2. IInv => OnlyRefreshesSwapExpiry
    BY <1>1 DEF OnlyRefreshesSwapExpiry
<1> QED BY <1>2, Invariance, PTL
=============================================================================
