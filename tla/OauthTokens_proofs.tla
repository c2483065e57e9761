------------------------- MODULE OauthTokens_proofs -------------------------
(***************************************************************************)
(* Proofs about OauthTokens, for any number of requests, codes and tokens, *)
(* any life times and any bound on the clock.                              *)
(*                                                                         *)
(* What a request has read may be stale when it commits, so the invariant  *)
(* ties requests to the history of what they present instead: the code of  *)
(* an exchange was handed out before (CredentialsAreKnown), ids of tokens  *)
(* are never given twice (GrantsAreUnique), and a request that came too    *)
(* late was refused as it came (LateIsRefused).                            *)
(***************************************************************************)
EXTENDS OauthTokens, TLAPS

\* What a request can be at each point of its progress; a pair of tokens and
\* success come together.
Progress ==
    \A r \in Req :
        /\ req[r].pc = "found" => req[r].kind = "exchange"
        /\ req[r].pc = "verified" => req[r].kind \in {"exchange", "password"}
        /\ req[r].pc \in {"loaded", "read"} => req[r].kind = "refresh"
        /\ req[r].pc = "ok" => req[r].kind \in {"exchange", "password", "refresh"}
        /\ req[r].pc = "ok" <=> req[r].granted # NoGrant

CredentialsAreKnown ==
    \A r \in Req :
        /\ req[r].kind = "exchange" => req[r].cred \in usedCodes
        /\ req[r].kind = "refresh" => req[r].cred \in Grant /\ ~Fresh(req[r].cred)

GrantsAreUnique ==
    \A r, q \in Req :
        req[r].granted # NoGrant /\ req[r].granted = req[q].granted => r = q

\* A refreshed access token is stored with the life of a refresh token.
StoredLife(kind) == IF kind = "refresh" THEN RefreshLife ELSE AccessLife
ExpiryIsStored ==
    \A r \in Req :
        req[r].pc = "ok" =>
            accessExpiry[req[r].granted] = Expiration(StoredLife(req[r].kind), req[r].since)

LateIsRefused == \A r \in Req : req[r].tooLate => req[r].pc \in {"rejected", "error"}

IInv ==
    /\ TypeOK
    /\ Progress
    /\ CredentialsAreKnown
    /\ GrantsAreUnique
    /\ ExpiryIsStored
    /\ LateIsRefused
    /\ TokensMatchAnswers
    /\ OneAttemptPerCode

-----------------------------------------------------------------------------
LEMMA ExpirationType ==
    ASSUME NEW life \in {AccessLife, RefreshLife}, NEW t \in 0 .. MaxNow
    PROVE  Expiration(life, t) \in 0 .. Never
BY OauthAssumption DEF Expiration, Never

LEMMA GuardsAnswer ==
    ASSUME NEW err
    PROVE  /\ LoginGuard(err) \in {"rejected", "error"}
           /\ RefreshGuard(err) \in {"rejected", "error"}
BY DEF LoginGuard, RefreshGuard

LEMMA InitIInv == Init => IInv
<1> SUFFICES ASSUME Init PROVE IInv
    OBVIOUS
<1> USE DEF Init, Idle
<1>1. TypeOK
    BY OauthAssumption DEF TypeOK, Request, Never
<1>2. Progress /\ CredentialsAreKnown /\ GrantsAreUnique /\ ExpiryIsStored /\ LateIsRefused
    BY DEF Progress, CredentialsAreKnown, GrantsAreUnique, ExpiryIsStored, LateIsRefused
<1>3. TokensMatchAnswers /\ OneAttemptPerCode
    BY DEF TokensMatchAnswers, OneAttemptPerCode, Refreshed, Succeeded
<1> QED BY <1>1, <1>2, <1>3 DEF IInv

\* A request that takes a step without tokens being created: the others stay as
\* they are, and its own state x has to fit.
LEMMA RequestStepIInv ==
    ASSUME IInv, NEW r \in Req, NEW x \in Request,
           req' = [req EXCEPT ![r] = x],
           UNCHANGED <<client, usedCodes, tokenVars, now>>,
           codes' \subseteq codes,
           req[r].pc # "ok", x.pc # "ok", x.granted = NoGrant,
           x.pc = "found" => x.kind = "exchange",
           x.pc = "verified" => x.kind \in {"exchange", "password"},
           x.pc \in {"loaded", "read"} => x.kind = "refresh",
           x.kind = "exchange" => x.cred \in usedCodes,
           x.kind = "refresh" => x.cred \in Grant /\ ~Fresh(x.cred),
           x.tooLate => x.pc \in {"rejected", "error"},
           x.kind = "exchange" /\ x.pc \in {"verified", "rejected"} => x.cred \notin codes'
    PROVE  IInv'
<1> USE DEF IInv
<1>1. /\ req \in [Req -> Request]
      /\ req'[r] = x
      /\ \A q \in Req \ {r} : req'[q] = req[q]
    BY DEF TypeOK
<1>2. req[r].granted = NoGrant
    BY DEF Progress
<1>3. \A q \in Req : req'[q].granted = req[q].granted /\ (req'[q].pc = "ok" <=> req[q].pc = "ok")
    BY <1>1, <1>2
<1>4. TypeOK'
    BY DEF TypeOK, tokenVars
<1>5. \A g : Fresh(g)' <=> Fresh(g)
    BY <1>3 DEF Fresh
<1>6. Progress'
    BY <1>1, <1>2 DEF Progress
<1>7. CredentialsAreKnown'
    BY <1>1, <1>5 DEF CredentialsAreKnown
<1>8. GrantsAreUnique'
    BY <1>3 DEF GrantsAreUnique
<1>9. ExpiryIsStored'
    BY <1>1 DEF ExpiryIsStored, tokenVars
<1>10. LateIsRefused'
    BY <1>1 DEF LateIsRefused
<1>11. {req'[q].granted : q \in {p \in Req : req'[p].pc = "ok"}}
           = {req[q].granted : q \in {p \in Req : req[p].pc = "ok"}}
    BY <1>3
<1>12. Refreshed' = Refreshed
    BY <1>1 DEF Refreshed, Succeeded
<1>13. TokensMatchAnswers'
    BY <1>11, <1>12 DEF TokensMatchAnswers, tokenVars
<1>14. OneAttemptPerCode'
    BY <1>1 DEF OneAttemptPerCode
<1> QED BY <1>4, <1>6, <1>7, <1>8, <1>9, <1>10, <1>13, <1>14

\* A request that commits a fresh pair g.
LEMMA GrantStepIInv ==
    ASSUME IInv, NEW r \in Req, NEW g \in Grant, NEW t \in 0 .. MaxNow,
           req[r].pc \in {"verified", "read"},
           Fresh(g),
           req' = [req EXCEPT ![r] = [@ EXCEPT !.pc = "ok", !.granted = g, !.since = t]],
           Insert(g, Expiration(StoredLife(req[r].kind), t),
                     Expiration(IF req[r].kind = "refresh" THEN AccessLife ELSE RefreshLife, t)),
           UNCHANGED <<client, codeVars, now>>,
           access' = (access \cup {g}) \ (IF req[r].kind = "refresh" THEN {req[r].cred} ELSE {}),
           refresh' = (refresh \cup {g}) \ (IF req[r].kind = "refresh" THEN {req[r].cred} ELSE {})
    PROVE  IInv'
<1> USE DEF IInv
<1> DEFINE x == [req[r] EXCEPT !.pc = "ok", !.granted = g, !.since = t]
<1>a. req \in [Req -> Request] /\ req[r] \in Request
    BY DEF TypeOK
<1>b. x \in Request
    BY <1>a DEF Request
<1>1. /\ req' \in [Req -> Request]
      /\ req'[r] = x
      /\ \A q \in Req \ {r} : req'[q] = req[q]
  <2> HIDE DEF x
  <2>1. req' = [req EXCEPT ![r] = x]
      BY DEF x
  <2> QED BY <1>a, <1>b, <2>1
<1>2. /\ req'[r].pc = "ok" /\ req'[r].granted = g /\ req'[r].since = t
      /\ req'[r].kind = req[r].kind /\ req'[r].cred = req[r].cred
      /\ req'[r].tooLate = req[r].tooLate
    BY <1>1, <1>a DEF Request
<1>3. g # NoGrant /\ \A q \in Req : req[q].granted # g
    BY OauthAssumption DEF Fresh
<1>4. /\ Expiration(StoredLife(req[r].kind), t) \in 0 .. Never
      /\ Expiration(IF req[r].kind = "refresh" THEN AccessLife ELSE RefreshLife, t) \in 0 .. Never
    BY ExpirationType DEF StoredLife
<1>5. TypeOK'
    BY <1>1, <1>4 DEF TypeOK, Insert, codeVars
<1>6. req[r].granted = NoGrant /\ req[r].pc # "ok"
    BY DEF Progress
<1>7. \A c : ~Fresh(c) => ~Fresh(c)' \/ c = NoGrant
    BY <1>1, <1>2, <1>6 DEF Fresh
<1>8. Progress'
    BY <1>1, <1>2, <1>3 DEF Progress
<1>9. CredentialsAreKnown'
    BY <1>1, <1>2, <1>7, OauthAssumption DEF CredentialsAreKnown, codeVars
<1>10. GrantsAreUnique'
    BY <1>1, <1>2, <1>3 DEF GrantsAreUnique
<1>11. ExpiryIsStored'
  <2>1. accessExpiry'[g] = Expiration(StoredLife(req[r].kind), t)
      BY DEF Insert, TypeOK
  <2>2. \A h \in Grant : h # g => accessExpiry'[h] = accessExpiry[h]
      BY DEF Insert, TypeOK
  <2>3. \A q \in Req : req[q].pc = "ok" => req[q].granted \in Grant /\ req[q].granted # g
      BY <1>3 DEF Progress, TypeOK, Request
  <2> QED BY <1>1, <1>2, <2>1, <2>2, <2>3 DEF ExpiryIsStored
<1>12. LateIsRefused'
    BY <1>1, <1>2 DEF LateIsRefused
<1>13. TokensMatchAnswers'
  <2> DEFINE Given == {req[q].granted : q \in {p \in Req : req[p].pc = "ok"}}
             Used == IF req[r].kind = "refresh" THEN {req[r].cred} ELSE {}
  <2>1. Given' = Given \cup {g}
      BY <1>1, <1>2, <1>6
  <2>2. Refreshed' = Refreshed \cup Used
      BY <1>1, <1>2, <1>6 DEF Refreshed, Succeeded
  <2>3. g \notin Refreshed /\ g \notin Used
      BY <1>3 DEF Refreshed, Succeeded, CredentialsAreKnown, Fresh
  <2>4. access = Given \ Refreshed /\ refresh = access
      BY DEF TokensMatchAnswers
  <2>5. access' = (access \cup {g}) \ Used /\ refresh' = (refresh \cup {g}) \ Used
      OBVIOUS
  <2>6. access' = Given' \ Refreshed' /\ refresh' = access'
      BY <2>1, <2>2, <2>3, <2>4, <2>5
  <2> QED BY <2>6 DEF TokensMatchAnswers
<1>14. OneAttemptPerCode'
    BY <1>1, <1>2 DEF OneAttemptPerCode, Progress, codeVars
<1> QED BY <1>5, <1>8, <1>9, <1>10, <1>11, <1>12, <1>13, <1>14

-----------------------------------------------------------------------------
(* Every action is one of the two steps, or touches no request. *)

LEMMA RestIInv ==
    ASSUME IInv, UNCHANGED <<req, tokenVars, usedCodes>>, codes' = codes,
           client' \in {"absent", "active", "revoked"}, now' \in 0 .. MaxNow
    PROVE  IInv'
<1> USE DEF IInv, tokenVars
<1>1. TypeOK'
    BY DEF TypeOK
<1>2. Progress' /\ CredentialsAreKnown' /\ GrantsAreUnique' /\ ExpiryIsStored' /\ LateIsRefused'
    BY DEF Progress, CredentialsAreKnown, GrantsAreUnique, ExpiryIsStored, LateIsRefused, Fresh
<1>3. TokensMatchAnswers' /\ OneAttemptPerCode'
    BY DEF TokensMatchAnswers, OneAttemptPerCode, Refreshed, Succeeded
<1> QED BY <1>1, <1>2, <1>3

LEMMA CreateCodeIInv ==
    ASSUME IInv, NEW c \in Code, NEW grantType, CreateCode(c, grantType)
    PROVE  IInv'
<1> USE DEF IInv, CreateCode, StoreChallenge, tokenVars
<1>1. TypeOK'
    BY DEF TypeOK
<1>2. CredentialsAreKnown'
    BY DEF CredentialsAreKnown, Fresh
<1>3. Progress' /\ GrantsAreUnique' /\ ExpiryIsStored' /\ LateIsRefused'
    BY DEF Progress, GrantsAreUnique, ExpiryIsStored, LateIsRefused
<1>4. TokensMatchAnswers'
    BY DEF TokensMatchAnswers, Refreshed, Succeeded
<1>5. OneAttemptPerCode'
    BY DEF OneAttemptPerCode, CredentialsAreKnown
<1> QED BY <1>1, <1>2, <1>3, <1>4, <1>5

\* What was spent is no longer there.
LEMMA SpentIsGone ==
    ASSUME IInv, NEW c
    PROVE  /\ Spent("exchange", c) => c \notin codes
           /\ Spent("refresh", c) \/ Spent("use", c) => c \notin access /\ c \notin refresh
<1>1. Spent("exchange", c) => c \notin codes
    BY DEF IInv, Spent, OneAttemptPerCode
<1>2. Spent("refresh", c) \/ Spent("use", c) => c \in Refreshed
    BY DEF IInv, Spent, Progress, Refreshed, Succeeded
<1> QED BY <1>1, <1>2 DEF IInv, TokensMatchAnswers

Kinds == {"none", "exchange", "password", "refresh", "use"}
FirstStates == {"found", "verified", "loaded", "served", "rejected", "error"}

LEMMA ArrivedType ==
    \A kind \in Kinds, state \in FirstStates,
       c \in Code \cup Grant \cup {NoCred}, matches \in BOOLEAN, late \in BOOLEAN :
           [pc |-> state, kind |-> kind, cred |-> c, proof |-> matches, granted |-> NoGrant,
            since |-> 0, tooLate |-> late] \in Request
BY OauthAssumption DEF Request, Kinds, FirstStates

\* The states a request may arrive in, with its kind and its credential.
Suits(kind, c, state) ==
    \/ kind = "none" /\ c = NoCred /\ state \in {"rejected", "error"}
    \/ kind = "exchange" /\ c \in Code /\ c \in usedCodes
         /\ (state = "error" \/ (state = "found" /\ c \in codes))
    \/ kind = "password" /\ c = NoCred /\ state \in {"verified", "rejected", "error"}
    \/ kind = "refresh" /\ c \in Grant /\ ~Fresh(c)
         /\ (state \in {"rejected", "error"} \/ (state = "loaded" /\ c \in refresh))
    \/ kind = "use" /\ c \in Grant
         /\ (state = "rejected" \/ (state = "served" /\ c \in access))

\* A request arrives and goes to a state that suits its kind and its credential.
LEMMA ArriveIInv ==
    ASSUME IInv, NEW r \in Req, NEW kind, NEW c, NEW matches \in BOOLEAN, NEW state,
           Arrive(r, kind, c, matches, state),
           UNCHANGED <<client, codeVars, tokenVars, now>>,
           Suits(kind, c, state)
    PROVE  IInv'
<1> DEFINE x == [pc |-> state, kind |-> kind, cred |-> c, proof |-> matches,
                   granted |-> NoGrant, since |-> 0,
                   tooLate |-> kind # "password" /\ Spent(kind, c)]
<1>1. req' = [req EXCEPT ![r] = x] /\ req[r].pc = "idle"
    BY DEF Arrive
<1>2. /\ x.pc = state /\ x.kind = kind /\ x.cred = c /\ x.granted = NoGrant
      /\ x.tooLate = (kind # "password" /\ Spent(kind, c))
    OBVIOUS
<1>3. x.tooLate \in BOOLEAN
    BY <1>2, Zenon
<1>4. x \in Request
  <2>1. state \in FirstStates
      BY DEF Suits, FirstStates
  <2>2. kind \in Kinds
      BY DEF Suits, Kinds
  <2>3. c \in Code \cup Grant \cup {NoCred}
      BY DEF Suits
  <2>4. PICK late \in BOOLEAN : late = (kind # "password" /\ Spent(kind, c))
      BY <1>2, <1>3
  <2>5. x = [pc |-> state, kind |-> kind, cred |-> c, proof |-> matches, granted |-> NoGrant,
             since |-> 0, tooLate |-> late]
      BY <2>4
  <2>6. [pc |-> state, kind |-> kind, cred |-> c, proof |-> matches, granted |-> NoGrant,
         since |-> 0, tooLate |-> late] \in Request
      BY <2>1, <2>2, <2>3, ArrivedType, Zenon
  <2> QED BY <2>5, <2>6
<1>5. x.tooLate => x.pc \in {"rejected", "error"}
    BY <1>2, SpentIsGone DEF Suits
<1> HIDE DEF x
<1>6. x.pc = "found" => x.kind = "exchange"
    BY <1>2 DEF Suits
<1>7. x.pc = "verified" => x.kind \in {"exchange", "password"}
    BY <1>2 DEF Suits
<1>8. x.pc \in {"loaded", "read"} => x.kind = "refresh"
    BY <1>2 DEF Suits
<1>9. x.kind = "exchange" => x.cred \in usedCodes
    BY <1>2 DEF Suits
<1>10. x.kind = "refresh" => x.cred \in Grant /\ ~Fresh(x.cred)
    BY <1>2 DEF Suits
<1>11. x.pc # "ok" /\ ~(x.kind = "exchange" /\ x.pc \in {"verified", "rejected"})
    BY <1>2 DEF Suits
<1>12. codes' \subseteq codes /\ UNCHANGED <<client, usedCodes, tokenVars, now>> /\ req[r].pc # "ok"
    BY <1>1 DEF codeVars
<1> QED BY <1>1, <1>2, <1>4, <1>5, <1>6, <1>7, <1>8, <1>9, <1>10, <1>11, <1>12, RequestStepIInv

\* A request under way goes on to another state, or gives up.
LEMMA MoveIInv ==
    ASSUME IInv, NEW r \in Req, NEW state, NEW t \in 0 .. MaxNow,
           req' = [req EXCEPT ![r] = [@ EXCEPT !.pc = state, !.since = t]],
           UNCHANGED <<client, usedCodes, tokenVars, now>>,
           \/ codes' = codes \ {req[r].cred} /\ req[r].pc = "found"
                /\ state \in {"verified", "rejected", "error"}
           \/ codes' = codes /\ req[r].pc = "loaded" /\ state = "read"
           \/ codes' = codes /\ Underway(r) /\ state = "error"
    PROVE  IInv'
<1> DEFINE x == [req[r] EXCEPT !.pc = state, !.since = t]
<1>1. req[r] \in Request
    BY DEF IInv, TypeOK
<1>2. x.pc = state /\ x.kind = req[r].kind /\ x.cred = req[r].cred
        /\ x.granted = req[r].granted /\ x.tooLate = req[r].tooLate /\ x \in Request
    BY <1>1 DEF Request
<1>3. req' = [req EXCEPT ![r] = x]
    OBVIOUS
<1>4. req[r].pc \in {"found", "verified", "loaded", "read"}
    BY DEF Underway
<1> HIDE DEF x
<1>5. x.granted = NoGrant /\ ~x.tooLate
    BY <1>2, <1>4 DEF IInv, Progress, LateIsRefused
<1>6. /\ x.kind = "exchange" => x.cred \in usedCodes
      /\ x.kind = "refresh" => x.cred \in Grant /\ ~Fresh(x.cred)
    BY <1>2 DEF IInv, CredentialsAreKnown
<1>7. /\ x.pc \notin {"ok", "found"}
      /\ x.pc = "verified" => x.kind \in {"exchange", "password"}
      /\ x.pc \in {"loaded", "read"} => x.kind = "refresh"
    BY <1>2 DEF IInv, Progress
<1>8. x.kind = "exchange" /\ x.pc \in {"verified", "rejected"} => x.cred \notin codes'
    BY <1>2
<1>9. codes' \subseteq codes
    OBVIOUS
<1> QED BY <1>2, <1>3, <1>4, <1>5, <1>6, <1>7, <1>8, <1>9, RequestStepIInv

LEMMA MoveIsStep ==
    ASSUME TypeOK, NEW r \in Req, NEW state, Move(r, state)
    PROVE  /\ req[r].since \in 0 .. MaxNow
           /\ req' = [req EXCEPT ![r] = [@ EXCEPT !.pc = state, !.since = req[r].since]]
<1>1. req[r] \in Request
    BY DEF TypeOK
<1>2. [req[r] EXCEPT !.pc = state] = [req[r] EXCEPT !.pc = state, !.since = req[r].since]
    BY <1>1 DEF Request
<1>3. req' = [req EXCEPT ![r] = [req[r] EXCEPT !.pc = state]]
    BY DEF Move
<1> QED BY <1>1, <1>2, <1>3 DEF Request

LEMMA MoveOnIInv ==
    ASSUME IInv, NEW r \in Req, NEW state, Move(r, state),
           UNCHANGED <<client, usedCodes, tokenVars, now>>,
           \/ codes' = codes \ {req[r].cred} /\ req[r].pc = "found"
                /\ state \in {"verified", "rejected", "error"}
           \/ codes' = codes /\ Underway(r) /\ state = "error"
    PROVE  IInv'
<1>1. PICK t \in 0 .. MaxNow : req' = [req EXCEPT ![r] = [@ EXCEPT !.pc = state, !.since = t]]
    BY MoveIsStep DEF IInv
<1> QED BY <1>1, MoveIInv

LEMMA LoginIInv ==
    ASSUME IInv, NEW r \in Req, NEW given \in Payload, Login(r, given)
    PROVE  IInv'
<1>1. ASSUME NEW grantType \in GrantTypes, RefusePayload(r, grantType, given) PROVE IInv'
    BY <1>1, ArriveIInv, GuardsAnswer DEF Suits, RefusePayload
<1>2. ASSUME NEW c \in Code, NEW matches \in BOOLEAN, NEW grantType \in GrantTypes \ {"password"},
             FindCode(r, c, matches, grantType, given)
      PROVE  IInv'
    BY <1>2, ArriveIInv DEF Suits, FindCode, LoginGuard
<1>3. ASSUME NEW matches \in BOOLEAN, CheckPassword(r, matches, given) PROVE IInv'
  <2>1. PICK state \in {"verified", "rejected", "error"} :
            Arrive(r, "password", NoCred, matches, state)
      BY <1>3, GuardsAnswer DEF CheckPassword
  <2> QED BY <1>3, <2>1, ArriveIInv DEF Suits, CheckPassword
<1> QED BY <1>1, <1>2, <1>3 DEF Login

LEMMA ConsumeCodeIInv == ASSUME IInv, NEW r \in Req, ConsumeCode(r) PROVE IInv'
<1>1. PICK state \in {"verified", "rejected", "error"} : Move(r, state)
    BY GuardsAnswer DEF ConsumeCode, Verdicts
<1> QED BY <1>1, MoveOnIInv DEF ConsumeCode

LEMMA ReadIInv == ASSUME IInv, NEW r \in Req, ReadCurrentAccess(r) PROVE IInv'
<1>1. CASE req[r].cred \in access
    BY <1>1, MoveIInv DEF ReadCurrentAccess, codeVars, IInv, TypeOK
<1>2. CASE req[r].cred \notin access
    BY <1>2, MoveOnIInv DEF ReadCurrentAccess, codeVars, Underway
<1> QED BY <1>1, <1>2

LEMMA DatabaseFailsIInv == ASSUME IInv, NEW r \in Req, DatabaseFails(r) PROVE IInv'
BY MoveOnIInv DEF DatabaseFails, codeVars

LEMMA IssueIInv == ASSUME IInv, NEW r \in Req, NEW g \in Grant, IssueTokens(r, g) PROVE IInv'
<1>1. req[r].kind # "refresh"
    BY DEF IssueTokens, IInv, Progress
<1>2. now \in 0 .. MaxNow
    BY DEF IInv, TypeOK
<1>3. access' = (access \cup {g}) \ {} /\ refresh' = (refresh \cup {g}) \ {}
    BY DEF IssueTokens
<1> QED BY <1>1, <1>2, <1>3, GrantStepIInv DEF IssueTokens, StoredLife

LEMMA ConsumeTokenIInv ==
    ASSUME IInv, NEW r \in Req, NEW g \in Grant, ConsumeToken(r, g) PROVE IInv'
<1>1. req[r].kind = "refresh"
    BY DEF ConsumeToken, IInv, Progress
<1>2. req[r] \in Request /\ req[r].since \in 0 .. MaxNow
    BY DEF IInv, TypeOK, Request
<1>3. [req[r] EXCEPT !.pc = "ok", !.granted = g]
        = [req[r] EXCEPT !.pc = "ok", !.granted = g, !.since = req[r].since]
    BY <1>2 DEF Request
<1>4. req' = [req EXCEPT ![r] = [@ EXCEPT !.pc = "ok", !.granted = g, !.since = req[r].since]]
    BY <1>3 DEF ConsumeToken
<1> QED BY <1>1, <1>2, <1>4, GrantStepIInv DEF ConsumeToken, StoredLife

LEMMA TokenIInv ==
    ASSUME IInv, NEW r \in Req, NEW g \in Grant
    PROVE  /\ \A bearer \in BOOLEAN : UseToken(r, g, bearer) => IInv'
           /\ \A given \in {RefreshRequired, {}} : LoadRefreshToken(r, g, given) => IInv'
<1>1. ASSUME NEW bearer \in BOOLEAN, UseToken(r, g, bearer) PROVE IInv'
    BY <1>1, ArriveIInv DEF Suits, UseToken, FindUserByToken, ActiveToken
<1>2. ASSUME NEW given \in {RefreshRequired, {}}, LoadRefreshToken(r, g, given) PROVE IInv'
  <2>1. PICK state \in {"loaded", "rejected", "error"} :
            /\ Arrive(r, "refresh", g, FALSE, state)
            /\ state = "loaded" => g \in refresh
      BY <1>2, GuardsAnswer DEF LoadRefreshToken
  <2> QED BY <1>2, <2>1, ArriveIInv DEF Suits, LoadRefreshToken
<1> QED BY <1>1, <1>2

LEMMA NextIInv == IInv /\ [Next]_vars => IInv'
<1> SUFFICES ASSUME IInv, [Next]_vars PROVE IInv'
    OBVIOUS
<1>1. CASE GenerateClient \/ Revoke
    BY <1>1, RestIInv DEF GenerateClient, Revoke, codeVars, IInv, TypeOK
<1>2. ASSUME NEW c \in Code, NEW grantType \in GrantTypes \ {"password"}, CreateCode(c, grantType)
      PROVE  IInv'
    BY <1>2, CreateCodeIInv
<1>3. ASSUME NEW r \in Req, NEW given \in Payload, Login(r, given) PROVE IInv'
    BY <1>3, LoginIInv
<1>4. ASSUME NEW r \in Req, ConsumeCode(r) \/ ReadCurrentAccess(r) \/ DatabaseFails(r) PROVE IInv'
    BY <1>4, ConsumeCodeIInv, ReadIInv, DatabaseFailsIInv
<1>5. ASSUME NEW r \in Req, NEW g \in Grant, IssueTokens(r, g) \/ ConsumeToken(r, g) PROVE IInv'
    BY <1>5, IssueIInv, ConsumeTokenIInv
<1>6. ASSUME NEW r \in Req, NEW g \in Grant,
             \/ \E bearer \in BOOLEAN : UseToken(r, g, bearer)
             \/ \E given \in {RefreshRequired, {}} : LoadRefreshToken(r, g, given)
      PROVE  IInv'
    BY <1>6, TokenIInv
<1>7. CASE Tick
    BY <1>7, RestIInv, OauthAssumption DEF Tick, codeVars, IInv, TypeOK
<1>8. CASE UNCHANGED vars
    BY <1>8, RestIInv DEF vars, codeVars, IInv, TypeOK
<1> QED BY <1>1, <1>2, <1>3, <1>4, <1>5, <1>6, <1>7, <1>8 DEF Next

LEMMA Invariance == Spec => []IInv
BY InitIInv, NextIInv, PTL DEF Spec

-----------------------------------------------------------------------------
\* Every variable keeps its type; in particular no expiration time passes Never.
THEOREM TypeCorrect == Spec => []TypeOK
<1>1. IInv => TypeOK
    BY DEF IInv
<1> QED BY <1>1, Invariance, PTL

\* Once a code or a refresh token has bought tokens it buys no more, and a
\* refreshed access token lets nobody in.
THEOREM SpentCredentialsBuyNothingHolds == Spec => []SpentCredentialsBuyNothing
<1>1. IInv => SpentCredentialsBuyNothing
    BY DEF IInv, LateIsRefused, SpentCredentialsBuyNothing
<1> QED BY <1>1, Invariance, PTL

\* The tokens stored are those of the answers given, less the refreshed ones.
THEOREM TokensMatchAnswersHolds == Spec => []TokensMatchAnswers
<1>1. IInv => TokensMatchAnswers
    BY DEF IInv
<1> QED BY <1>1, Invariance, PTL

\* A code is gone after an attempt that got to its verifier.
THEOREM OneAttemptPerCodeHolds == Spec => []OneAttemptPerCode
<1>1. IInv => OneAttemptPerCode
    BY DEF IInv
<1> QED BY <1>1, Invariance, PTL

\* A token that was not refreshed is accepted until the moment that was told.
THEOREM AcceptedAsLongAsToldHolds == Spec => []AcceptedAsLongAsTold
<1>1. ASSUME IInv, NEW r \in Req, req[r].pc = "ok", req[r].granted \notin Refreshed,
             client = "active", now <= Expiration(AccessLife, req[r].since),
             Expiration(AccessLife, now) <= Expiration(RefreshLife, now)
      PROVE  FindUserByToken(req[r].granted) = "user"
  <2>1. req[r].granted \in access
      BY <1>1 DEF IInv, TokensMatchAnswers
  <2>2. accessExpiry[req[r].granted] = Expiration(StoredLife(req[r].kind), req[r].since)
      BY <1>1 DEF IInv, ExpiryIsStored
  <2>3. req[r].since \in 0 .. MaxNow /\ now \in 0 .. MaxNow
      BY <1>1 DEF IInv, TypeOK, Request
  <2>4. now <= Expiration(StoredLife(req[r].kind), req[r].since)
      BY <1>1, <2>3, OauthAssumption DEF Expiration, StoredLife, Never
  <2>5. Expiration(StoredLife(req[r].kind), req[r].since) \in 0 .. Never
      BY <2>3, ExpirationType DEF StoredLife
  <2>6. accessExpiry[req[r].granted] >= now
      BY <2>2, <2>3, <2>4, <2>5, OauthAssumption DEF Never
  <2> QED BY <1>1, <2>1, <2>6 DEF FindUserByToken, ActiveToken
<1>2. IInv => AcceptedAsLongAsTold
    BY <1>1 DEF AcceptedAsLongAsTold
<1> QED BY <1>2, Invariance, PTL

\* What a step may do to the tables: fresh pairs come in, codes only go.
LEMMA NothingIsRevivedByStep ==
    ASSUME IInv, [Next]_vars
    PROVE  /\ \A g \in Grant : g \notin access /\ ~Fresh(g) => g \notin access' \cup refresh'
           /\ codes' \cap usedCodes \subseteq codes
<1>1. refresh = access
    BY DEF IInv, TokensMatchAnswers
<1>2. CASE \E r \in Req, g \in Grant : IssueTokens(r, g) \/ ConsumeToken(r, g)
    BY <1>1, <1>2 DEF IssueTokens, ConsumeToken, codeVars
<1>3. CASE \E c \in Code, grantType \in GrantTypes \ {"password"} : CreateCode(c, grantType)
    BY <1>1, <1>3 DEF CreateCode, StoreChallenge, tokenVars
<1>4. CASE \E r \in Req : ConsumeCode(r)
    BY <1>1, <1>4 DEF ConsumeCode, tokenVars
<1>5. CASE UNCHANGED <<codeVars, tokenVars>>
    BY <1>1, <1>5 DEF codeVars, tokenVars
<1>6. \/ \E r \in Req, g \in Grant : IssueTokens(r, g) \/ ConsumeToken(r, g)
      \/ \E c \in Code, grantType \in GrantTypes \ {"password"} : CreateCode(c, grantType)
      \/ \E r \in Req : ConsumeCode(r)
      \/ UNCHANGED <<codeVars, tokenVars>>
    BY DEF Next, Login, GenerateClient, Revoke, RefusePayload, FindCode, CheckPassword,
           ReadCurrentAccess, DatabaseFails, UseToken, LoadRefreshToken, Tick, vars
<1> QED BY <1>2, <1>3, <1>4, <1>5, <1>6

\* No request and no failure brings a deleted token or a used code back.
THEOREM NothingIsRevivedHolds == Spec => NothingIsRevived
<1>1. IInv /\ [Next]_vars =>
          [/\ \A g \in Grant : g \notin access /\ ~Fresh(g) => g \notin access' \cup refresh'
           /\ codes' \cap usedCodes \subseteq codes]_vars
    BY NothingIsRevivedByStep
<1> QED BY <1>1, Invariance, PTL DEF Spec, NothingIsRevived
=============================================================================
