---------------------------- MODULE OauthTokens ----------------------------
(***************************************************************************)
(* The token endpoints of OauthController over the database: a request     *)
(* trades an authorization code or a password for a pair of tokens, or a   *)
(* refresh token for a new pair, and AccessTokenGuard lets in a request    *)
(* that bears an access token.                                             *)
(*                                                                         *)
(* Guards run before the TransactionInterceptor, so a request is several   *)
(* transactions and plain reads, and requests interleave between them.     *)
(* The database is PostgreSQL at READ COMMITTED without row locks on read: *)
(* a transaction is the step it commits in, after the reads it made.       *)
(* An access token and the refresh token created with it have one id; the  *)
(* foreign key of the refresh token cascades.  There is one client, and    *)
(* nothing deletes it or a user.                                           *)
(***************************************************************************)
EXTENDS Integers, FiniteSets

CONSTANTS
    Req,            \* requests to /oauth/token and /oauth/refresh, or with a token
    Code,           \* ids of authorization challenges
    Grant,          \* ids of access tokens, and of the refresh token of each
    AccessLife,     \* jwt.expirationTimeAccessToken, 0: none
    RefreshLife,    \* jwt.expirationTimeRefreshToken, 0: none
    MaxNow          \* bound: the clock stops here

NoCred == "none"
NoGrant == "none"

ASSUME OauthAssumption ==
    /\ AccessLife \in Nat
    /\ RefreshLife \in Nat
    /\ MaxNow \in Nat
    /\ NoGrant \notin Grant

VARIABLES
    client,         \* oauth_clients: its client is "absent", "active" or "revoked"
    req,            \* progress of each request
    codes,          \* oauth_authorization_challenges
    usedCodes,      \* codes handed out so far
    access,         \* oauth_access_tokens
    refresh,        \* oauth_refresh_tokens
    accessExpiry, refreshExpiry,   \* their expires_at
    now

codeVars == <<codes, usedCodes>>
tokenVars == <<access, refresh, accessExpiry, refreshExpiry>>
vars == <<client, req, codeVars, tokenVars, now>>

\* A request: the code or token it presents, whether the password, verifier or
\* client that comes with it matches, the pair it created and when its handler
\* computed the expiration times; and as history whether the credential was
\* spent before the request came.
Idle == [pc |-> "idle", kind |-> "none", cred |-> NoCred, proof |-> FALSE,
         granted |-> NoGrant, since |-> 0, tooLate |-> FALSE]

Never == MaxNow + AccessLife + RefreshLife + 1

\* Mutant: the life time is taken in another unit than the clock.
ExpirationInOtherUnit(life, t) == IF life = 0 THEN Never ELSE t + 1000 * life

\* accessTokenExpiration and refreshTokenExpiration at time t: null without a
\* life time.
Expiration(life, t) == IF life = 0 THEN Never ELSE t + life

Init ==
    /\ client = "absent"
    /\ req = [r \in Req |-> Idle]
    /\ codes = {} /\ usedCodes = {}
    /\ access = {} /\ refresh = {}
    /\ accessExpiry = [g \in Grant |-> 0]
    /\ refreshExpiry = [g \in Grant |-> 0]
    /\ now = 0

-----------------------------------------------------------------------------
(* Clients and the payloads of requests. *)

\* The command oauth:generate-client.
GenerateClient ==
    /\ client = "absent"
    /\ client' = "active"
    /\ UNCHANGED <<req, codeVars, tokenVars, now>>

\* revoke stores is_revoked as FALSE.
Revoke ==
    /\ client # "absent"
    /\ client' = "active"
    /\ UNCHANGED <<req, codeVars, tokenVars, now>>

\* ClientIdExistsValidator; findForIdAndSecret takes a revoked client as well.
ClientIdExists == client = "active"
FindForIdAndSecret == client # "absent"

\* The fields that AccessTokenDto asks for with each grant type.
Required(grantType) ==
    CASE grantType = "password" -> {"email", "password", "client_id", "client_secret"}
      [] grantType = "authorization-code" -> {"client_id", "client_secret", "code"}
      [] grantType = "pkce" -> {"code_verifier", "code"}

\* AuthorizationDto, which the login that hands out a code was checked against.
AuthorizationRequired(grantType) ==
    CASE grantType = "authorization-code" -> {"client_id", "redirect_url"}
      [] grantType = "pkce" -> {"client_id", "redirect_url", "code_challenge", "algorithm"}

RefreshRequired == {"refresh_token", "client_id", "client_secret"}

GrantTypes == {"password", "pkce", "authorization-code"}

\* Payloads of every kind of completeness.
Payload == {{"email", "password", "client_id", "client_secret"},
            {"client_id", "client_secret", "code"}, {"code_verifier", "code"}, {"client_id"}}

-----------------------------------------------------------------------------
(* Requests. *)

Move(r, state) == req' = [req EXCEPT ![r].pc = state]

\* LoginAccessTokenGuard and RefreshAccessTokenGuard answer the refusals of a
\* strategy with 422 and let other errors through.
LoginGuard(err) == IF err \in {"unauthorized", "unprocessable"} THEN "rejected" ELSE "error"
RefreshGuard(err) == IF err \in {"unauthorized", "unprocessable"} THEN "rejected" ELSE "error"

\* A request that presented the credential earlier was answered with tokens; an
\* access token is spent with the refresh token of its pair.
Spent(kind, c) ==
    \E q \in Req :
        /\ req[q].pc = "ok" /\ req[q].cred = c
        /\ req[q].kind = kind \/ (req[q].kind = "refresh" /\ kind = "use")

Arrive(r, kind, c, matches, state) ==
    /\ req[r].pc = "idle"
    /\ req' = [req EXCEPT ![r] =
          [pc |-> state, kind |-> kind, cred |-> c, proof |-> matches, granted |-> NoGrant,
           since |-> 0, tooLate |-> kind # "password" /\ Spent(kind, c)]]

\* AccessTokenService.validateContent.
RefusePayload(r, grantType, given) ==
    /\ ~ (Required(grantType) \subseteq given)
    /\ Arrive(r, "none", NoCred, FALSE, LoginGuard("unprocessable"))
    /\ UNCHANGED <<client, codeVars, tokenVars, now>>

\* createWithPkceCodeChallenge and createForAuthorizationCode.
StoreChallenge(c) == codes' = codes \cup {c}

\* processLoginAttempt stores a challenge and redirects with its id.
CreateCode(c, grantType) ==
    /\ "client_id" \in AuthorizationRequired(grantType) => ClientIdExists
    /\ c \notin usedCodes
    /\ StoreChallenge(c)
    /\ usedCodes' = usedCodes \cup {c}
    /\ UNCHANGED <<client, req, tokenVars, now>>

\* consumeCode, first half: findByPk rejects when the code is not there.
FindCode(r, c, matches, grantType, given) ==
    /\ Required(grantType) \subseteq given
    /\ c \in usedCodes
    /\ Arrive(r, "exchange", c, matches,
              IF c \in codes THEN "found" ELSE LoginGuard("empty result"))
    /\ UNCHANGED <<client, codeVars, tokenVars, now>>

\* compareChallengeAndVerifier, or the comparison of the client, after the commit.
Matches(r) == req[r].proof

\* A code of the other grant type has no algorithm, which is an error.
Verdicts(r) ==
    IF Matches(r) THEN {"verified"} ELSE {LoginGuard("unprocessable"), LoginGuard("no algorithm")}

\* Mutant: the challenge is read and never destroyed.
ReadCodeOnly(r) ==
    /\ req[r].pc = "found"
    /\ \E verdict \in Verdicts(r) : Move(r, verdict)
    /\ UNCHANGED <<client, codeVars, tokenVars, now>>

\* Mutant: the challenge is destroyed only when the verifier matches.
ConsumeMatchingCode(r) ==
    /\ req[r].pc = "found"
    /\ codes' = IF req[r].proof THEN codes \ {req[r].cred} ELSE codes
    /\ \E verdict \in Verdicts(r) : Move(r, verdict)
    /\ UNCHANGED <<client, usedCodes, tokenVars, now>>

\* consumeCode, second half: destroy and commit, whoever else deleted the row
\* by then.
ConsumeCode(r) ==
    /\ req[r].pc = "found"
    /\ codes' = codes \ {req[r].cred}
    /\ \E verdict \in Verdicts(r) : Move(r, verdict)
    /\ UNCHANGED <<client, usedCodes, tokenVars, now>>

\* ImplicitPasswordGrantType: client and password in one guard.
CheckPassword(r, matches, given) ==
    /\ Required("password") \subseteq given
    /\ Arrive(r, "password", NoCred, matches,
              IF FindForIdAndSecret /\ matches THEN "verified" ELSE LoginGuard("unauthorized"))
    /\ UNCHANGED <<client, codeVars, tokenVars, now>>

Insert(g, accessUntil, refreshUntil) ==
    /\ accessExpiry' = [accessExpiry EXCEPT ![g] = accessUntil]
    /\ refreshExpiry' = [refreshExpiry EXCEPT ![g] = refreshUntil]

Fresh(g) == g \notin {req[r].granted : r \in Req}

\* token: both rows in the transaction of the request.
IssueTokens(r, g) ==
    /\ req[r].pc = "verified"
    /\ Fresh(g)
    /\ access' = access \cup {g}
    /\ refresh' = refresh \cup {g}
    /\ Insert(g, Expiration(AccessLife, now), Expiration(RefreshLife, now))
    /\ req' = [req EXCEPT ![r] = [@ EXCEPT !.pc = "ok", !.granted = g, !.since = now]]
    /\ UNCHANGED <<client, codeVars, now>>

\* RefreshTokenService.validate: the token is loaded outside any transaction.
\* An expired one is rejected.
LoadRefreshToken(r, g, given) ==
    /\ ~Fresh(g)
    /\ Arrive(r, "refresh", g, FALSE,
              IF /\ RefreshRequired \subseteq given
                 /\ FindForIdAndSecret
                 /\ g \in refresh /\ now <= refreshExpiry[g]
              THEN "loaded" ELSE RefreshGuard("unauthorized"))
    /\ UNCHANGED <<client, codeVars, tokenVars, now>>

\* refreshAccessToken and consumeToken up to the access token of the loaded
\* refresh token, which must still be there.
ReadCurrentAccess(r) ==
    /\ req[r].pc = "loaded"
    /\ IF req[r].cred \in access
       THEN req' = [req EXCEPT ![r] = [@ EXCEPT !.pc = "read", !.since = now]]
       ELSE Move(r, "error")
    /\ UNCHANGED <<client, codeVars, tokenVars, now>>

\* The rest of consumeToken and the commit: the new pair is stored, with the
\* two expiration times the other way round, and the current access token is
\* destroyed, whoever else deleted it by then.
ConsumeToken(r, g) ==
    LET t == req[r].since IN
    /\ req[r].pc = "read"
    /\ Fresh(g)
    /\ access' = (access \cup {g}) \ {req[r].cred}
    /\ refresh' = (refresh \cup {g}) \ {req[r].cred}
    /\ Insert(g, Expiration(RefreshLife, t), Expiration(AccessLife, t))
    /\ req' = [req EXCEPT ![r] = [@ EXCEPT !.pc = "ok", !.granted = g]]
    /\ UNCHANGED <<client, codeVars, now>>

Underway(r) == req[r].pc \in {"found", "verified", "loaded", "read"}

\* Mutant: destroy runs outside the transaction and survives the rollback.
DestroySurvivesRollback(r) ==
    /\ Underway(r)
    /\ Move(r, "error")
    /\ access' = IF req[r].pc = "read" THEN access \ {req[r].cred} ELSE access
    /\ refresh' = IF req[r].pc = "read" THEN refresh \ {req[r].cred} ELSE refresh
    /\ UNCHANGED <<client, codeVars, accessExpiry, refreshExpiry, now>>

\* Mutant: a failed request puts its code back so that it can be retried.
PutCodeBack(r) ==
    /\ Underway(r)
    /\ Move(r, "error")
    /\ codes' = IF req[r].pc = "verified" /\ req[r].kind = "exchange"
               THEN codes \cup {req[r].cred} ELSE codes
    /\ UNCHANGED <<client, usedCodes, tokenVars, now>>

\* Any statement may fail; the open transaction rolls back.
DatabaseFails(r) ==
    /\ Underway(r)
    /\ Move(r, "error")
    /\ UNCHANGED <<client, codeVars, tokenVars, now>>

\* Mutant: the token must outlive the request by some time.
OutlivesRequest(g) == g \in access /\ accessExpiry[g] > now /\ client = "active"

\* findForActiveState.
ActiveToken(g) == g \in access /\ accessExpiry[g] >= now /\ client = "active"

\* AuthService.findUserByToken: the user of an active token, always there.
FindUserByToken(g) == IF ActiveToken(g) THEN "user" ELSE "null"

\* AccessTokenGuard, for a request whose headers bear the token or do not.
UseToken(r, g, bearer) ==
    /\ ~Fresh(g)
    /\ Arrive(r, "use", g, FALSE,
              IF bearer /\ FindUserByToken(g) = "user" THEN "served" ELSE "rejected")
    /\ UNCHANGED <<client, codeVars, tokenVars, now>>

Tick ==
    /\ now < MaxNow
    /\ now' = now + 1
    /\ UNCHANGED <<client, req, codeVars, tokenVars>>

Login(r, given) ==
    \/ \E grantType \in GrantTypes : RefusePayload(r, grantType, given)
    \/ \E c \in Code, matches \in BOOLEAN, grantType \in GrantTypes \ {"password"} :
          FindCode(r, c, matches, grantType, given)
    \/ \E matches \in BOOLEAN : CheckPassword(r, matches, given)

Next ==
    \/ GenerateClient \/ Revoke
    \/ \E c \in Code, grantType \in GrantTypes \ {"password"} : CreateCode(c, grantType)
    \/ \E r \in Req :
          \/ \E given \in Payload : Login(r, given)
          \/ ConsumeCode(r) \/ ReadCurrentAccess(r) \/ DatabaseFails(r)
          \/ \E g \in Grant : \/ IssueTokens(r, g) \/ ConsumeToken(r, g)
                              \/ \E bearer \in BOOLEAN : UseToken(r, g, bearer)
                              \/ \E given \in {RefreshRequired, {}} : LoadRefreshToken(r, g, given)
    \/ Tick

Spec == Init /\ [][Next]_vars

-----------------------------------------------------------------------------
Request == [pc : {"idle", "found", "verified", "loaded", "read", "ok", "served",
                  "rejected", "error"},
            kind : {"none", "exchange", "password", "refresh", "use"},
            cred : Code \cup Grant \cup {NoCred}, proof : BOOLEAN,
            granted : Grant \cup {NoGrant}, since : 0 .. MaxNow, tooLate : BOOLEAN]

\* Every variable keeps its type.
TypeOK ==
    /\ client \in {"absent", "active", "revoked"}
    /\ req \in [Req -> Request]
    /\ usedCodes \subseteq Code
    /\ codes \subseteq usedCodes
    /\ access \subseteq Grant
    /\ refresh \subseteq Grant
    /\ accessExpiry \in [Grant -> 0 .. Never]
    /\ refreshExpiry \in [Grant -> 0 .. Never]
    /\ now \in 0 .. MaxNow

Succeeded(kind) == {r \in Req : req[r].pc = "ok" /\ req[r].kind = kind}
Refreshed == {req[r].cred : r \in Succeeded("refresh")}

\* Once a code or a refresh token has bought tokens, no request that presents
\* it afterwards gets any, and no request that bears the access token of the
\* pair that was refreshed is let in, whatever requests are still under way.
SpentCredentialsBuyNothing ==
    \A r \in Req : req[r].tooLate => req[r].pc \notin {"ok", "served"}

\* The tokens in the database are exactly those of the answers given, less the
\* ones refreshed: no failure leaves half a pair, an orphan or a lost token.
TokensMatchAnswers ==
    /\ access = {req[r].granted : r \in {q \in Req : req[q].pc = "ok"}} \ Refreshed
    /\ refresh = access

\* A code is tried once: after an attempt that got to its verifier the code is
\* gone, matched or not.
OneAttemptPerCode ==
    \A r \in Req :
        req[r].kind = "exchange" /\ req[r].pc \in {"verified", "rejected", "ok"} =>
            req[r].cred \notin codes

\* An access token that was not refreshed is let in up to and including the
\* moment that its answer told, whatever other requests did, unless its client
\* is revoked or refresh tokens live shorter than access tokens.
AcceptedAsLongAsTold ==
    \A r \in Req :
        LET g == req[r].granted IN
        /\ req[r].pc = "ok" /\ g \notin Refreshed /\ client = "active"
        /\ now <= Expiration(AccessLife, req[r].since)
        /\ Expiration(AccessLife, now) <= Expiration(RefreshLife, now)
        => FindUserByToken(g) = "user"

\* No request and no failure brings a deleted token or a used code back.
NothingIsRevived ==
    [][/\ \A g \in Grant : g \notin access /\ ~Fresh(g) => g \notin access' \cup refresh'
       /\ codes' \cap usedCodes \subseteq codes]_vars

\* Requests as TokenLedger sees them: a request is taken up when a guard has let
\* in its credential, and bought when its answer is committed.
DeskOf(pc) ==
    CASE pc = "idle" -> "away"
      [] pc \in {"found", "verified", "loaded", "read"} -> "taken"
      [] pc = "ok" -> "bought"
      [] pc = "served" -> "served"
      [] pc \in {"rejected", "error"} -> "refused"

Desk == [r \in Req |-> DeskOf(req[r].pc)]

OfferOf(q) ==
    IF DeskOf(q.pc) \in {"taken", "bought"} THEN [kind |-> q.kind, cred |-> q.cred]
    ELSE [kind |-> "none", cred |-> NoCred]

Offered == [r \in Req |-> OfferOf(req[r])]
Issued == {req[r].granted : r \in Req} \ {NoGrant}

Ledger == INSTANCE TokenLedger WITH
    Req <- Req, Code <- Code, Grant <- Grant,
    desk <- Desk, offer <- Offered, live <- access, issued <- Issued

\* Guards, transactions and plain reads, however they interleave and fail,
\* implement the promise about credentials and pairs.
ImplementsTokenLedger == Ledger!Spec

-----------------------------------------------------------------------------
\* consumeCode's log message: finding the record and consuming it by deleting
\* it.  Two overlapping requests both find one code and both get tokens for it;
\* two that overlap on one refresh token do the same.
CredentialsAreSingleUse ==
    \A r, q \in Succeeded("exchange") \cup Succeeded("refresh") :
        req[r].kind = req[q].kind /\ req[r].cred = req[q].cred => r = q

\* The answer reports accessTokenExpiration ("Returns access token expiration
\* time") as expires_at; consumeToken stores the other time with the token.
ExpiryIsTheOneTold ==
    \A r \in Req :
        req[r].pc = "ok" => accessExpiry[req[r].granted] = Expiration(AccessLife, req[r].since)
=============================================================================
