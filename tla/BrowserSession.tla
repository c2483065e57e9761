--------------------------- MODULE BrowserSession ---------------------------
(***************************************************************************)
(* The requests of one browser over the session store: the pages of the    *)
(* login flow, pages behind WebGuard, API calls.                           *)
(*                                                                         *)
(* The session middleware gives every request its own copy of the session  *)
(* of its cookie.  Guards, interceptors and handlers work on that copy;    *)
(* only an explicit save, destroy or regenerate, and the end of the        *)
(* response, reach the store.  A request is therefore the few steps at     *)
(* which it touches the store or the database, and the requests of the     *)
(* browser interleave between them: the last to save wins.                 *)
(*                                                                         *)
(* Guards run before interceptors, and interceptors before the validation  *)
(* of the body, so what a rejected request has already changed depends on  *)
(* who rejects it.                                                         *)
(***************************************************************************)
EXTENDS Naturals, Sequences

CONSTANTS
    Req,                \* requests under way at one time
    Sid,                \* session ids
    Form,               \* ids of the forms that ask for a password
    Page,               \* URLs behind WebGuard, or of an API call
    Resave,             \* session.resave
    SaveUninitialized,  \* session.saveUninitialized
    Driver,             \* session.driver
    MaxRequests         \* bound: requests in all

NoForm == "none"
NoFlash == "none"
NoSid == "none"
NoUrl == "null"

ASSUME SessionAssumption ==
    /\ Resave \in BOOLEAN
    /\ SaveUninitialized \in BOOLEAN
    /\ Driver \in {"memory", "file"}
    /\ MaxRequests \in Nat
    /\ NoForm \notin Form /\ NoSid \notin Sid

VARIABLES
    store,          \* sessions by id
    cookie,         \* the id the browser sends
    req,            \* what the process knows of each request
    user,           \* the user is in the database
    usedForms,      \* forms registered so far
    arrived,        \* number of requests so far
    \* history
    past,           \* of each id: was it shared, did a login commit, was it destroyed,
                    \* and the URL last refused
    cleared         \* forms cleared by a restart nobody overlapped

vars == <<store, cookie, req, user, usedForms, arrived, past, cleared>>

\* What the program keeps in a session: passwordContent, auth, the flash
\* messages with intended URLs, and those with errors and old inputs, which name
\* the route they are about.
Blank == [form |-> NoForm, auth |-> "none", intend |-> <<>>, errors |-> NoFlash, inputs |-> NoFlash]

Idle == [pc |-> "idle", kind |-> "none", arg |-> NoUrl, sid |-> NoSid, fresh |-> NoSid,
         isNew |-> FALSE, alone |-> TRUE, saved |-> FALSE, failed |-> FALSE,
         sess |-> Blank, original |-> Blank]

NoPast == [shared |-> FALSE, committed |-> FALSE, destroyed |-> FALSE, wanted |-> NoUrl]

NoSessions == [s \in {} |-> Blank]

Init ==
    /\ store = NoSessions
    /\ cookie = NoSid
    /\ req = [r \in Req |-> Idle]
    /\ user = TRUE
    /\ usedForms = {}
    /\ arrived = 0
    /\ past = [s \in Sid |-> NoPast]
    /\ cleared = {}

-----------------------------------------------------------------------------
(* The session as the program changes it. *)

Put(s, content) ==
    store' = [t \in DOMAIN store \cup {s} |-> IF t = s THEN content ELSE store[t]]
Remove(s) == store' = [t \in DOMAIN store \ {s} |-> store[t]]

\* getIntend: the first intended URL, which is put back alone.  An empty list is
\* set up first.
GetIntend(q) == IF q = <<>> THEN <<NoUrl>> ELSE <<Head(q)>>

\* Mutant: setupIntend goes on with the first URL, as getIntend does.
SetupFirstIntend(q) == IF q = <<>> THEN <<NoUrl>> ELSE <<Head(q)>>

\* setupIntend goes on with the last one.
SetupIntend(q) == IF q = <<>> THEN <<NoUrl>> ELSE <<q[Len(q)]>>

\* Mutant: the content is put back once more.
SetUrlOnTop(q, url) == Append(q, url)

SetUrl(q, url) == Append(GetIntend(q), url)
Remembering(s, url) == [s EXCEPT !.intend = SetUrl(s.intend, url)]

\* SessionErrorValidationInterceptor and OldInputsInterceptor take the flash
\* messages for the page they render.
TakeErrors(s) == [s EXCEPT !.errors = NoFlash]
TakeInputs(s) == [s EXCEPT !.inputs = NoFlash]

\* The global interceptors, and those two where the route has them.
Entered(s) == [s EXCEPT !.intend = SetupIntend(@)]
EnteredForm(s) == TakeInputs(TakeErrors(Entered(s)))

\* Mutant: without a body the old inputs are left where they are.
FlashOverOldInputs(s, route, body) ==
    [s EXCEPT !.errors = route, !.inputs = IF body THEN route ELSE @]

\* ErrorValidationFormatFilter takes both flash messages out and puts in the
\* errors, and the body as inputs.  A request none was parsed for has body
\* undefined, and flash(type, undefined) only reads: errors without inputs.
FlashErrors(s, route, body) ==
    [s EXCEPT !.errors = route, !.inputs = IF body THEN route ELSE NoFlash]

\* Mutant: auth is set up without its flags.
UserFromBareSession(s) == IF s.auth = "none" THEN [s EXCEPT !.auth = "empty"] ELSE s

\* getUserFromSession leaves a session without auth signed out.
UserFromSession(s) == IF s.auth = "none" THEN [s EXCEPT !.auth = "out"] ELSE s
ResetSession(s) == [s EXCEPT !.auth = "out"]
SignedIn(s) == [s EXCEPT !.auth = "in"]

\* WebGuard.canActivate: unauthorized without a user in the session, false when
\* the user is gone.
WebGuard(s) == CASE s.auth # "in" -> "unauthorized"
                 [] s.auth = "in" /\ user -> "ok"
                 [] OTHER -> "forbidden"
AfterWebGuard(s) == IF WebGuard(s) = "forbidden" THEN ResetSession(s) ELSE UserFromSession(s)

-----------------------------------------------------------------------------
(* The session middleware. *)

Held(s) == \E r \in Req : req[r].pc # "idle" /\ s \in {req[r].sid, req[r].fresh}
Unused(s) == s \notin DOMAIN store /\ s # cookie /\ ~Held(s)

\* A request comes in: the session of its cookie, or a new one.
Arrive(r, kind, arg) ==
    /\ req[r].pc = "idle"
    /\ arrived < MaxRequests
    /\ arrived' = arrived + 1
    /\ \E s \in Sid :
          LET known == cookie \in DOMAIN store
              content == IF known THEN store[s] ELSE Blank
          IN  /\ IF known THEN s = cookie ELSE Unused(s)
              /\ req' = [q \in Req |->
                    IF q = r THEN [pc |-> "loaded", kind |-> kind, arg |-> arg, sid |-> s,
                                   fresh |-> NoSid, isNew |-> ~known, alone |-> ~Held(s),
                                   saved |-> FALSE, failed |-> FALSE,
                                   sess |-> content, original |-> content]
                    ELSE IF req[q].sid = s THEN [req[q] EXCEPT !.alone = FALSE] ELSE req[q]]
              /\ past' = [past EXCEPT ![s] =
                    IF known THEN [past[s] EXCEPT !.shared = past[s].shared \/ Held(s)] ELSE NoPast]
    /\ UNCHANGED <<store, cookie, user, usedForms, cleared>>

\* Request r works on its copy of the session and goes on to another step.
Work(r, content, pc) ==
    req' = [req EXCEPT ![r] = [@ EXCEPT !.sess = content, !.pc = pc]]
Goto(r, pc) == req' = [req EXCEPT ![r].pc = pc]

Current(q) == IF q.fresh = NoSid THEN q.sid ELSE q.fresh

\* Mutant: the new session takes over what the old one holds.
KeptContent(q) == q.sess

Content(q) == IF q.fresh = NoSid THEN q.sess ELSE Blank

Modified(q) == q.fresh # NoSid \/ q.sess # q.original
Saved(q) ==
    /\ q.fresh = NoSid
    /\ q.saved \/ (~Resave /\ ~q.isNew /\ q.sess = q.original)
ShouldSave(q) ==
    IF (q.isNew \/ q.fresh # NoSid) /\ ~SaveUninitialized THEN Modified(q) ELSE ~Saved(q)
ShouldSetCookie(q) == Modified(q) \/ (q.isNew /\ SaveUninitialized)

Finish(r) == req' = [req EXCEPT ![r] = Idle]

\* History: the URL that the stored session was asked to remember.
Noted(q) == IF q.kind = "refused" THEN [past EXCEPT ![q.sid].wanted = q.arg] ELSE past

\* The end of the response saves the session if that is still to be done, and
\* sends the cookie.
Respond(r) ==
    LET q == req[r]
        restarted == q.kind = "restart" /\ q.original.form # NoForm
    IN
    /\ q.pc = "respond"
    /\ IF ShouldSave(q)
       THEN Put(Current(q), Content(q)) /\ past' = Noted(q)
       ELSE UNCHANGED <<store, past>>
    /\ cookie' = IF ShouldSetCookie(q) THEN Current(q) ELSE cookie
    /\ cleared' = IF restarted /\ q.alone /\ ~q.failed
                  THEN cleared \cup {q.original.form} ELSE cleared
    /\ Finish(r)
    /\ UNCHANGED <<user, usedForms, arrived>>

\* The process dies with its requests, and with its sessions unless they are in
\* files.
Crash ==
    /\ \E r \in Req : req[r].pc # "idle"
    /\ store' = IF Driver = "memory" THEN NoSessions ELSE store
    /\ req' = [r \in Req |-> Idle]
    /\ UNCHANGED <<cookie, user, usedForms, arrived, past, cleared>>

-----------------------------------------------------------------------------
(* AuthorizationController. *)

\* A query or body the validation rejects, after the interceptors ran: the
\* errors are flashed, or answered to a client that takes JSON.
Reject(r, body) ==
    LET s == EnteredForm(req[r].sess) IN
    \/ Work(r, FlashErrors(s, req[r].kind, body), "filter")
    \/ Work(r, s, "respond")

\* The query is what is validated; a GET has no body.
ShowLogin(r, valid) ==
    /\ req[r].pc = "loaded" /\ req[r].kind = "login"
    /\ IF valid THEN Work(r, EnteredForm(req[r].sess), "respond") ELSE Reject(r, FALSE)
    /\ UNCHANGED <<store, cookie, user, usedForms, arrived, past, cleared>>

RegisterEmail(r, f, valid) ==
    /\ req[r].pc = "loaded" /\ req[r].kind = "register"
    /\ f \notin usedForms
    /\ IF valid
       THEN /\ Work(r, [EnteredForm(req[r].sess) EXCEPT !.form = f], "handler")
            /\ usedForms' = usedForms \cup {f}
       ELSE (\E body \in BOOLEAN : Reject(r, body)) /\ UNCHANGED usedForms
    /\ UNCHANGED <<store, cookie, user, arrived, past, cleared>>

\* CheckShowPasswordGuard and CanRestartLoginGuard: the id in the URL is that of
\* the form in the session; there is a form.
CheckShowPassword(q) == q.sess.form = q.arg
CanRestartLogin(q) == q.sess.form # NoForm

ShowPassword(r) ==
    /\ req[r].pc = "loaded" /\ req[r].kind = "password"
    /\ IF CheckShowPassword(req[r])
       THEN Work(r, EnteredForm(req[r].sess), "respond")
       ELSE Goto(r, "respond")
    /\ UNCHANGED <<store, cookie, user, usedForms, arrived, past, cleared>>

\* Mutant: the form is taken out of a copy of the session.
RestartKeepingForm(r) ==
    /\ req[r].pc = "loaded" /\ req[r].kind = "restart"
    /\ IF CanRestartLogin(req[r])
       THEN Work(r, EnteredForm(req[r].sess), "redirect")
       ELSE Goto(r, "respond")
    /\ UNCHANGED <<store, cookie, user, usedForms, arrived, past, cleared>>

\* restartLoginFlow.
Restart(r) ==
    /\ req[r].pc = "loaded" /\ req[r].kind = "restart"
    /\ IF CanRestartLogin(req[r])
       THEN Work(r, [EnteredForm(req[r].sess) EXCEPT !.form = NoForm], "redirect")
       ELSE Goto(r, "respond")
    /\ UNCHANGED <<store, cookie, user, usedForms, arrived, past, cleared>>

\* validateForPassword: the user is found, has a password and it matches.
FoundUser == IF user THEN {"unauthorized", "ok"} ELSE {"unauthorized"}

\* AuthorizationLoginStrategy: before that the token must decrypt and the content
\* be valid, and the database may fail.
Verdicts == {"invalid", "failure"} \cup FoundUser

\* Mutant: the user is mapped to the session before the transaction commits.
MapBeforeCommit(r, verdict) ==
    /\ req[r].pc = "loaded" /\ req[r].kind = "attempt"
    /\ CASE verdict \in {"invalid", "unauthorized"} ->
              Work(r, FlashErrors(req[r].sess, "attempt", TRUE), "filter")
         [] verdict = "failure" -> Goto(r, "respond")
         [] OTHER -> Work(r, EnteredForm(req[r].sess), "issued")
    /\ UNCHANGED <<store, cookie, user, usedForms, arrived, past, cleared>>

\* AuthorizationGuard: an attempt with wrong content or credentials goes to
\* the filter before any interceptor, with the body the strategy has given it if
\* it had none.  Another failure does not, and neither is an attempt that wants
\* JSON flashed.
LoginGuard(r, verdict) ==
    /\ req[r].pc = "loaded" /\ req[r].kind = "attempt"
    /\ CASE verdict \in {"invalid", "unauthorized"} ->
              Work(r, FlashErrors(req[r].sess, "attempt", TRUE), "filter")
         [] verdict = "failure" -> Goto(r, "respond")
         [] OTHER -> Work(r, EnteredForm(req[r].sess), "verified")
    /\ UNCHANGED <<store, cookie, user, usedForms, arrived, past, cleared>>

\* processLoginAttempt in its transaction: the challenge is stored for a user
\* who is still there, or the transaction rolls back.
IssueChallenge(r) ==
    /\ req[r].pc = "verified"
    /\ \/ /\ user
          /\ Goto(r, "issued")
          /\ past' = [past EXCEPT ![req[r].sid].committed = TRUE]
       \/ Goto(r, "respond") /\ UNCHANGED past
    /\ UNCHANGED <<store, cookie, user, usedForms, arrived, cleared>>

\* MapUserToSessionInterceptor and mapSessionWithUser up to regenerate: the
\* user goes into the session at hand, which is then destroyed and succeeded by
\* an empty one.  Without the user the request fails.
MapUser(r) ==
    /\ req[r].pc = "issued"
    /\ IF user
       THEN \E s \in {t \in Sid : Unused(t)} :
              /\ Remove(req[r].sid)
              /\ req' = [req EXCEPT ![r] = [@ EXCEPT !.pc = "mapped", !.fresh = s,
                                                     !.sess = SignedIn(req[r].sess)]]
              /\ past' = [past EXCEPT ![s] = NoPast]
       ELSE Goto(r, "respond") /\ UNCHANGED <<store, past>>
    /\ UNCHANGED <<cookie, user, usedForms, arrived, cleared>>

\* The rest of mapSessionWithUser: session is still the old one, and is saved
\* under its old id.
SaveMapped(r) ==
    /\ req[r].pc = "mapped"
    /\ Put(req[r].sid, req[r].sess)
    /\ Goto(r, "redirect")
    /\ UNCHANGED <<cookie, user, usedForms, arrived, past, cleared>>

-----------------------------------------------------------------------------
(* Saves before the response, which may fail.  The middleware takes a session *)
(* for saved from the moment it is asked to save it.                          *)

SaveInHandler(r) ==
    /\ req[r].pc = "handler"
    /\ Put(req[r].sid, req[r].sess)
    /\ req' = [req EXCEPT ![r] = [@ EXCEPT !.pc = "redirect", !.saved = TRUE]]
    /\ UNCHANGED <<cookie, user, usedForms, arrived, past, cleared>>

\* RedirectRouteInterceptor.saveSession.
SaveForRedirect(r) ==
    /\ req[r].pc = "redirect"
    /\ Put(Current(req[r]), Content(req[r]))
    /\ req' = [req EXCEPT ![r] = [@ EXCEPT !.pc = "respond", !.saved = TRUE]]
    /\ UNCHANGED <<cookie, user, usedForms, arrived, past, cleared>>

\* Both filters save and then redirect.
SaveInFilter(r) ==
    /\ req[r].pc = "filter"
    /\ Put(req[r].sid, req[r].sess)
    /\ req' = [req EXCEPT ![r] = [@ EXCEPT !.pc = "respond", !.saved = TRUE]]
    /\ past' = Noted(req[r])
    /\ UNCHANGED <<cookie, user, usedForms, arrived, cleared>>

\* The handler and the filters go on all the same, the others reject.
SaveFails(r) ==
    /\ req[r].pc \in {"handler", "filter", "mapped", "redirect"}
    /\ req' = [req EXCEPT ![r] = [@ EXCEPT
          !.pc = IF req[r].pc = "handler" THEN "redirect" ELSE "respond",
          !.saved = TRUE, !.failed = TRUE]]
    /\ UNCHANGED <<store, cookie, user, usedForms, arrived, past, cleared>>

-----------------------------------------------------------------------------
(* Pages of the application and API calls. *)

\* RedirectFromLoginFilter, for a client that takes HTML: the URL of a GET is
\* to be returned to after the login.
RedirectFromLogin(r, content, url) ==
    req' = [req EXCEPT ![r] = [@ EXCEPT
        !.pc = "filter", !.kind = "refused", !.arg = url, !.sess = Remembering(content, url)]]

\* A page behind WebGuard.
VisitPage(r, method) ==
    LET s == req[r].sess
        verdict == WebGuard(s)
    IN
    /\ req[r].pc = "loaded" /\ req[r].kind = "page"
    /\ \/ verdict = "ok" /\ Work(r, Entered(AfterWebGuard(s)), "respond")
       \/ verdict = "forbidden" /\ Work(r, AfterWebGuard(s), "respond")
       \/ /\ verdict = "unauthorized"
          /\ CASE method = "GET" -> RedirectFromLogin(r, UserFromSession(s), req[r].arg)
               [] method = "POST" -> RedirectFromLogin(r, UserFromSession(s), NoUrl)
               [] method = "json" -> Work(r, AfterWebGuard(s), "respond")
    /\ UNCHANGED <<store, cookie, user, usedForms, arrived, past, cleared>>

\* A page with RedirectIfAuthenticatedInterceptor: to the dashboard or to the
\* handler, and the guard has looked at the session either way.
VisitAsGuest(r) ==
    /\ req[r].pc = "loaded" /\ req[r].kind = "guest"
    /\ Work(r, AfterWebGuard(Entered(req[r].sess)), "respond")
    /\ UNCHANGED <<store, cookie, user, usedForms, arrived, past, cleared>>

\* Mutant: the session is destroyed after an answer but not after an error.
KillOnSuccess(r) ==
    /\ req[r].pc = "loaded" /\ req[r].kind = "api"
    /\ Remove(req[r].sid) \/ UNCHANGED store
    /\ past' = [past EXCEPT ![req[r].sid].destroyed = req[r].alone]
    /\ Finish(r)
    /\ UNCHANGED <<cookie, user, usedForms, arrived, cleared>>

\* KillForApiInterceptor: an API call destroys the session, answered or not.
KillForApi(r) ==
    /\ req[r].pc = "loaded" /\ req[r].kind = "api"
    /\ Remove(req[r].sid)
    /\ past' = [past EXCEPT ![req[r].sid].destroyed = req[r].alone]
    /\ Finish(r)
    /\ UNCHANGED <<cookie, user, usedForms, arrived, cleared>>

\* An API call that a guard refuses never gets to the interceptor.  The filters
\* answer it, or treat it like a page when the client prefers HTML to JSON.
RefuseApi(r) ==
    /\ req[r].pc = "loaded" /\ req[r].kind = "api"
    /\ \/ Goto(r, "respond")
       \/ \E url \in Page \cup {NoUrl} : RedirectFromLogin(r, req[r].sess, url)
       \/ \E body \in BOOLEAN : Work(r, FlashErrors(req[r].sess, "api", body), "filter")
    /\ UNCHANGED <<store, cookie, user, usedForms, arrived, past, cleared>>

DeleteUser ==
    /\ user
    /\ user' = FALSE
    /\ UNCHANGED <<store, cookie, req, usedForms, arrived, past, cleared>>

-----------------------------------------------------------------------------
Handle(r) ==
    \/ \E kind \in {"login", "register", "restart", "attempt", "guest", "api"} :
          Arrive(r, kind, NoUrl)
    \/ \E f \in Form : Arrive(r, "password", f)
    \/ \E u \in Page : Arrive(r, "page", u)
    \/ \E valid \in BOOLEAN :
          ShowLogin(r, valid) \/ \E f \in Form : RegisterEmail(r, f, valid)
    \/ ShowPassword(r) \/ Restart(r)
    \/ \E verdict \in Verdicts : LoginGuard(r, verdict)
    \/ IssueChallenge(r) \/ MapUser(r) \/ SaveMapped(r)
    \/ SaveInHandler(r) \/ SaveForRedirect(r) \/ SaveInFilter(r) \/ SaveFails(r)
    \/ \E method \in {"GET", "POST", "json"} : VisitPage(r, method)
    \/ VisitAsGuest(r) \/ KillForApi(r) \/ RefuseApi(r)
    \/ Respond(r)

Next == (\E r \in Req : Handle(r)) \/ DeleteUser \/ Crash

Spec == Init /\ [][Next]_vars

-----------------------------------------------------------------------------
Flash == {NoFlash, "login", "register", "attempt", "api"}

Session == [form : Form \cup {NoForm}, auth : {"none", "out", "in"},
            intend : Seq(Page \cup {NoUrl}), errors : Flash, inputs : Flash]

Request == [pc : {"idle", "loaded", "handler", "filter", "verified", "issued", "mapped",
                  "redirect", "respond"},
            kind : {"none", "login", "register", "password", "restart", "attempt", "page",
                    "refused", "guest", "api"},
            arg : Form \cup Page \cup {NoUrl}, sid : Sid \cup {NoSid}, fresh : Sid \cup {NoSid},
            isNew : BOOLEAN, alone : BOOLEAN, saved : BOOLEAN, failed : BOOLEAN,
            sess : Session, original : Session]

\* Every variable keeps its type.
TypeOK ==
    /\ DOMAIN store \subseteq Sid
    /\ store \in [DOMAIN store -> Session]
    /\ cookie \in Sid \cup {NoSid}
    /\ req \in [Req -> Request]
    /\ user \in BOOLEAN
    /\ usedForms \subseteq Form
    /\ past \in [Sid -> [shared : BOOLEAN, committed : BOOLEAN, destroyed : BOOLEAN,
                          wanted : Page \cup {NoUrl}]]
    /\ arrived \in 0 .. MaxRequests
    /\ cleared \subseteq usedForms

\* All the content there is of sessions, stored or held by a request.
Contents == {store[s] : s \in DOMAIN store} \cup {req[r].sess : r \in Req}

\* Old inputs are never shown without errors or with those of another route,
\* however requests overlap and saves fail.  Errors may come alone: a refused
\* request that had no body leaves none.
InputsBelongToErrors == \A s \in Contents : s.inputs # NoFlash => s.inputs = s.errors

\* However often pages are refused, a session remembers two URLs at most.
IntendHoldsTwo == \A s \in Contents : Len(s.intend) <= 2

\* A session that no two requests ever had at a time remembers as its last URL
\* the one that was refused last, across pages, failed logins and failed saves.
LatestRefusalIsIntended ==
    \A s \in DOMAIN store :
        LET q == store[s].intend IN
        ~past[s].shared /\ ~Held(s) /\ q # <<>> => q[Len(q)] = past[s].wanted

\* Once a restart that no request overlapped is answered, no session shows the
\* form it cleared again.
ClearedFormStaysCleared == \A s \in Contents : s.form \notin cleared

\* A session that an API call destroyed while no other request had it is never
\* stored again.
DestroyedStaysDestroyed == \A s \in DOMAIN store : ~past[s].destroyed

\* No session in the store is signed in before the transaction of a login with
\* it has committed.
AuthFollowsCommit == \A s \in DOMAIN store : store[s].auth = "in" => past[s].committed

\* A form that asks for a password is in one session, also after a login gave
\* the browser another id.
FormBelongsToOneSession ==
    \A s, t \in DOMAIN store :
        store[s].form = store[t].form /\ store[s].form # NoForm => s = t

-----------------------------------------------------------------------------
\* "Map user to session to setup authenticated state": when a login answers
\* with its redirect, the session it gives the browser is signed in.
LoginSignsIn ==
    \A r \in Req :
        req[r].pc = "respond" /\ req[r].fresh # NoSid /\ ~req[r].failed =>
            store[req[r].fresh].auth = "in"
=============================================================================
