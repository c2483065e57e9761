# TLA+ models of nestjs-framework-template

The repository is a NestJS application template: a clustered HTTP server, an
OAuth 2 token service over PostgreSQL, a server-rendered login flow over
sessions, and a command line for migrations and seeders. This directory holds
TLA+ models of the parts of it that keep state under concurrency, the TLC
configurations that check them on small instances, and TLAPS proofs of the
main results for every value of the constants.

Paths below are relative to the repository's `src/` directory.

## 1. Inventory

| Component | State | Operations | Interacts with | Hard behaviour |
|---|---|---|---|---|
| Cluster supervisor: `cluster/services/setup-cluster`, `main.ts`, `environment/configs/cluster.ts` | one `WorkerConfig` per CPU slot, subscriptions, timers | `startInWorker`, `startWorker`, the `exit` and `online` handlers, `setupSubscriptions`, `broadcastToAllWorkers`, `checkAllWorkerRemainingAttempts`, `closeEvent` | Node processes and IPC channels, process messaging, health audit | exits, restarts and late messages of many workers in any order; sends to dead workers; budgets |
| Health audit: `startHealthCheckOnWorker`, `health/controllers/health` | `auditState`, an interval, a time-out, an audit window | check, request, answer, time-out, verdict, kill | supervisor (kill), the worker's `checkOnCommand` | late, early, double and missing answers against four timers |
| Process messaging: `common/services/process-messaging` | listeners | send to owner, send to worker, broadcast, convert to events | both of the above | failing sends |
| OAuth tokens: `auth/controllers/oauth`, `auth/services`, `auth/strategies`, `auth/grant-types` | challenges, access tokens, refresh tokens | exchange a code, password grant, refresh, use, revoke | transactions, login flow (creates codes) | requests that overlap between guard, handler and commit; failures in between |
| Transactions: `transaction-manager`, `common/services/event-register-callback` | parent transaction, commit callbacks | `createManaged`, interceptor, `registerEventCallBacks` | every repository | roll-back, nesting, what runs after a commit |
| Login session flow: `auth/controllers/authorization`, guards, redirectors, `AuthService.mapSessionWithUser` | `session.passwordContent`, `session.auth` | register email, show password, restart, log in | session store, OAuth (codes) | session regeneration, two requests on one session |
| Session manager: `session-manager` | flash data: intended URL, old inputs, errors; previous URL | `setupIntend`, `setUrl`, `getUrl`, map previous URL, kill for API | login flow | data that outlives the request it was for |
| Migrations and seeders: `cli-commands`, `databases/migrations` | schema, list of executed migrations | run, roll back, refresh, seed | database | crash between statements; `till` |
| Key and client generation: `auth/services/jwt-token-manager`, `cli-commands/commands/oauth` | key files, clients | create if missing, generate | file system | check-then-write by two processes |
| Pagination, URLs, method override: `paginate-overwrite`, `url-management`, `helpers/middlewares` | none | pure functions | HTTP requests | boundary arithmetic |
| Framework glue: views, mail, configuration, resources, filters, logging | none of its own | calls into libraries | everything | none that a model would show |

What makes each of them correct:

- *Cluster supervisor*: a slot has one worker at a time and forks no more than
  its budget allows; the primary stops by itself exactly when a slot is lost
  and no slot has budget left; it never waits for nothing; a worker that is
  online is under a health check until the audit ends it.
- *Health audit*: a healthy, punctual worker is never killed; one that stops
  answering is killed within a bound; audits do not leak into each other and
  each of them ends.
- *OAuth tokens*: the tables hold the tokens of the answers given and nothing
  else; a spent credential buys nothing; a code is tried once; what was deleted
  stays deleted; the expiration that is told is the one that is stored.
- *Login and sessions*: a session is signed in only by a login that committed;
  the last URL it remembers is the last one refused; old inputs are shown with
  the errors they belong to or not at all; a form is in one session, and neither a cleared form
  nor a destroyed session is brought back by the save of another request. That
  a login signs the browser in does not hold (section 4).
- *Migrations*: a recorded migration is applied in full; the schema is that of
  the record as long as nothing is cut short; a refresh repairs what was.
- *Transactions*: what a request does in its transaction takes effect as a
  whole or not at all; the models of the requests state it of their tables.

`PROJECT.json` lists the hazards of this code at the lines where they bite, with
the property that covers each or the reason none does.

## 2. Plan

Written, in this order:

1. `Supervision`: abstract promise of the clustered server about its slots.
2. `ClusterSupervisor`: the primary process, shown to implement `Supervision`.
   Proofs in `ClusterSupervisor_proofs`.
3. `HealthAudit`: the audit of one worker in time. Proofs in `HealthAudit_proofs`.
4. `TokenLedger`: abstract promise of the token endpoints about credentials and
   pairs of tokens. `OauthTokens`: clients, the token endpoints and the use of a
   token over the database, shown to implement `TokenLedger`. Proofs in
   `OauthTokens_proofs` and `OauthLedger_proofs`.
5. `BrowserSession`: the login flow and the session manager over the session
   store. Proofs in `BrowserSession_proofs`.
6. `Migrations`: run, roll back and refresh over the schema. Proofs in
   `Migrations_proofs` and, of overlapping runs, `OverlappingRuns_proofs`.

Left, in this order:

7. `KeyFiles`: check-then-write of a key file by two processes.
8. `Pagination`: the page arithmetic against a reference definition.

The commit callbacks and the parent transaction of the transaction manager are
not planned: no code in the repository registers a callback, and only tests set
a parent transaction.

## 3. Modules and their correspondence to the code

### Supervision

Three variables per system: `system`, the `budget` of each slot and whether it
is `up`. `Replace`, `GoDown` and `Fail` are its only steps. It has no process
or message and is what a user of the cluster may rely on.

### ClusterSupervisor

Every handler of the primary runs to completion on its event loop, so a handler
is one action, with everything it calls:

| Action | Code |
|---|---|
| `Init` | `start`, `startInWorker` and the first `startWorker` of each slot, all in one turn of the event loop |
| `OnExit` = `OnExitExhausted` or `OnExitRestart` | the `exit` handler and `startWorker(workerCpuId, worker)` |
| `OnOnline` | the `online` handler; the health check starts |
| `OnBroadcast` | `setupSubscriptions`' listener and `broadcastToAllWorkers` |
| `HealthTick`, `SendHealthCheck` | the interval of a health check and its `timer(10)` |
| `KillUnhealthy` | `unsubscribe()` and `worker.kill()` after a failed audit |

`attemptsRemaining`, `worker`, `allWorkerPid` and `isOnline` are the fields of
`WorkerConfig` (`currentWorkerPid` is always the pid of `worker`).
`allWorkerPid` is a set, since pids are model values that are never reused.
`watched` are the workers with an open audit subscription, `sending` those with
a pending `timer(10)`.

External, modelled from how the service uses it: processes (`WorkerBoots`,
`WorkerDies`), the closing of an IPC channel (`ChannelCloses`), and the outcome
of a send (`SendOutcome`). Node reports a send to a closed channel as an
`'error'` event on the worker. Nothing listens to it, so the primary ends with
an uncaught exception; the `try`/`catch` of `sendCommandToWorker` does not see
it. A dead worker whose channel still looks open gives either outcome.

When a health check fails its audit is any moment here; `HealthAudit` has the
details. The two modules meet at `OnOnline` (which starts an audit) and
`KillUnhealthy` (which ends one); that the audit does to the primary nothing that
the supervisor does not allow for is proved (`AuditIsAsSupervised`).

### HealthAudit

One worker and its rxjs pipeline. Time passes in ticks; a timer counts down and
fires at 0, before the next tick, and timers due together fire in any order.

| Action | Code |
|---|---|
| `CheckDue` | `interval` and `switchMap`: the previous race is dropped, a new one opens |
| `SendRequest` | `timer(10)`; not cancelled by `unsubscribe` |
| `AnswerArrives` | a `HealthCheckStatus` message wins the race, or continues it |
| `TimeoutDue` | `timer(500)` wins the race |
| `Observe` | `filter`, `tap` and the input side of `auditTime` |
| `AuditDue` | the output side of `auditTime`, the `filter` on checks and the verdict |

An `auditTime` window starts with the first value after the last emission and
is not restarted by later ones. A race keeps its winner until the next check:
after an answer, further answers are values too; after a time-out nobody
listens. A message does not say which request it answers, so `own` and `late`
are kept apart only for the properties.

The percentage is compared without rounding
(`passedChecks * 100 >= Threshold * TotalChecks`); the code computes it in
floating point.

### TokenLedger

Four variables: the `desk` of each request, what a request that was taken up
`offer`s, the pairs of tokens that are `live` and those ever `issued`. A pair is
named by the id of its access token. Its steps:

| Action | What it promises |
|---|---|
| `Take` | a credential is let in only while nobody has bought with it, a refresh token only while its pair is live |
| `Buy` | one request that was let in, one new pair; with a refresh token the pair it came with ends in the same step |
| `Serve` | an access token lets a request in only while its pair is live |
| `Refuse` | any request that has bought nothing may be refused, before or after it was let in |

It says nothing of clients, clocks, guards, transactions or failures. `Take`
does not reserve the credential: two requests that were let in with one
credential may both buy, as they can in the code. `OauthTokens` maps to it with
`Desk`, `Offered` and `Issued`; `live` is the table of access tokens.

### OauthTokens

A request carries what its payload holds (`given`) against what the DTO of its
grant type asks for (`Required`). Guards run before `TransactionInterceptor`, so one request is a sequence of
reads and transactions:

| Action | Code |
|---|---|
| `GenerateClient` | the command `oauth:generate-client` |
| `Revoke` | `ClientRepoService.revoke`, which stores `is_revoked` as false; nothing in the repository calls it |
| `RefusePayload` | `validateContent` of the strategies, and the 422 of the guards |
| `CreateCode` | `processLoginAttempt` stores a challenge |
| `FindCode`, `ConsumeCode` | the two statements of `consumeCode`, then the comparison with verifier or client |
| `CheckPassword` | `ImplicitPasswordGrantType.validate` |
| `IssueTokens` | the handler `token` and the commit of its transaction |
| `LoadRefreshToken` | `RefreshTokenService.validate`, outside any transaction |
| `ReadCurrentAccess`, `ConsumeToken` | `refreshAccessToken` and `consumeToken`, up to the read and from there to the commit |
| `UseToken` | `AccessTokenGuard`, `findUserByToken` and `findForActiveState` |
| `DatabaseFails` | any statement fails and the open transaction rolls back |

The database is PostgreSQL at READ COMMITTED, without row locks on reads: a
transaction takes effect at its commit, reads see what was committed before
them, and `destroy` of a row another transaction has deleted affects no row and
is no error. The id of an access token also names the refresh token created
with it. The foreign key of refresh tokens cascades. A null expiration time is
`Never`. Whether a password, client secret, verifier or client id matches is a
choice of the environment (`proof`). A response that is lost after the commit
looks the same to the database as one that arrives.

### BrowserSession

The requests of one browser. `express-session` gives each request its own copy
of the session of its cookie, and a save stores that copy as a whole; a request
is therefore the steps at which it loads, saves, destroys or regenerates, and
everything between two of them is one action. Guards run before interceptors
and interceptors before the validation of the body, so what a refused request
has changed depends on who refuses it.

| Action | Code |
|---|---|
| `Arrive`, `Respond` | the session middleware (external): load or create; save what is not saved and send the cookie |
| `ShowLogin`, `RegisterEmail`, `ShowPassword`, `Restart` | the routes of `AuthorizationController` with their guards and interceptors, and `ErrorValidationFormatFilter` for what the validation rejects |
| `LoginGuard` | `AuthorizationGuard` and `AuthorizationLoginStrategy` |
| `IssueChallenge` | `processLoginAttempt` and the commit or roll-back of its transaction |
| `MapUser`, `SaveMapped` | `MapUserToSessionInterceptor` and `mapSessionWithUser`, before and after `regenerate` |
| `SaveInHandler`, `SaveForRedirect`, `SaveInFilter`, `SaveFails` | the explicit saves of `registerEmail`, `RedirectRouteInterceptor` and the two filters |
| `VisitPage` | a page behind `WebGuard`, with `RedirectFromLoginFilter` |
| `VisitAsGuest` | `RedirectIfAuthenticatedInterceptor` |
| `KillForApi`, `RefuseApi` | an API call that `KillForApiInterceptor` ends, and one a guard refuses before it, which the filters answer, redirect to the login or flash errors for |
| `DeleteUser`, `Crash` | the user is deleted by someone else; the process dies |

A session holds the fields the program uses: `form` (`passwordContent`, reduced
to the id of the form), `auth`, the flash messages of intended URLs, and those of
errors and old inputs, each as the route whose request was refused. A refused
request without a body (a GET of the login page, a POST without content) leaves
errors alone: its `request.body` is undefined, and `flash` with an undefined
message reads instead of writing. A login attempt always has a body, since its
strategy sets one. `past` and `cleared` are history for the
properties: whether an id was ever held by two requests at a time, whether a
login with it committed, whether it was destroyed, which URL was refused last.

### Migrations

The schema is a set of objects: the extension, tables, foreign keys and indexes.
A migration is the list of objects its `up` creates, one per statement, and the
table its `down` drops, transcribed from the six files of `databases/migrations`.
Each statement commits by itself, and so does the row of `SequelizeMeta`.

| Action | Code |
|---|---|
| `Run`, `Apply`, `Record` | `runMigration`: what is pending is read once; each statement; `logMigration` of umzug |
| `Rollback`, `Revert`, `Unlog` | `rollbackMigration`: the last migration only, since `till` comes as text |
| `Refresh`, `DropNext`, `RunAfterDrop` | `refreshMigrations`: `dropAllTables` from a list read before, then `runMigration` |
| `Crash` | the command dies between two statements |

External, from how the commands use them: umzug and the statements of PostgreSQL
(`CanCreate`, `CanDrop`): which of them have `IF NOT EXISTS`, and what refers to
what.

## 4. Runs

| Run | Checks | Bounds |
|---|---|---|
| `cluster_safety` | types, `OneWorkerPerSlot`, `AttemptsAccountForForks`, `NeverStranded`, `ClosedOnlyWhenExhausted`, `OnlineWorkersAreWatched`, and that the supervisor implements `Supervision` | two slots, one restart each, four process ids, symmetric |
| `cluster_liveness` | `CondemnedIsReplaced`, `ExhaustionStopsPrimary` | one slot (three CPUs, `cpuMax` 1) with two restarts; no symmetry |
| `cluster_unsubscribe` | violated: `ReplacedWorkerIsUnsubscribed` | one slot, one restart |
| `cluster_failed_send` | violated: `FailedSendIsSurvived` | one slot, one restart |
| `health_audit` | types, `AuditsAreSeparate`, `KilledOnlyIfAtFault`, `DetectionBound`, `AuditConcludes` | ticks of 500 ms: interval 4, time-out 1, audit window 6, 5 checks, threshold 80, two late answers |
| `health_own_answer` | violated: `CheckPassesByItsOwnAnswer` | interval 4, time-out 1, audit window 4, 3 checks, one late answer |
| `oauth_tokens` | types, `SpentCredentialsBuyNothing`, `TokensMatchAnswers`, `OneAttemptPerCode`, `AcceptedAsLongAsTold`, `NothingIsRevived`, and that the endpoints implement `TokenLedger` | four requests, one code, four token ids, clock up to 3 |
| `oauth_single_use` | violated: `CredentialsAreSingleUse` | two requests |
| `oauth_expiry` | violated: `ExpiryIsTheOneTold` | two requests |
| `browser_session` | types, `InputsBelongToErrors`, `IntendHoldsTwo`, `LatestRefusalIsIntended`, `ClearedFormStaysCleared`, `DestroyedStaysDestroyed`, `AuthFollowsCommit`, `FormBelongsToOneSession` | three requests, any of them at a time, three session ids, two forms, two pages, sessions in memory, requests and ids symmetric |
| `session_login` | violated: `LoginSignsIn` | one login |
| `migrations` | types, `RecordedIsApplied`, `SchemaIsThatOfTheRecord`, `RefreshRestoresSchema`, `OneRunGetsThrough` | three commands, two at a time, symmetric |

Why the bounds are enough. Two slots are the least with which one slot is
exhausted while another is not; one restart each gives a slot an old and a new
worker at once, which is where every hazard of the supervisor lies, and four
process ids are all the workers such a system can fork. In `health_audit` the
interval is longer than the time-out, the window spans two intervals so that
verdicts and checks fall together in every order, five checks with a threshold
of 80 allow one failure, and two late answers are enough for a check to receive
three answers. `DetectionBound` is tight on this instance: with one tick less
it is violated. Four requests in `oauth_tokens` are two overlapping ones on the
same code and two refreshes of what they got; the clock passes both life times.
`AcceptedAsLongAsTold` is about configurations in which refresh tokens live at
least as long as access tokens, as in the default one (30 and 60 days): a
refresh stores the two times the other way round. In `browser_session` three
requests are one that leaves something in the session and two that overlap on
it, or three that follow each other, say a registration, a login and a refusal;
two forms and two pages tell which of them is shown, and three ids let a login
have a new one while another session exists. Each of the properties fails on
this instance as soon as one step of the code is changed, and all of them are
proved for any number of requests. In `migrations` two commands at a
time are every overlap, and a third one finds what the two left behind.

The bounds that are not in the code are `Pid` (no pid is reused), `MaxLate`
(further unanswered requests are forgotten), `hungFor` (it stops counting past
the bound it is compared with), `MaxNow` (the clock stops), `MaxRequests` (the
browser sends no more) and `MaxActive` (commands at a time).
`CHECK_DEADLOCK FALSE` is set where the system really may stop: the primary has
exited, the worker was killed, all requests were answered or all commands have
ended. `DropNext` drops in one fixed order of a kind, and leaves the order
within foreign keys and within tables to `CHOOSE`: dropping a table takes the
keys that refer to it along, so the orders differ in nothing a property sees.

### Fairness

`ClusterSupervisor!Fairness` assumes what Node provides: the events and timers
of the primary are delivered, channels of dead processes close, and a process
that was sent SIGTERM ends (no worker installs a handler for the signal). It
assumes nothing about workers: they need not boot, answer or die by themselves.
`HealthAudit!Fairness` assumes that time passes and due timers fire; it assumes
no answer. `OauthTokens`, `BrowserSession` and `Migrations` state no liveness: no
request is owed success, and a command may die.

### What the violated runs show

1. `cluster_unsubscribe`: when a slot is restarted after its worker crashed, the
   health check that the worker's `online` had started stays subscribed, although
   the comment of `setupSubscriptions` says that what the previous worker no
   longer needs is cleared. Apart from that, an `online` read only after the exit
   starts a check of a dead worker. Proved: either way the worker died by itself,
   a worker the audit condemned leaves no check (`OnlyCrashedWorkersLeakChecks`).
2. `cluster_failed_send`: a send to a worker that has died stops the primary.
   Together with the first one, a crash of an online worker is followed by a
   health request to its closed channel at the next interval. Proved: nothing
   else takes the primary down (`OnlyDeadWorkersCrashThePrimary`).
3. `health_own_answer`: an answer that arrives after its own check was marked
   as failed settles a later check. Proved: only for a worker that was late or
   ill before (`FaultlessChecksAreTheirOwn`).
4. `oauth_single_use`: two overlapping requests both get tokens for one code
   (or one refresh token), since neither looks at the number of deleted rows.
   `SpentCredentialsBuyNothing` is what does hold: once one of them has been
   answered, no request that arrives later succeeds. Proved: without two requests
   under way on one credential there is no violation (`SingleUseUnlessOverlapping`).
5. `oauth_expiry`: a refresh stores the two expiration times the other way round.
   Proved: every refresh does, unless the two life times are the same, and no
   other request (`ToldExpiryIsStoredUnlessRefreshed`).
6. `session_login`: `mapSessionWithUser` writes the user into a session and then
   regenerates it. The browser gets the new, empty session; the signed-in one is
   stored under the id from before the login. Proved: this is so for every login,
   whatever other requests do (`LoginGivesEmptySessionHolds`).

## 5. Proofs

`ClusterSupervisor_proofs` proves, from `ClusterConfigAssumption` alone (a
positive number of CPUs, natural limits; any set of process ids), that the
specification satisfies `TypeOK`, `OneWorkerPerSlot`, `AttemptsAccountForForks`,
`NeverStranded`, `ClosedOnlyWhenExhausted` and `OnlineWorkersAreWatched`, and that
it implements
`Supervision`. `OneWorkerPerSlot` is not inductive: nothing in it keeps an old
worker from a second exit event. The invariant `IInv` adds that every process a
slot ever forked, except the latest, has been reaped (`ForksInOrder`), that no
two slots share a process (`SlotsAreDisjoint`) and that a slot whose latest
worker was reaped has no attempts (`EmptyIsExhausted`). The last one gives
`NeverStranded`: the exit that empties the last slot finds every slot exhausted
and closes. The accounting theorem then counts: a restart adds one fresh
process to a finite set and takes one attempt. The refinement maps a slot to
`up` while its latest worker is not reaped; exits map to `Replace` or `GoDown`,
a crashing send to `Fail`, everything else to a stutter.
Two more theorems say how far the two findings about it reach; they need that a
living worker keeps its channel (`ChannelsOfTheLiving`) and that a worker comes
online once, is checked only after that and is never checked once condemned
(`OneCheckPerWorker`).

`HealthAudit_proofs` proves, from `HealthConfigAssumption`, `TypeOK`,
`AuditsAreSeparate`, `KilledOnlyIfAtFault` and `DetectionBound`. A kill needs an
audit, an audit needs a failed check, and a check fails by a bad answer or by a
time-out. The time-out needs thought: `OpenRace` says that while one runs, the
request of its own check has not been answered, because it leaves before the
first tick of the race and any answer closes the race. The assumption that the time-out is shorter than the interval is needed by the code
as well: with an interval of 500 ms or less, `switchMap` cancels every time-out.
`DetectionBound` needs an invariant of its own, `Clock`: while the worker hangs,
the ticks since then, those to the next time-out, an interval for each further
check that the audit misses and one audit interval stay within the bound
(`Budget`). An audit that may still pass misses all its checks, since it starts
again; once a time-out has come after the hang `lastFailed` stays set and no audit
passes. It rests on the timers being in step (`InStep`) and on an audit with all
its checks having a verdict under way (`VerdictPends`).
`FaultlessChecksAreTheirOwn` rests on `Overdue`: a request outlives its check only
if its race was lost to a time-out or to another answer, and either leaves a fault
behind. `InStep` is needed for it, since the next check must not come before the
time-out of this one.
`AuditIsAsSupervised` puts the two modules together: with the supervisor's health
variables read off the audit's, every step of the audit is `HealthTick`,
`SendHealthCheck` or `KillUnhealthy` of `ClusterSupervisor`, or a stutter.

`OauthTokens_proofs` proves, from `OauthAssumption`, all the properties of
`oauth_tokens`: types, `SpentCredentialsBuyNothing`, `TokensMatchAnswers`,
`OneAttemptPerCode`, `AcceptedAsLongAsTold` and `NothingIsRevived`. None of them
says anything about a request in progress, so the invariant does: what a request
has done so far and which rows it relies on (`Progress`), that a credential it
presents was handed out (`CredentialsAreKnown`), that two answers never have the
same pair (`GrantsAreUnique`), which expiration a stored token has
(`ExpiryIsStored`), and that a request which came after its credential was spent
has been refused or is about to be (`LateIsRefused`).

`OauthLedger_proofs` proves, from the same invariant, that `OauthTokens` implements
`TokenLedger`. The step that lets a credential in is a read that another request may
overtake, so `Take` is mapped to the read: at that moment the row is there, and a
credential that has bought has no row. The commit of the answer is `Buy`, a step
that turns a request down or fails is `Refuse`; the clock, clients, new codes and
the other statements of a request are stutters. The
module also proves that codes and refresh tokens are single use in every behaviour
without two requests under way on one of them, and which stored expirations differ
from what was told.

`BrowserSession_proofs` proves, from `SessionAssumption`, all the properties of
`browser_session`, for any number of requests, ids, forms and pages, with
sessions in memory or in files and every setting of `resave` and
`saveUninitialized`. Its invariant `Good` says where content can be. A request
that works on a copy agrees with what was recorded of its session (`Agrees`);
the id a login has given out is known to no other request, and a request that is
`alone` shares its id with none (`IdsApart`); a form is in one session, whoever
holds a copy of it (`FormsApart`); what was destroyed is held by nobody
(`GoneWell`). `Good` is an operator of the state, so that an action that touches
the store, the record and a request is proved as two or three small steps
(`PutOwnStep`, `PastStep`, `LocalStep`, `FinishStep` and so on), each a lemma.
`LoginGivesEmptySessionHolds` adds `FreshInv`: from `regenerate` on, nobody but the
login itself stores anything under the new id, and it stores nothing there but the
empty session.

`Migrations_proofs` proves, from no assumption but that the migrations are the
six of the repository, the types, `RecordedIsApplied`, `SchemaIsThatOfTheRecord`
and `RefreshRestoresSchema`, for any set of commands of which any number overlap.
The three have a part of the invariant each, which says what the command under
way has done: `Done` is what the statements of the migration at hand have created
so far. While nothing was cut short the command that moves is the only one
(`Solo`), what it has done is there, and what a rollback has dropped is what it
will unlog (`Applied`). While nothing failed the schema is that of the record plus
`Done` (`Matches`). A refresh that is last and alone starts from any schema, so
its part (`Restores`) speaks of what is left instead: every table and key is still
to drop, no key to drop is gone, and the ledger is to drop or empty; when nothing
is left to drop no index is left either, since an index has its table (`Homes`);
then the migrations from the one at hand on are pending, and each foreign key
refers to a table of an earlier one, so no statement fails.

`OverlappingRuns_proofs` proves `OneRunGetsThrough`, for any number of runs of the
migrations that overlap statement by statement. It needs an order among the runs
(`Race`): the migrations recorded are the first ones, no run is past the next one,
and no foreign key or index of a later one is there (`Ordered`, `Forward`). A run
leads when it is at that migration and no key or index it has still to create is
there; its next statement then cannot fail. Whoever creates such an object first
leads from then on, and so does whoever records the migration first, so some run
leads until one has got through (`SomeRunLeads`). One that has got through found
or made every migration recorded.

All these invariants were checked with TLC on the instances above before they were
proved.

Only model-checked: liveness (`CondemnedIsReplaced`, `ExhaustionStopsPrimary`,
`AuditConcludes`), which TLAPS does not reach.

## 6. Not modelled, and why

- `startInMain` (no cluster): it calls the bootstrap function and keeps no state.
- Configuration that is not a whole number: `parseFloat` lets NaN, negative and
  fractional values through. The assumptions exclude them and the hazards name
  what they do.
- Health of a worker as terminus sees it (database ping, memory): any verdict.
- The content of broadcasts. Nothing in the repository broadcasts yet; a
  broadcast of `HealthCheckRequest` would produce a `HealthCheckStatus` nobody
  asked for, which `HealthAudit` leaves out.
- JWT signatures, hashes and encryption: library calls without state. A token
  is what its signature was computed for, a verifier matches or not.
- In `OauthTokens`: deleting a user or a client, and more clients than one. No
  code in the repository does either.
- In `BrowserSession`: the previous URL, which only a redirect reads; the
  redirect of `ErrorValidationFormatFilter` to the referrer, wherever it leads;
  and the session of each worker: with the memory driver every worker of a
  cluster has its own, which the model of one process leaves out.
- In `Migrations`: the seeder, whose list of seeders is empty; `make-migration`
  and the creation of a database, which write no state the others read.
- Commit callbacks (`EventRegisterCallbackService`) and the parent transaction
  of `TransactionProviderService`: nothing calls them outside tests.
- Key files: `createFileIfNotExists` checks and then writes, and the keys are
  generated by Node; the race is listed as a hazard.
- Pagination: its arithmetic has no state, and the rest of it is formatting.
- The remaining components, as listed in section 2 and in `PROJECT.json`.
