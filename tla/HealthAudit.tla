---------------------------- MODULE HealthAudit ----------------------------
(***************************************************************************)
(* The health check the primary runs on one online worker                  *)
(* (startHealthCheckOnWorker): an interval asks the worker for its health, *)
(* each check races the answer against a time-out, the first failed check  *)
(* starts an audit, and auditTime decides at the end of the audit whether  *)
(* to keep the worker or to kill it.                                       *)
(*                                                                         *)
(* Time passes in ticks.  A timer is the number of ticks left, and a due   *)
(* timer (0) fires before the next tick, in any order among due timers.    *)
(* The 10 ms before a request are shorter than a tick.  A request counts   *)
(* as in flight until its answer reaches the primary, so the delay of the  *)
(* worker and that of the channel are one.                                 *)
(***************************************************************************)
EXTENDS Integers

CONSTANTS
    CheckInterval,   \* healthCheckConfig.primaryCheckInterval, in ticks
    AnswerTimeout,   \* the 500 ms of the race, in ticks
    AuditInterval,   \* healthCheckConfig.auditInterval, in ticks
    TotalChecks,     \* healthCheckConfig.totalAttempts
    Threshold,       \* healthCheckConfig.thresholdPercentage
    MaxLate          \* bound: requests of earlier checks still in flight

\* With an interval no longer than the time-out, switchMap would cancel every
\* time-out and a silent worker would never fail a check.
ASSUME HealthConfigAssumption ==
    /\ CheckInterval \in Nat /\ AnswerTimeout \in Nat \ {0}
    /\ AnswerTimeout < CheckInterval
    /\ AuditInterval \in Nat \ {0}
    /\ TotalChecks \in Nat \ {0}
    /\ Threshold \in 0 .. 100
    /\ MaxLate \in Nat

Off == -1

VARIABLES
    subscribed,      \* the audit subscription is open
    toCheck,         \* interval: ticks to the next check
    sendDue,         \* timer(10): the request of this check is yet to be sent
    race,            \* the race of this check: "idle" before the first one
    toTimeout,       \* timer(500) of the open race
    toAudit,         \* auditTime: ticks to its next emission
    isAuditing, checks, passedChecks, lastFailed,   \* auditState
    own,             \* the request of this check is in flight
    late,            \* requests of earlier checks in flight
    hung,            \* the worker answers nothing any more
    fault,           \* history: the worker was late or reported ill health
    hungFor          \* history: ticks since the worker hung

auditState == <<isAuditing, checks, passedChecks, lastFailed>>
timers == <<toCheck, toTimeout, toAudit>>
flight == <<own, late>>
history == <<fault, hungFor>>
vars == <<subscribed, sendDue, race, auditState, timers, flight, hung, history>>

\* History stops counting once the bound of DetectionBound is exceeded.
MaxDetection == TotalChecks * CheckInterval + AnswerTimeout + AuditInterval

Init ==
    /\ subscribed = TRUE
    /\ toCheck = CheckInterval
    /\ sendDue = FALSE
    /\ race = "idle"
    /\ toTimeout = Off
    /\ toAudit = Off
    /\ isAuditing = FALSE /\ checks = 0 /\ passedChecks = 0 /\ lastFailed = FALSE
    /\ own = FALSE /\ late = 0
    /\ hung = FALSE
    /\ fault = FALSE /\ hungFor = 0

-----------------------------------------------------------------------------
\* Mutant: passed checks are counted before the filter.
ObserveCountingFirst(ok) ==
    IF ok /\ ~isAuditing
    THEN /\ passedChecks' = passedChecks + 1
         /\ UNCHANGED <<isAuditing, checks, lastFailed, toAudit>>
    ELSE /\ isAuditing' = TRUE
         /\ checks' = checks + 1
         /\ passedChecks' = passedChecks + (IF ok THEN 1 ELSE 0)
         /\ lastFailed' = ~ok
         /\ toAudit' = IF toAudit = Off THEN AuditInterval ELSE toAudit

\* Mutant: debounceTime in the place of auditTime.
ObserveDebounced(ok) ==
    IF ok /\ ~isAuditing
    THEN UNCHANGED <<auditState, toAudit>>
    ELSE /\ isAuditing' = TRUE
         /\ checks' = checks + 1
         /\ passedChecks' = passedChecks + (IF ok THEN 1 ELSE 0)
         /\ lastFailed' = ~ok
         /\ toAudit' = AuditInterval

\* A result of the race goes through filter, tap and auditTime.
Observe(ok) ==
    IF ok /\ ~isAuditing
    THEN UNCHANGED <<auditState, toAudit>>
    ELSE /\ isAuditing' = TRUE
         /\ checks' = checks + 1
         /\ passedChecks' = passedChecks + (IF ok THEN 1 ELSE 0)
         /\ lastFailed' = ~ok
         /\ toAudit' = IF toAudit = Off THEN AuditInterval ELSE toAudit

\* interval + switchMap: the race of the previous check is dropped with its
\* listener, whatever its state; the request is sent 10 ms later.
CheckDue ==
    /\ subscribed /\ toCheck = 0
    /\ toCheck' = CheckInterval
    /\ race' = "open"
    /\ toTimeout' = AnswerTimeout
    /\ sendDue' = TRUE
    /\ own' = FALSE
    /\ late' = IF own /\ late < MaxLate THEN late + 1 ELSE late
    /\ UNCHANGED <<subscribed, toAudit, auditState, hung, history>>

\* Not cancelled by unsubscribe: it also fires after the kill.
SendRequest ==
    /\ sendDue
    /\ sendDue' = FALSE
    /\ own' = TRUE
    /\ UNCHANGED <<subscribed, race, timers, auditState, late, hung, history>>

\* Mutant: merge in the place of race, the time-out is not cancelled.
AnswerMerges(isOwn, ok) ==
    /\ subscribed /\ ~hung
    /\ IF isOwn THEN own /\ own' = FALSE /\ UNCHANGED late
                ELSE late > 0 /\ late' = late - 1 /\ UNCHANGED own
    /\ IF race \in {"open", "answered"}
       THEN race' = "answered" /\ Observe(ok)
       ELSE UNCHANGED <<race, auditState, toAudit>>
    /\ fault' = (fault \/ ~ok)
    /\ UNCHANGED <<subscribed, toCheck, toTimeout, sendDue, hung, hungFor>>

\* HealthCheckStatus arrives: nothing in it says which check it answers.  The
\* first answer wins an open race, and the race stays subscribed to its winner
\* until the next check; after a time-out nobody listens.
AnswerArrives(isOwn, ok) ==
    /\ subscribed /\ ~hung
    /\ IF isOwn THEN own /\ own' = FALSE /\ UNCHANGED late
                ELSE late > 0 /\ late' = late - 1 /\ UNCHANGED own
    /\ IF race \in {"open", "answered"}
       THEN /\ race' = "answered"
            /\ toTimeout' = Off
            /\ Observe(ok)
       ELSE UNCHANGED <<race, toTimeout, auditState, toAudit>>
    /\ fault' = (fault \/ ~ok)
    /\ UNCHANGED <<subscribed, toCheck, sendDue, hung, hungFor>>

\* Mutant: takeUntil(timer(500)), a time-out that yields no result.
TimeoutYieldsNothing ==
    /\ subscribed /\ toTimeout = 0
    /\ race' = "expired"
    /\ toTimeout' = Off
    /\ fault' = (fault \/ own)
    /\ UNCHANGED <<subscribed, toCheck, toAudit, auditState, sendDue, flight, hung, hungFor>>

TimeoutDue ==
    /\ subscribed /\ toTimeout = 0
    /\ race' = "expired"
    /\ toTimeout' = Off
    /\ Observe(FALSE)
    /\ fault' = (fault \/ own)
    /\ UNCHANGED <<subscribed, toCheck, sendDue, flight, hung, hungFor>>

AuditPassed ==
    /\ passedChecks * 100 >= Threshold * TotalChecks
    /\ ~lastFailed

\* Mutant: a passed audit keeps its passed checks.
AuditKeepsPassedChecks ==
    /\ subscribed /\ toAudit = 0
    /\ toAudit' = Off
    /\ IF checks < TotalChecks
       THEN UNCHANGED <<subscribed, toCheck, toTimeout, auditState>>
       ELSE IF AuditPassed
       THEN /\ isAuditing' = FALSE
            /\ checks' = 0
            /\ lastFailed' = FALSE
            /\ UNCHANGED <<subscribed, toCheck, toTimeout, passedChecks>>
       ELSE /\ subscribed' = FALSE
            /\ toCheck' = Off
            /\ toTimeout' = Off
            /\ UNCHANGED auditState
    /\ UNCHANGED <<sendDue, race, flight, hung, history>>

\* auditTime emits; the audit ends once it has collected its checks.
AuditDue ==
    /\ subscribed /\ toAudit = 0
    /\ toAudit' = Off
    /\ IF checks < TotalChecks
       THEN UNCHANGED <<subscribed, toCheck, toTimeout, auditState>>
       ELSE IF AuditPassed
       THEN /\ isAuditing' = FALSE
            /\ checks' = 0
            /\ passedChecks' = 0
            /\ lastFailed' = FALSE
            /\ UNCHANGED <<subscribed, toCheck, toTimeout>>
       ELSE /\ subscribed' = FALSE          \* unsubscribe() and worker.kill()
            /\ toCheck' = Off
            /\ toTimeout' = Off
            /\ UNCHANGED auditState
    /\ UNCHANGED <<sendDue, race, flight, hung, history>>

-----------------------------------------------------------------------------
\* The worker stops answering for good.
Hang ==
    /\ subscribed /\ ~hung
    /\ hung' = TRUE
    /\ UNCHANGED <<subscribed, sendDue, race, auditState, timers, flight, history>>

\* checkOnCommand of the worker reports any state of its database and memory, or
\* the error of a check that failed, which is not ok.
SelfHealth == BOOLEAN

Later(t) == IF t = Off THEN Off ELSE t - 1

\* A tick passes when no timer is due.
Tick ==
    /\ subscribed /\ ~sendDue
    /\ 0 \notin {toCheck, toTimeout, toAudit}
    /\ toCheck' = Later(toCheck)
    /\ toTimeout' = Later(toTimeout)
    /\ toAudit' = Later(toAudit)
    /\ hungFor' = IF hung /\ hungFor <= MaxDetection THEN hungFor + 1 ELSE hungFor
    /\ UNCHANGED <<subscribed, sendDue, race, auditState, flight, hung, fault>>

Next ==
    \/ CheckDue
    \/ SendRequest
    \/ \E isOwn \in BOOLEAN, ok \in SelfHealth : AnswerArrives(isOwn, ok)
    \/ TimeoutDue
    \/ AuditDue
    \/ Hang
    \/ Tick

Spec == Init /\ [][Next]_vars

\* The event loop of the primary runs its timers; the worker owes it nothing.
Fairness ==
    WF_vars(CheckDue) /\ WF_vars(SendRequest) /\ WF_vars(TimeoutDue)
        /\ WF_vars(AuditDue) /\ WF_vars(Tick)

FairSpec == Spec /\ Fairness

-----------------------------------------------------------------------------
\* Every variable keeps its type; a timer is never further away than its period.
TypeOK ==
    /\ subscribed \in BOOLEAN
    /\ toCheck \in {Off} \cup 0 .. CheckInterval
    /\ toTimeout \in {Off} \cup 0 .. AnswerTimeout
    /\ toAudit \in {Off} \cup 0 .. AuditInterval
    /\ sendDue \in BOOLEAN
    /\ race \in {"idle", "open", "answered", "expired"}
    /\ isAuditing \in BOOLEAN /\ lastFailed \in BOOLEAN
    /\ checks \in Nat
    /\ passedChecks \in 0 .. checks
    /\ own \in BOOLEAN /\ late \in 0 .. MaxLate
    /\ hung \in BOOLEAN /\ fault \in BOOLEAN
    /\ hungFor \in 0 .. MaxDetection + 1

\* No counter of one audit is carried into the next, and auditTime runs only
\* during an audit: a pending verdict never meets the counters of another audit.
AuditsAreSeparate ==
    ~isAuditing => checks = 0 /\ passedChecks = 0 /\ ~lastFailed /\ toAudit = Off

\* A worker whose every answer was ok and in time is not killed.
KilledOnlyIfAtFault == ~subscribed => fault

\* A worker that stops answering is killed within the checks of one audit, the
\* time-out of the last one and one audit interval, whatever audit was going on.
DetectionBound == subscribed => hungFor <= MaxDetection

\* An audit comes to a verdict, even while late and double answers are counted.
AuditConcludes == isAuditing ~> (~isAuditing \/ ~subscribed)

\* startHealthCheckOnWorker's comment: a check whose answer is not returned in
\* 500 ms is marked as failed.  A late answer to an earlier check settles it.
CheckPassesByItsOwnAnswer ==
    [][race = "open" /\ race' = "answered" => own /\ ~own']_vars
=============================================================================
