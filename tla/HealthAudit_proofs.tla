------------------------- MODULE HealthAudit_proofs -------------------------
(***************************************************************************)
(* Proofs about HealthAudit, for every interval, time-out, number of       *)
(* checks and threshold.                                                   *)
(*                                                                         *)
(* A worker is killed by an audit, an audit begins with a failed check,    *)
(* and a check fails by a bad answer or by a time-out.  The heart of the   *)
(* argument is that a time-out only fires while the request of its own     *)
(* check is unanswered (OpenRace): the request leaves before the first     *)
(* tick of the race, and any answer ends the race.                         *)
(* A worker that hangs has a budget of ticks that each step keeps to: the  *)
(* checks its audit still misses, and the verdict after them (Clock).      *)
(* The last part shows that the primary of ClusterSupervisor allows for    *)
(* everything an audit does.                                               *)
(***************************************************************************)
EXTENDS HealthAudit, TLAPS

\* While a time-out runs, its race is open and its own request is unanswered;
\* the request is sent before the time-out gets any closer.
OpenRace ==
    toTimeout # Off =>
        /\ race = "open"
        /\ own \/ sendDue
        /\ sendDue => toTimeout = AnswerTimeout

AuditsHaveCause == isAuditing => fault

IInv ==
    /\ TypeOK
    /\ AuditsAreSeparate
    /\ OpenRace
    /\ AuditsHaveCause
    /\ KilledOnlyIfAtFault

-----------------------------------------------------------------------------
LEMMA MaxDetectionIsNat == MaxDetection \in Nat
<1>1. TotalChecks \in Nat /\ CheckInterval \in Nat /\ AnswerTimeout \in Nat /\ AuditInterval \in Nat
    BY HealthConfigAssumption
<1>2. TotalChecks * CheckInterval \in Nat
    BY <1>1
<1> QED BY <1>1, <1>2 DEF MaxDetection

LEMMA InitIInv == Init => IInv
<1> SUFFICES ASSUME Init PROVE IInv
    OBVIOUS
<1> USE DEF Init
<1>1. /\ toCheck \in {Off} \cup 0 .. CheckInterval
      /\ toTimeout \in {Off} \cup 0 .. AnswerTimeout
      /\ toAudit \in {Off} \cup 0 .. AuditInterval
    BY HealthConfigAssumption
<1>2. checks \in Nat /\ passedChecks \in 0 .. checks /\ late \in 0 .. MaxLate
    BY HealthConfigAssumption
<1>3. hungFor \in 0 .. MaxDetection + 1
    BY MaxDetectionIsNat
<1>4. TypeOK
    BY <1>1, <1>2, <1>3 DEF TypeOK
<1> QED BY <1>4 DEF IInv, AuditsAreSeparate, OpenRace, AuditsHaveCause, KilledOnlyIfAtFault

\* What one result of the race does to the audit, once the fault it stands for
\* is on record.
LEMMA ObserveKeeps ==
    ASSUME IInv, NEW ok \in BOOLEAN, Observe(ok)
    PROVE  /\ isAuditing' \in BOOLEAN /\ lastFailed' \in BOOLEAN
           /\ checks' \in Nat /\ passedChecks' \in 0 .. checks'
           /\ toAudit' \in {Off} \cup 0 .. AuditInterval
           /\ AuditsAreSeparate'
           /\ isAuditing' => isAuditing \/ ~ok
<1> USE DEF IInv, TypeOK, Observe, auditState
<1>1. CASE ok /\ ~isAuditing
    BY <1>1 DEF AuditsAreSeparate
<1>2. CASE ~(ok /\ ~isAuditing)
  <2>1. /\ isAuditing' = TRUE /\ lastFailed' = ~ok
        /\ checks' = checks + 1
        /\ passedChecks' = passedChecks + (IF ok THEN 1 ELSE 0)
        /\ toAudit' = IF toAudit = Off THEN AuditInterval ELSE toAudit
      BY <1>2
  <2>2. checks' \in Nat /\ passedChecks' \in 0 .. checks'
      BY <2>1
  <2>3. toAudit' \in {Off} \cup 0 .. AuditInterval
      BY <2>1, HealthConfigAssumption
  <2>4. isAuditing' \in BOOLEAN /\ lastFailed' \in BOOLEAN
      BY <2>1, Zenon
  <2>5. AuditsAreSeparate'
      BY <2>1 DEF AuditsAreSeparate
  <2>6. isAuditing' => isAuditing \/ ~ok
      BY <1>2, Zenon
  <2> QED BY <2>2, <2>3, <2>4, <2>5, <2>6, Zenon
<1> QED BY <1>1, <1>2

LEMMA CheckDueIInv == IInv /\ CheckDue => IInv'
<1> SUFFICES ASSUME IInv, CheckDue PROVE IInv'
    OBVIOUS
<1> USE DEF CheckDue, IInv, auditState, history
<1>1. /\ toCheck' \in {Off} \cup 0 .. CheckInterval
      /\ toTimeout' \in {Off} \cup 0 .. AnswerTimeout
    BY HealthConfigAssumption
<1>2. late' = late \/ (late < MaxLate /\ late' = late + 1)
    BY Zenon
<1>3. late' \in 0 .. MaxLate
    BY <1>2, HealthConfigAssumption DEF TypeOK
<1>4. TypeOK'
    BY <1>1, <1>3 DEF TypeOK
<1>5. AuditsAreSeparate' /\ AuditsHaveCause' /\ KilledOnlyIfAtFault'
    BY DEF AuditsAreSeparate, AuditsHaveCause, KilledOnlyIfAtFault
<1>6. OpenRace'
    BY DEF OpenRace
<1> QED BY <1>4, <1>5, <1>6

LEMMA SendRequestIInv == IInv /\ SendRequest => IInv'
<1> SUFFICES ASSUME IInv, SendRequest PROVE IInv'
    OBVIOUS
<1> USE DEF SendRequest, IInv, auditState, history, timers
<1>1. TypeOK'
    BY DEF TypeOK
<1>2. AuditsAreSeparate' /\ AuditsHaveCause' /\ KilledOnlyIfAtFault'
    BY DEF AuditsAreSeparate, AuditsHaveCause, KilledOnlyIfAtFault
<1>3. OpenRace'
    BY DEF OpenRace
<1> QED BY <1>1, <1>2, <1>3

LEMMA AnswerIInv ==
    ASSUME IInv, NEW isOwn \in BOOLEAN, NEW ok \in BOOLEAN, AnswerArrives(isOwn, ok)
    PROVE  IInv'
<1> USE DEF AnswerArrives, IInv
<1>1. \/ own' = FALSE /\ late' = late
      \/ own' = own /\ late > 0 /\ late' = late - 1
    BY Zenon
<1>2. own' \in BOOLEAN
    BY <1>1, Zenon DEF TypeOK
<1>3. late' \in 0 .. MaxLate
    BY <1>1, HealthConfigAssumption DEF TypeOK
<1>4. own' \in BOOLEAN /\ late' \in 0 .. MaxLate
    BY <1>2, <1>3
<1>5. CASE race \in {"open", "answered"}
  <2>1. Observe(ok) /\ race' = "answered" /\ toTimeout' = Off
      BY <1>5
  <2>2. TypeOK'
      BY <1>4, <2>1, ObserveKeeps DEF TypeOK
  <2>3. AuditsAreSeparate' /\ AuditsHaveCause' /\ KilledOnlyIfAtFault'
      BY <2>1, ObserveKeeps DEF AuditsHaveCause, KilledOnlyIfAtFault
  <2> QED BY <2>1, <2>2, <2>3 DEF OpenRace
<1>6. CASE race \notin {"open", "answered"}
  <2>1. UNCHANGED <<race, toTimeout, auditState, toAudit>>
      BY <1>6
  <2>2. TypeOK'
      BY <1>4, <2>1 DEF TypeOK, auditState
  <2>3. AuditsAreSeparate' /\ AuditsHaveCause' /\ KilledOnlyIfAtFault'
      BY <2>1 DEF AuditsAreSeparate, AuditsHaveCause, KilledOnlyIfAtFault, auditState
  <2>4. OpenRace'
      BY <1>6, <2>1 DEF OpenRace
  <2> QED BY <2>2, <2>3, <2>4
<1> QED BY <1>5, <1>6

LEMMA TimeoutIInv == IInv /\ TimeoutDue => IInv'
<1> SUFFICES ASSUME IInv, TimeoutDue PROVE IInv'
    OBVIOUS
<1> USE DEF TimeoutDue, IInv, flight
<1>1. own
    BY HealthConfigAssumption DEF OpenRace, Off
<1>2. fault'
    BY <1>1
<1>3. TypeOK'
    BY <1>2, ObserveKeeps DEF TypeOK
<1>4. AuditsAreSeparate'
    BY ObserveKeeps
<1> QED BY <1>2, <1>3, <1>4 DEF OpenRace, AuditsHaveCause, KilledOnlyIfAtFault

LEMMA AuditDueIInv == IInv /\ AuditDue => IInv'
<1> SUFFICES ASSUME IInv, AuditDue PROVE IInv'
    OBVIOUS
<1> USE DEF AuditDue, IInv, flight, history
<1>1. isAuditing /\ fault
    BY DEF AuditsAreSeparate, AuditsHaveCause, Off
<1>2. /\ toAudit' = Off
      /\ toCheck' = toCheck \/ toCheck' = Off
      /\ toTimeout' = toTimeout \/ toTimeout' = Off
      /\ \/ UNCHANGED <<isAuditing, checks, passedChecks, lastFailed>>
         \/ isAuditing' = FALSE /\ checks' = 0 /\ passedChecks' = 0 /\ lastFailed' = FALSE
      /\ subscribed' = subscribed \/ subscribed' = FALSE
    BY DEF auditState
<1>3. checks' \in Nat /\ passedChecks' \in 0 .. checks'
    BY <1>2 DEF TypeOK
<1>4. /\ toCheck' \in {Off} \cup 0 .. CheckInterval
      /\ toTimeout' \in {Off} \cup 0 .. AnswerTimeout
      /\ toAudit' \in {Off} \cup 0 .. AuditInterval
    BY <1>2 DEF TypeOK
<1>5. isAuditing' \in BOOLEAN /\ lastFailed' \in BOOLEAN /\ subscribed' \in BOOLEAN
    BY <1>2, Zenon DEF TypeOK
<1>6. TypeOK'
    BY <1>3, <1>4, <1>5 DEF TypeOK
<1>7. AuditsAreSeparate' /\ AuditsHaveCause' /\ KilledOnlyIfAtFault'
    BY <1>1 DEF AuditsAreSeparate, AuditsHaveCause, KilledOnlyIfAtFault, auditState
<1>8. OpenRace'
    BY DEF OpenRace
<1> QED BY <1>7, <1>8, <1>6

LEMMA TickIInv == IInv /\ Tick => IInv'
<1> SUFFICES ASSUME IInv, Tick PROVE IInv'
    OBVIOUS
<1> USE DEF Tick, IInv, flight, auditState
<1>1. ASSUME NEW t \in Int, NEW n \in Nat, t \in {Off} \cup 0 .. n, t # 0
      PROVE  Later(t) \in {Off} \cup 0 .. n /\ (Later(t) = Off <=> t = Off)
    BY <1>1 DEF Later, Off
<1>2. /\ toCheck' \in {Off} \cup 0 .. CheckInterval
      /\ toTimeout' \in {Off} \cup 0 .. AnswerTimeout
      /\ toAudit' \in {Off} \cup 0 .. AuditInterval
      /\ toTimeout' = Off <=> toTimeout = Off
      /\ toAudit' = Off <=> toAudit = Off
    BY <1>1, HealthConfigAssumption DEF TypeOK, Off
<1>3. MaxDetection \in Nat
    BY HealthConfigAssumption DEF MaxDetection
<1>4. TypeOK'
    BY <1>2, <1>3 DEF TypeOK
<1>5. AuditsAreSeparate' /\ AuditsHaveCause' /\ KilledOnlyIfAtFault'
    BY <1>2 DEF AuditsAreSeparate, AuditsHaveCause, KilledOnlyIfAtFault
<1>6. OpenRace'
    BY <1>2 DEF OpenRace
<1> QED BY <1>4, <1>5, <1>6

LEMMA NextIInv == IInv /\ [Next]_vars => IInv'
<1> SUFFICES ASSUME IInv, [Next]_vars PROVE IInv'
    OBVIOUS
<1> USE DEF auditState, timers, flight, history
<1>1. CASE Hang
    BY <1>1 DEF Hang, IInv, TypeOK, AuditsAreSeparate, OpenRace, AuditsHaveCause,
       KilledOnlyIfAtFault
<1>2. CASE UNCHANGED vars
    BY <1>2 DEF vars, IInv, TypeOK, AuditsAreSeparate, OpenRace, AuditsHaveCause,
       KilledOnlyIfAtFault
<1> QED BY <1>1, <1>2, CheckDueIInv, SendRequestIInv, AnswerIInv, TimeoutIInv,
           AuditDueIInv, TickIInv DEF Next, SelfHealth

-----------------------------------------------------------------------------
\* Every variable keeps its type, and no timer exceeds its period.
THEOREM TypeCorrect == Spec => []TypeOK
<1>1. IInv => TypeOK
    BY DEF IInv
<1> QED BY InitIInv, NextIInv, <1>1, PTL DEF Spec

\* No audit inherits a counter or a pending verdict from an earlier one.
THEOREM AuditsAreSeparateHolds == Spec => []AuditsAreSeparate
<1>1. IInv => AuditsAreSeparate
    BY DEF IInv
<1> QED BY InitIInv, NextIInv, <1>1, PTL DEF Spec

\* A worker that answered every request in time and in good health is not killed.
THEOREM KilledOnlyIfAtFaultHolds == Spec => []KilledOnlyIfAtFault
<1>1. IInv => KilledOnlyIfAtFault
    BY DEF IInv
<1> QED BY InitIInv, NextIInv, <1>1, PTL DEF Spec

-----------------------------------------------------------------------------
(* How long a hung worker lasts. *)

\* The timers of an open subscription: the check after this one is due an
\* interval after this one began.
InStep ==
    subscribed =>
        /\ toCheck \in 0 .. CheckInterval
        /\ toTimeout # Off => toCheck = toTimeout + CheckInterval - AnswerTimeout

\* An audit that has its checks has a verdict coming.
VerdictPends == subscribed /\ checks >= TotalChecks => toAudit # Off

\* Checks that a hung worker can still get before its audit has all of them.  An
\* audit that may yet pass starts again from nothing.
Missing == IF lastFailed THEN TotalChecks - checks ELSE TotalChecks

\* Ticks to the next time-out.
ToFailure == IF toTimeout # Off THEN toTimeout ELSE toCheck + AnswerTimeout

\* The ticks that n checks take.
Taking(n) == n * CheckInterval

\* What is left of the time that a hung worker has.
Budget ==
    subscribed /\ hung =>
        /\ Missing > 0 =>
              hungFor + ToFailure + Taking(Missing - 1) + AuditInterval <= MaxDetection
        /\ Missing <= 0 => hungFor + toAudit <= MaxDetection

Clock == InStep /\ VerdictPends /\ (~hung => hungFor = 0) /\ Budget

LEMMA TakingIs ==
    /\ \A n \in Nat : Taking(n) \in Nat /\ Taking(n + 1) = Taking(n) + CheckInterval
    /\ \A m, n \in Nat : m <= n => Taking(m) <= Taking(n)
    /\ MaxDetection = Taking(TotalChecks - 1) + CheckInterval + AnswerTimeout + AuditInterval
<1>1. CheckInterval \in Nat /\ TotalChecks - 1 \in Nat
    BY HealthConfigAssumption
<1>2. \A n \in Nat : n * CheckInterval \in Nat /\ (n + 1) * CheckInterval = n * CheckInterval + CheckInterval
    BY <1>1
<1>3. ASSUME NEW m \in Nat, NEW n \in Nat, m <= n PROVE m * CheckInterval <= n * CheckInterval
  <2>1. PICK k \in Nat : n = m + k
      BY <1>3
  <2>2. n * CheckInterval = m * CheckInterval + k * CheckInterval
      BY <1>1, <2>1
  <2>3. m * CheckInterval \in Nat /\ k * CheckInterval \in Nat
      BY <1>1
  <2> QED BY <2>2, <2>3
<1>4. TotalChecks * CheckInterval = (TotalChecks - 1) * CheckInterval + CheckInterval
  <2>1. PICK n \in Nat : n = TotalChecks - 1 /\ TotalChecks = n + 1
      BY <1>1, HealthConfigAssumption
  <2> QED BY <1>2, <2>1
<1> QED BY <1>2, <1>3, <1>4 DEF Taking, MaxDetection

\* A worker that hangs has the whole time before it.
LEMMA FullBudget ==
    ASSUME TypeOK, InStep, VerdictPends, subscribed, hungFor = 0
    PROVE  /\ Missing > 0 =>
                 hungFor + ToFailure + Taking(Missing - 1) + AuditInterval <= MaxDetection
           /\ Missing <= 0 => hungFor + toAudit <= MaxDetection
<1> USE HealthConfigAssumption
<1>1. Missing \in Int /\ Missing <= TotalChecks /\ ToFailure \in 0 .. CheckInterval + AnswerTimeout
    BY DEF TypeOK, InStep, Missing, ToFailure, Off
<1>2. ASSUME Missing > 0 PROVE Taking(Missing - 1) <= Taking(TotalChecks - 1)
  <2>1. Missing - 1 \in Nat /\ TotalChecks - 1 \in Nat /\ Missing - 1 <= TotalChecks - 1
      BY <1>1, <1>2
  <2> QED BY <2>1, TakingIs
<1>3. /\ Taking(TotalChecks - 1) \in Nat
      /\ MaxDetection = Taking(TotalChecks - 1) + CheckInterval + AnswerTimeout + AuditInterval
    BY TakingIs
<1>4. toAudit \in Int /\ toAudit <= AuditInterval
    BY DEF TypeOK, Off
<1>5. ASSUME Missing > 0 PROVE Taking(Missing - 1) \in Nat
  <2>1. Missing - 1 \in Nat
      BY <1>1, <1>5
  <2> QED BY <2>1, TakingIs
<1> QED BY <1>1, <1>2, <1>3, <1>4, <1>5

LEMMA InitClock == Init => Clock
<1> SUFFICES ASSUME Init PROVE Clock
    OBVIOUS
<1> QED BY HealthConfigAssumption DEF Init, Clock, InStep, VerdictPends, Budget, Off

LEMMA ObservePends ==
    ASSUME IInv, VerdictPends, subscribed, NEW ok \in BOOLEAN, Observe(ok)
    PROVE  checks' >= TotalChecks => toAudit' # Off
BY HealthConfigAssumption DEF IInv, TypeOK, VerdictPends, Observe, auditState, Off

LEMMA CheckDueClock == IInv /\ Clock /\ CheckDue => Clock'
<1> SUFFICES ASSUME IInv, Clock, CheckDue PROVE Clock'
    OBVIOUS
<1> USE HealthConfigAssumption
<1>1. /\ subscribed /\ toCheck = 0 /\ toCheck' = CheckInterval /\ toTimeout' = AnswerTimeout
      /\ UNCHANGED <<subscribed, toAudit, checks, lastFailed, hung, hungFor>>
    BY DEF CheckDue, auditState, history
<1>2. toTimeout = Off
    BY <1>1 DEF IInv, TypeOK, Clock, InStep
<1>3. InStep' /\ VerdictPends'
    BY <1>1 DEF Clock, InStep, VerdictPends
<1>4. ToFailure' = ToFailure /\ Missing' = Missing
    BY <1>1, <1>2 DEF ToFailure, Missing, Off
<1> QED BY <1>1, <1>3, <1>4 DEF Clock, Budget

LEMMA AnswerClock ==
    ASSUME IInv, Clock, NEW isOwn \in BOOLEAN, NEW ok \in BOOLEAN, AnswerArrives(isOwn, ok)
    PROVE  Clock'
<1>1. /\ subscribed /\ ~hung /\ hung' = hung /\ hungFor' = hungFor
      /\ subscribed' = subscribed /\ toCheck' = toCheck
    BY DEF AnswerArrives
<1>2. toTimeout' \in {Off, toTimeout}
    BY DEF AnswerArrives
<1>3. VerdictPends'
  <2>1. Observe(ok) \/ UNCHANGED <<checks, toAudit>>
      BY DEF AnswerArrives, auditState
  <2> QED BY <1>1, <2>1, ObservePends DEF Clock, VerdictPends
<1> QED BY <1>1, <1>2, <1>3 DEF Clock, InStep, Budget

LEMMA TimeoutClock == IInv /\ Clock /\ TimeoutDue => Clock'
<1> SUFFICES ASSUME IInv, Clock, TimeoutDue PROVE Clock'
    OBVIOUS
<1> USE HealthConfigAssumption
<1>1. /\ subscribed /\ toTimeout = 0 /\ toTimeout' = Off /\ Observe(FALSE)
      /\ UNCHANGED <<subscribed, toCheck, hung, hungFor>>
    BY DEF TimeoutDue
<1>2. /\ checks' = checks + 1 /\ lastFailed' = TRUE
      /\ toAudit' = IF toAudit = Off THEN AuditInterval ELSE toAudit
    BY <1>1 DEF Observe
<1>3. toCheck \in 0 .. CheckInterval /\ toCheck = CheckInterval - AnswerTimeout
    BY <1>1 DEF Clock, InStep, Off
<1>4. VerdictPends'
    BY <1>1, ObservePends DEF Clock, VerdictPends
<1>5. InStep'
    BY <1>1, <1>3 DEF InStep
<1>6. /\ checks \in Nat /\ Missing \in Int /\ Missing' \in Int /\ Missing' <= Missing - 1
      /\ Missing = TotalChecks \/ Missing = TotalChecks - checks
      /\ ToFailure = 0 /\ ToFailure' = CheckInterval /\ hungFor \in Nat
      /\ toAudit \in Int /\ toAudit <= AuditInterval
    BY <1>1, <1>2, <1>3, MaxDetectionIsNat DEF IInv, TypeOK, Missing, ToFailure, Off
<1>7. ASSUME hung PROVE Budget'
  <2>1. CASE Missing <= 0
    <3>1. toAudit # Off
        BY <1>1, <1>6, <2>1 DEF Clock, VerdictPends
    <3> QED BY <1>1, <1>2, <1>6, <1>7, <2>1, <3>1 DEF Clock, Budget
  <2>2. CASE Missing > 0
    <3>1. Missing - 1 \in Nat
        BY <1>6, <2>2
    <3>2. Taking(Missing - 1) \in Nat
        BY <3>1, TakingIs
    <3>3. hungFor + Taking(Missing - 1) + AuditInterval <= MaxDetection
        BY <1>1, <1>6, <1>7, <2>2, <3>2 DEF Clock, Budget
    <3>4. MaxDetection \in Nat
        BY MaxDetectionIsNat
    <3>5. PICK n \in Int : Missing' = n /\ n <= Missing - 1
        BY <1>6
    <3>6. CASE n <= 0
      <4>1. PICK a \in Int : toAudit' = a /\ a <= AuditInterval
          BY <1>2, <1>6
      <4>2. hungFor + a <= MaxDetection
          BY <1>6, <3>2, <3>3, <3>4, <4>1
      <4> QED BY <1>1, <3>5, <3>6, <4>1, <4>2 DEF Budget
    <3>7. CASE n > 0
      <4>1. n - 1 \in Nat /\ n \in Nat /\ n = (n - 1) + 1
          BY <3>5, <3>7
      <4>2. Taking(n) = Taking(n - 1) + CheckInterval /\ Taking(n - 1) \in Nat
          BY <4>1, TakingIs
      <4>3. Taking(n) <= Taking(Missing - 1)
          BY <3>1, <3>5, <4>1, TakingIs
      <4>4. hungFor + CheckInterval + Taking(n - 1) + AuditInterval <= MaxDetection
          BY <1>6, <3>2, <3>3, <3>4, <4>2, <4>3
      <4> QED BY <1>1, <1>6, <3>5, <3>7, <4>4 DEF Budget
    <3> QED BY <3>5, <3>6, <3>7
  <2> QED BY <1>6, <2>1, <2>2
<1> QED BY <1>1, <1>4, <1>5, <1>7 DEF Clock, Budget

LEMMA AuditDueClock == IInv /\ Clock /\ AuditDue => Clock'
<1> SUFFICES ASSUME IInv, Clock, AuditDue PROVE Clock'
    OBVIOUS
<1> USE HealthConfigAssumption
<1>1. toAudit = 0 /\ toAudit' = Off /\ hung' = hung /\ hungFor' = hungFor
    BY DEF AuditDue, history
<1>2. CASE subscribed' = FALSE
    BY <1>1, <1>2 DEF Clock, InStep, VerdictPends, Budget
<1>3. CASE checks < TotalChecks /\ UNCHANGED <<subscribed, toCheck, toTimeout, auditState>>
    BY <1>1, <1>3 DEF Clock, InStep, VerdictPends, Budget, Missing, ToFailure, auditState,
                      IInv, TypeOK
<1>4. CASE /\ AuditPassed /\ checks' = 0 /\ lastFailed' = FALSE
           /\ UNCHANGED <<subscribed, toCheck, toTimeout>>
  <2>1. ~lastFailed
      BY <1>4 DEF AuditPassed
  <2>2. Missing' = Missing /\ Missing = TotalChecks /\ ToFailure' = ToFailure
      BY <1>4, <2>1 DEF Missing, ToFailure
  <2> QED BY <1>1, <1>4, <2>2 DEF Clock, InStep, VerdictPends, Budget
<1> QED BY <1>2, <1>3, <1>4 DEF AuditDue

LEMMA HangClock == IInv /\ Clock /\ Hang => Clock'
<1> SUFFICES ASSUME IInv, Clock, Hang PROVE Clock'
    OBVIOUS
<1>1. /\ subscribed /\ ~hung /\ hungFor = 0
      /\ UNCHANGED <<subscribed, toCheck, toTimeout, toAudit, checks, lastFailed, hungFor>>
    BY DEF Hang, Clock, timers, auditState, history
<1>2. InStep' /\ VerdictPends'
    BY <1>1 DEF Clock, InStep, VerdictPends
<1>3. Missing' = Missing /\ ToFailure' = ToFailure
    BY <1>1 DEF Missing, ToFailure
<1>4. Budget'
    BY <1>1, <1>3, FullBudget DEF Budget, Clock, IInv
<1>5. hung'
    BY DEF Hang
<1> QED BY <1>2, <1>4, <1>5 DEF Clock

LEMMA TickClock == IInv /\ Clock /\ Tick => Clock'
<1> SUFFICES ASSUME IInv, Clock, Tick PROVE Clock'
    OBVIOUS
<1> USE HealthConfigAssumption
<1>1. /\ subscribed /\ toCheck # 0 /\ toTimeout # 0 /\ toAudit # 0
      /\ toCheck' = Later(toCheck) /\ toTimeout' = Later(toTimeout) /\ toAudit' = Later(toAudit)
      /\ hungFor' = IF hung /\ hungFor <= MaxDetection THEN hungFor + 1 ELSE hungFor
      /\ UNCHANGED <<subscribed, checks, lastFailed, hung>>
    BY DEF Tick, auditState
<1>2. toCheck \in 1 .. CheckInterval /\ toCheck' = toCheck - 1
    BY <1>1 DEF Clock, InStep, Later, Off
<1>3. /\ toTimeout = Off => toTimeout' = Off
      /\ toTimeout # Off => toTimeout \in 1 .. AnswerTimeout /\ toTimeout' = toTimeout - 1
                            /\ toTimeout' # Off
    BY <1>1 DEF IInv, TypeOK, Later, Off
<1>4. /\ toAudit = Off => toAudit' = Off
      /\ toAudit # Off => toAudit \in 1 .. AuditInterval /\ toAudit' = toAudit - 1
                          /\ toAudit' # Off
    BY <1>1 DEF IInv, TypeOK, Later, Off
<1>5. InStep'
    BY <1>1, <1>2, <1>3 DEF Clock, InStep
<1>6. VerdictPends'
    BY <1>1, <1>4 DEF Clock, VerdictPends
<1>7. /\ Missing' = Missing /\ Missing \in Int /\ ToFailure \in Nat /\ ToFailure' = ToFailure - 1
      /\ hungFor \in Nat /\ hungFor' \in Nat /\ hungFor' <= hungFor + 1
    BY <1>1, <1>2, <1>3, MaxDetectionIsNat DEF Missing, ToFailure, IInv, TypeOK
<1>8. ASSUME hung, Missing > 0
      PROVE  hungFor' + ToFailure' + Taking(Missing - 1) + AuditInterval <= MaxDetection
  <2>1. Missing - 1 \in Nat
      BY <1>7, <1>8
  <2>2. Taking(Missing - 1) \in Nat /\ MaxDetection \in Nat
      BY <2>1, TakingIs, MaxDetectionIsNat
  <2> QED BY <1>1, <1>7, <1>8, <2>2 DEF Clock, Budget
<1>9. ASSUME hung, Missing <= 0 PROVE hungFor' + toAudit' <= MaxDetection
  <2>1. checks >= TotalChecks
      BY <1>9 DEF Missing, IInv, TypeOK
  <2>2. toAudit # Off
      BY <1>1, <2>1 DEF Clock, VerdictPends
  <2> QED BY <1>1, <1>4, <1>7, <1>9, <2>2, MaxDetectionIsNat DEF Clock, Budget
<1>10. Budget'
    BY <1>1, <1>7, <1>8, <1>9 DEF Budget
<1> QED BY <1>1, <1>5, <1>6, <1>10 DEF Clock

LEMMA NextClock == IInv /\ Clock /\ [Next]_vars => Clock'
<1> SUFFICES ASSUME IInv, Clock, [Next]_vars PROVE Clock'
    OBVIOUS
<1>1. CASE SendRequest
    BY <1>1 DEF SendRequest, Clock, InStep, VerdictPends, Budget, Missing, ToFailure,
                timers, auditState, history
<1>2. CASE UNCHANGED vars
    BY <1>2 DEF vars, Clock, InStep, VerdictPends, Budget, Missing, ToFailure,
                timers, auditState, history
<1> QED BY <1>1, <1>2, CheckDueClock, AnswerClock, TimeoutClock, AuditDueClock, HangClock,
           TickClock DEF Next, SelfHealth

\* A worker that stops answering is killed within the checks of one audit, one
\* time-out and one audit interval, whatever the audit has counted before.
THEOREM DetectionBoundHolds == Spec => []DetectionBound
<1>1. IInv /\ Clock => DetectionBound
  <2> SUFFICES ASSUME IInv, Clock, subscribed PROVE hungFor <= MaxDetection
      BY DEF DetectionBound
  <2> USE HealthConfigAssumption
  <2>1. hungFor \in Nat /\ MaxDetection \in Nat /\ Missing \in Int /\ ToFailure \in Nat
      BY MaxDetectionIsNat DEF IInv, TypeOK, Missing, ToFailure, Clock, InStep, Off
  <2>2. CASE ~hung
      BY <2>1, <2>2 DEF Clock
  <2>3. CASE hung /\ Missing > 0
    <3>1. Missing - 1 \in Nat
        BY <2>1, <2>3
    <3>2. Taking(Missing - 1) \in Nat
        BY <3>1, TakingIs
    <3> QED BY <2>1, <2>3, <3>2 DEF Clock, Budget
  <2>4. CASE hung /\ Missing <= 0
    <3>1. checks >= TotalChecks
        BY <2>4 DEF Missing, IInv, TypeOK
    <3>2. toAudit \in Nat
        BY <3>1 DEF Clock, VerdictPends, IInv, TypeOK
    <3> QED BY <2>1, <2>4, <3>2 DEF Clock, Budget
  <2> QED BY <2>1, <2>2, <2>3, <2>4
<1> QED BY InitIInv, NextIInv, InitClock, NextClock, <1>1, PTL DEF Spec

-----------------------------------------------------------------------------
(* Whose answer settles a check. *)

\* A request of an earlier check is still in flight only because the worker was
\* late or ill before: while a race is open its time-out runs, and a race that
\* another answer has won, or that nobody has, leaves a fault behind.
Overdue ==
    /\ late > 0 => fault
    /\ race = "expired" => fault
    /\ race = "answered" /\ (own \/ sendDue) => fault
    /\ race = "idle" => ~own /\ ~sendDue
    /\ race = "open" /\ subscribed => toTimeout # Off
    /\ ~(own /\ sendDue)

LEMMA InitOverdue == Init => Overdue
BY HealthConfigAssumption DEF Init, Overdue

LEMMA CheckDueOverdue == IInv /\ Clock /\ Overdue /\ CheckDue => Overdue'
<1> SUFFICES ASSUME IInv, Clock, Overdue, CheckDue PROVE Overdue'
    OBVIOUS
<1>1. /\ subscribed /\ toCheck = 0 /\ fault' = fault
      /\ race' = "open" /\ toTimeout' = AnswerTimeout /\ sendDue' = TRUE /\ own' = FALSE
    BY DEF CheckDue, history
<1>2. late' = late \/ own
    BY Zenon DEF CheckDue
<1>3. toTimeout = Off
    BY <1>1, HealthConfigAssumption DEF IInv, TypeOK, Clock, InStep
<1>4. race # "open"
    BY <1>1, <1>3 DEF Overdue
<1>5. own => fault
    BY <1>4 DEF Overdue, IInv, TypeOK
<1>6. late' > 0 => fault'
    BY <1>1, <1>2, <1>5 DEF Overdue
<1>7. toTimeout' # Off
    BY <1>1, HealthConfigAssumption DEF Off
<1> QED BY <1>1, <1>6, <1>7 DEF Overdue

LEMMA AnswerOverdue ==
    ASSUME IInv, Overdue, NEW isOwn \in BOOLEAN, NEW ok \in BOOLEAN, AnswerArrives(isOwn, ok)
    PROVE  Overdue'
<1>1. /\ subscribed' = subscribed /\ sendDue' = sendDue /\ fault' = (fault \/ ~ok)
    BY Zenon DEF AnswerArrives
<1>2. \/ race \in {"open", "answered"} /\ race' = "answered"
      \/ race \in {"idle", "expired"} /\ race' = race /\ toTimeout' = toTimeout
    BY DEF AnswerArrives, IInv, TypeOK
<1>3. CASE own /\ own' = FALSE /\ late' = late
    BY <1>1, <1>2, <1>3 DEF Overdue
<1>4. CASE late > 0 /\ late' = late - 1 /\ own' = own
  <2>1. fault /\ fault'
      BY <1>1, <1>4 DEF Overdue
  <2> QED BY <1>1, <1>2, <1>4, <2>1 DEF Overdue
<1> QED BY <1>3, <1>4, Zenon DEF AnswerArrives

LEMMA TimeoutOverdue == IInv /\ Overdue /\ TimeoutDue => Overdue'
<1> SUFFICES ASSUME IInv, Overdue, TimeoutDue PROVE Overdue'
    OBVIOUS
<1>1. /\ race' = "expired" /\ fault' = (fault \/ own)
      /\ UNCHANGED <<subscribed, sendDue, own, late>> /\ toTimeout = 0
    BY DEF TimeoutDue, flight
<1>2. own
    BY <1>1, HealthConfigAssumption DEF IInv, OpenRace, Off
<1> QED BY <1>1, <1>2 DEF Overdue

LEMMA TickOverdue == IInv /\ Overdue /\ Tick => Overdue'
<1> SUFFICES ASSUME IInv, Overdue, Tick PROVE Overdue'
    OBVIOUS
<1>1. /\ toTimeout # 0 /\ toTimeout' = Later(toTimeout)
      /\ UNCHANGED <<subscribed, sendDue, race, own, late, fault>>
    BY DEF Tick, flight
<1>2. toTimeout # Off => toTimeout' # Off
    BY <1>1, HealthConfigAssumption DEF IInv, TypeOK, Later, Off
<1> QED BY <1>1, <1>2 DEF Overdue

LEMMA NextOverdue == IInv /\ Clock /\ Overdue /\ [Next]_vars => Overdue'
<1> SUFFICES ASSUME IInv, Clock, Overdue, [Next]_vars PROVE Overdue'
    OBVIOUS
<1>1. CASE SendRequest
    BY <1>1 DEF SendRequest, Overdue, timers, history
<1>2. CASE AuditDue
  <2>1. /\ UNCHANGED <<sendDue, race, own, late, fault>>
        /\ subscribed' = FALSE \/ UNCHANGED <<subscribed, toTimeout>>
      BY <1>2 DEF AuditDue, flight, history
  <2> QED BY <2>1 DEF Overdue
<1>3. CASE Hang
    BY <1>3 DEF Hang, Overdue, timers, flight, history
<1>4. CASE UNCHANGED vars
    BY <1>4 DEF vars, Overdue, timers, flight, history
<1> QED BY <1>1, <1>2, <1>3, <1>4, CheckDueOverdue, AnswerOverdue, TimeoutOverdue, TickOverdue
        DEF Next, SelfHealth

\* What is true of CheckPassesByItsOwnAnswer: the answer to an earlier check can
\* settle the running one only for a worker that was late or ill before.
OnlyTheFaultyAreMistaken ==
    [][race = "open" /\ race' = "answered" => (own /\ ~own') \/ fault]_vars

\* A check of a worker that has been in time and in good health so far is
\* settled by the answer to its own request.
THEOREM FaultlessChecksAreTheirOwn == Spec => OnlyTheFaultyAreMistaken
<1> DEFINE Step == race = "open" /\ race' = "answered" => (own /\ ~own') \/ fault
<1>1. Overdue /\ [Next]_vars => [Step]_vars
  <2> SUFFICES ASSUME Overdue, Next, race = "open", race' = "answered"
               PROVE  (own /\ ~own') \/ fault
      OBVIOUS
  <2>1. CASE \E isOwn \in BOOLEAN, ok \in SelfHealth : AnswerArrives(isOwn, ok)
    <3>1. (own /\ own' = FALSE) \/ late > 0
        BY <2>1, Zenon DEF AnswerArrives
    <3> QED BY <3>1 DEF Overdue
  <2> QED BY <2>1 DEF Next, CheckDue, SendRequest, TimeoutDue, AuditDue, Hang, Tick
<1>2. Spec => [][Step]_vars
    BY InitIInv, NextIInv, InitClock, NextClock, InitOverdue, NextOverdue, <1>1, PTL DEF Spec
<1> QED BY <1>2 DEF OnlyTheFaultyAreMistaken

-----------------------------------------------------------------------------
(* The audit as ClusterSupervisor sees it. *)

\* The supervisor with this worker in its one slot, online and alive.
Primary == INSTANCE ClusterSupervisor WITH
    Cpus <- 1, CpuMax <- 0, MaxWorkerAttempts <- 0, Pid <- {"worker"},
    primary <- "running", attemptsRemaining <- <<0>>, worker <- <<"worker">>,
    allWorkerPid <- <<{"worker"}>>, isOnline <- <<TRUE>>,
    process <- [p \in {"worker"} |-> "running"], channel <- {"worker"},
    inbox <- [p \in {"worker"} |-> {}],
    watched <- IF subscribed THEN {"worker"} ELSE {},
    sending <- IF sendDue THEN {"worker"} ELSE {},
    killed <- IF subscribed THEN {} ELSE {"worker"}

\* Towards the primary an audit asks for its worker's health, sends what it has
\* announced and kills once, and does nothing else.
ActsAsSupervised ==
    [][\/ Primary!HealthTick("worker")
       \/ Primary!SendHealthCheck("worker")
       \/ Primary!KillUnhealthy("worker")]_(Primary!healthVars)

LEMMA StepAsSupervised ==
    ASSUME [Next]_vars
    PROVE  \/ Primary!HealthTick("worker")
           \/ Primary!SendHealthCheck("worker")
           \/ Primary!KillUnhealthy("worker")
           \/ UNCHANGED Primary!healthVars
<1> USE DEF Primary!configVars, Primary!nodeVars, Primary!healthVars
<1>1. CASE CheckDue
    BY <1>1 DEF CheckDue, Primary!HealthTick
<1>2. CASE SendRequest
  <2>1. sendDue /\ sendDue' = FALSE /\ subscribed' = subscribed
      BY <1>2 DEF SendRequest
  <2>2. "running" \in Primary!SendOutcome({"worker"})
      BY DEF Primary!SendOutcome, Primary!Alive
  <2> QED BY <2>1, <2>2 DEF Primary!SendHealthCheck
<1>3. CASE AuditDue
  <2>1. subscribed /\ sendDue' = sendDue /\ (subscribed' = subscribed \/ subscribed' = FALSE)
      BY <1>3 DEF AuditDue
  <2> QED BY <2>1 DEF Primary!KillUnhealthy
<1>4. CASE subscribed' = subscribed /\ sendDue' = sendDue
    BY <1>4
<1>5. \/ CheckDue \/ SendRequest \/ AuditDue
      \/ subscribed' = subscribed /\ sendDue' = sendDue
    BY DEF Next, vars, AnswerArrives, TimeoutDue, Hang, Tick
<1> QED BY <1>1, <1>2, <1>3, <1>4, <1>5

\* The supervisor lets a health check begin, send and kill at any moment; the
\* audit, with its race, its counters and its clock, does no more than that.
THEOREM AuditIsAsSupervised == Spec => ActsAsSupervised
<1>1. [Next]_vars =>
          [\/ Primary!HealthTick("worker")
           \/ Primary!SendHealthCheck("worker")
           \/ Primary!KillUnhealthy("worker")]_(Primary!healthVars)
    BY StepAsSupervised
<1> QED BY <1>1, PTL DEF Spec, ActsAsSupervised
=============================================================================
